---------------------------- MODULE SerialProofs ----------------------------
(***************************************************************************)
(* What the proofs about the host crates share: the tokens between the     *)
(* module and the driver's poll() as one stream, framed into lines, and    *)
(* what each step of a host does to it.                                    *)
(***************************************************************************)
EXTENDS SerialRadio, DriverProofs

-----------------------------------------------------------------------------
(* Streams of lines                                                        *)

\* What the module sent and poll() has not consumed.
Unread == rx \o from_radio

\* A stream without its first line.
WithoutLine(s) == SubSeq(s, 4, Len(s))

\* A stream is a number of lines: a well formed body, a CR and an LF each.
Framed(s) ==
  \E m \in Nat :
    /\ Len(s) = 3 * m
    /\ \A k \in 0..(m - 1) :
         /\ s[3 * k + 1].key \in BodyKeys /\ s[3 * k + 1].ok
         /\ IsCR(s[3 * k + 2]) /\ IsLF(s[3 * k + 3])

\* The keys of lines are not those of their ends.
LEMMA KeysDiffer ==
  ASSUME NEW tok, tok.key \in BodyKeys
  PROVE  ~IsCR(tok) /\ ~IsLF(tok)
PROOF BY DEF BodyKeys, ResponseKeys, EventKeys, IsCR, IsLF

\* A line of the module: its type and its tokens.
LEMMA LineOfType ==
  ASSUME NEW key \in BodyKeys, NEW val \in Vals
  PROVE  /\ LineOf(key, val) \in Seq(Token) /\ Len(LineOf(key, val)) = 3
         /\ LineOf(key, val)[1] = [key |-> key, ok |-> TRUE, val |-> val]
         /\ LineOf(key, val)[2].key = "CR" /\ LineOf(key, val)[3].key = "LF"
PROOF
  <1>1. 0 \in Vals
    BY RadioAssumption
  <1>2. /\ [key |-> key, ok |-> TRUE, val |-> val] \in Token
        /\ [key |-> "CR", ok |-> TRUE, val |-> 0] \in Token
        /\ [key |-> "LF", ok |-> TRUE, val |-> 0] \in Token
    BY <1>1 DEF Token
  <1> QED BY <1>2 DEF LineOf

\* The elements of two sequences put together.
LEMMA ConcatParts ==
  ASSUME NEW s \in Seq(Token), NEW t \in Seq(Token)
  PROVE  /\ s \o t \in Seq(Token) /\ Len(s \o t) = Len(s) + Len(t)
         /\ \A i \in 1..Len(s) : (s \o t)[i] = s[i]
         /\ \A i \in 1..Len(t) : (s \o t)[Len(s) + i] = t[i]
PROOF
  <1>1. Len(s) \in Nat /\ Len(t) \in Nat
    BY LenProperties
  <1>2. /\ s \o t \in Seq(Token) /\ Len(s \o t) = Len(s) + Len(t)
        /\ \A i \in 1..(Len(s) + Len(t)) :
             (s \o t)[i] = IF i <= Len(s) THEN s[i] ELSE t[i - Len(s)]
    BY ConcatProperties
  <1>3. ASSUME NEW i \in 1..Len(t) PROVE (s \o t)[Len(s) + i] = t[i]
    <2>1. Len(s) + i \in 1..(Len(s) + Len(t)) /\ ~(Len(s) + i <= Len(s))
          /\ Len(s) + i - Len(s) = i
      BY <1>1
    <2> QED BY <1>2, <2>1
  <1>4. ASSUME NEW i \in 1..Len(s) PROVE (s \o t)[i] = s[i]
    <2>1. i \in 1..(Len(s) + Len(t)) /\ i <= Len(s)
      BY <1>1
    <2> QED BY <1>2, <2>1
  <1> QED BY <1>2, <1>3, <1>4

\* Three sequences may be put together in any order.
LEMMA TokensAssociate ==
  ASSUME NEW s \in Seq(Token), NEW t \in Seq(Token), NEW u \in Seq(Token)
  PROVE  (s \o t) \o u = s \o (t \o u)
PROOF BY ConcatAssociative

\* The elements of a stream without its first line.
LEMMA WithoutLineParts ==
  ASSUME NEW s \in Seq(Token), Len(s) >= 3
  PROVE  /\ WithoutLine(s) \in Seq(Token) /\ Len(WithoutLine(s)) = Len(s) - 3
         /\ \A i \in 1..(Len(s) - 3) : WithoutLine(s)[i] = s[i + 3]
PROOF
  <1> DEFINE n == Len(s)
  <1>0. n \in Nat /\ n >= 3
    BY LenProperties
  <1> HIDE DEF n
  <1>1. n - 4 + 1 = n - 3 /\ (n < 4 => n - 3 = 0) /\ \A i \in Int : 4 + i - 1 = i + 3
    BY <1>0
  <1>2. /\ SubSeq(s, 4, n) \in Seq(Token)
        /\ Len(SubSeq(s, 4, n)) = IF 4 <= n THEN n - 4 + 1 ELSE 0
        /\ \A i \in 1..(n - 4 + 1) : SubSeq(s, 4, n)[i] = s[4 + i - 1]
    BY <1>0, PartOfSeq DEF n
  <1>3. /\ SubSeq(s, 4, n) \in Seq(Token) /\ Len(SubSeq(s, 4, n)) = n - 3
        /\ \A i \in 1..(n - 3) : SubSeq(s, 4, n)[i] = s[i + 3]
    BY <1>0, <1>1, <1>2
  <1> QED BY <1>3 DEF WithoutLine, n

\* A stream that is not empty begins with a line.
LEMMA FramedHead ==
  ASSUME NEW s \in Seq(Token), Framed(s), s # <<>>
  PROVE  /\ Len(s) >= 3
         /\ s[1].key \in BodyKeys /\ s[1].ok /\ IsCR(s[2]) /\ IsLF(s[3])
PROOF
  <1>1. PICK m \in Nat :
          /\ Len(s) = 3 * m
          /\ \A k \in 0..(m - 1) :
               /\ s[3 * k + 1].key \in BodyKeys /\ s[3 * k + 1].ok
               /\ IsCR(s[3 * k + 2]) /\ IsLF(s[3 * k + 3])
    BY DEF Framed
  <1>2. Len(s) # 0
    BY EmptySeq
  <1>3. 0 \in 0..(m - 1) /\ Len(s) >= 3
    BY <1>1, <1>2
  <1>4. /\ s[3 * 0 + 1].key \in BodyKeys /\ s[3 * 0 + 1].ok
        /\ IsCR(s[3 * 0 + 2]) /\ IsLF(s[3 * 0 + 3])
    BY <1>1, <1>3
  <1> QED BY <1>3, <1>4

\* What is left behind the first line is a stream.
LEMMA FramedWithoutLine ==
  ASSUME NEW s \in Seq(Token), Framed(s), Len(s) >= 3
  PROVE  Framed(WithoutLine(s))
PROOF
  <1>1. PICK m \in Nat :
          /\ Len(s) = 3 * m
          /\ \A k \in 0..(m - 1) :
               /\ s[3 * k + 1].key \in BodyKeys /\ s[3 * k + 1].ok
               /\ IsCR(s[3 * k + 2]) /\ IsLF(s[3 * k + 3])
    BY DEF Framed
  <1> DEFINE t == WithoutLine(s)
  <1>2. /\ Len(t) = Len(s) - 3
        /\ \A i \in 1..(Len(s) - 3) : t[i] = s[i + 3]
    BY WithoutLineParts
  <1> HIDE DEF t
  <1>3. m - 1 \in Nat /\ Len(t) = 3 * (m - 1)
    BY <1>1, <1>2
  <1>4. ASSUME NEW k \in 0..((m - 1) - 1)
        PROVE  /\ t[3 * k + 1].key \in BodyKeys /\ t[3 * k + 1].ok
               /\ IsCR(t[3 * k + 2]) /\ IsLF(t[3 * k + 3])
    <2>1. k + 1 \in 0..(m - 1)
      BY <1>3
    <2>2. /\ s[3 * (k + 1) + 1].key \in BodyKeys /\ s[3 * (k + 1) + 1].ok
          /\ IsCR(s[3 * (k + 1) + 2]) /\ IsLF(s[3 * (k + 1) + 3])
      BY <1>1, <2>1
    <2>3. \A j \in 1..3 : t[3 * k + j] = s[3 * (k + 1) + j]
      <3>1. TAKE j \in 1..3
      <3>2. 3 * k + j \in 1..(Len(s) - 3) /\ 3 * k + j + 3 = 3 * (k + 1) + j
        BY <1>1, <1>3
      <3> QED BY <1>2, <3>2
    <2> QED BY <2>2, <2>3
  <1> QED BY <1>3, <1>4 DEF Framed, t

\* The elements of a stream with one more line behind it.
LEMMA AndLineParts ==
  ASSUME NEW s \in Seq(Token), NEW key \in BodyKeys, NEW val \in Vals
  PROVE  /\ s \o LineOf(key, val) \in Seq(Token)
         /\ Len(s \o LineOf(key, val)) = Len(s) + 3
         /\ \A i \in 1..Len(s) : (s \o LineOf(key, val))[i] = s[i]
         /\ (s \o LineOf(key, val))[Len(s) + 1] = [key |-> key, ok |-> TRUE, val |-> val]
         /\ (s \o LineOf(key, val))[Len(s) + 2].key = "CR"
         /\ (s \o LineOf(key, val))[Len(s) + 3].key = "LF"
PROOF
  <1> DEFINE e == LineOf(key, val)
             t == s \o e
  <1>1. e \in Seq(Token) /\ Len(e) = 3
    BY LineOfType
  <1>2. /\ e[1] = [key |-> key, ok |-> TRUE, val |-> val]
        /\ e[2].key = "CR" /\ e[3].key = "LF"
    BY LineOfType
  <1> HIDE DEF e
  <1>3. t \in Seq(Token) /\ Len(t) = Len(s) + Len(e)
    BY <1>1, ConcatParts
  <1>4. \A i \in 1..Len(s) : t[i] = s[i]
    BY <1>1, ConcatParts
  <1>5. \A i \in 1..Len(e) : t[Len(s) + i] = e[i]
    BY <1>1, ConcatParts
  <1> HIDE DEF t
  <1>6. t[Len(s) + 1] = e[1] /\ t[Len(s) + 2] = e[2] /\ t[Len(s) + 3] = e[3]
    BY <1>1, <1>5
  <1>7. /\ t \in Seq(Token) /\ Len(t) = Len(s) + 3 /\ \A i \in 1..Len(s) : t[i] = s[i]
        /\ t[Len(s) + 1] = [key |-> key, ok |-> TRUE, val |-> val]
        /\ t[Len(s) + 2].key = "CR" /\ t[Len(s) + 3].key = "LF"
    BY <1>1, <1>2, <1>3, <1>4, <1>6
  <1> QED BY <1>7 DEF t, e

\* With one more line behind it, it is one.
LEMMA FramedAndLine ==
  ASSUME NEW s \in Seq(Token), Framed(s), NEW key \in BodyKeys, NEW val \in Vals
  PROVE  Framed(s \o LineOf(key, val))
PROOF
  <1>1. PICK m \in Nat :
          /\ Len(s) = 3 * m
          /\ \A k \in 0..(m - 1) :
               /\ s[3 * k + 1].key \in BodyKeys /\ s[3 * k + 1].ok
               /\ IsCR(s[3 * k + 2]) /\ IsLF(s[3 * k + 3])
    BY DEF Framed
  <1> DEFINE t == s \o LineOf(key, val)
  <1>2. /\ Len(t) = Len(s) + 3
        /\ \A i \in 1..Len(s) : t[i] = s[i]
        /\ t[Len(s) + 1] = [key |-> key, ok |-> TRUE, val |-> val]
        /\ t[Len(s) + 2].key = "CR" /\ t[Len(s) + 3].key = "LF"
    BY AndLineParts
  <1> HIDE DEF t
  <1>3. /\ t[Len(s) + 1].key \in BodyKeys /\ t[Len(s) + 1].ok
        /\ IsCR(t[Len(s) + 2]) /\ IsLF(t[Len(s) + 3])
    <2>1. t[Len(s) + 1].key = key /\ t[Len(s) + 1].ok = TRUE
      BY <1>2
    <2> QED BY <1>2, <2>1 DEF IsCR, IsLF
  <1>4. m + 1 \in Nat /\ Len(t) = 3 * (m + 1)
    BY <1>1, <1>2
  <1>5. ASSUME NEW k \in 0..((m + 1) - 1)
        PROVE  /\ t[3 * k + 1].key \in BodyKeys /\ t[3 * k + 1].ok
               /\ IsCR(t[3 * k + 2]) /\ IsLF(t[3 * k + 3])
    <2>1. CASE k = m
      BY <1>1, <1>3, <2>1
    <2>2. CASE k # m
      <3>1. k \in 0..(m - 1)
        BY <2>2
      <3>2. ASSUME NEW j \in 1..3
            PROVE  t[3 * k + j] = s[3 * k + j]
        <4>1. 3 * k + j \in 1..Len(s)
          BY <1>1, <3>1
        <4> QED BY <1>2, <4>1
      <3>3. /\ s[3 * k + 1].key \in BodyKeys /\ s[3 * k + 1].ok
            /\ IsCR(s[3 * k + 2]) /\ IsLF(s[3 * k + 3])
        BY <1>1, <3>1
      <3> QED BY <3>2, <3>3
    <2> QED BY <2>1, <2>2
  <1> QED BY <1>4, <1>5 DEF Framed, t

-----------------------------------------------------------------------------
(* The +RCV lines of a stream                                              *)

\* t is s without the k tokens behind the first p, none of which is a +RCV.
CutsOut(s, t, p, k) ==
  /\ p + k <= Len(s) /\ Len(t) = Len(s) - k
  /\ \A i \in 1..p : t[i] = s[i]
  /\ \A i \in (p + 1)..(Len(s) - k) : t[i] = s[i + k]
  /\ \A i \in (p + 1)..(p + k) : ~IsRcv(s[i])

\* Tokens that are not +RCV may be cut out.
LEMMA RcvsCut ==
  ASSUME NEW s \in Seq(Token), NEW t \in Seq(Token), NEW a \in Int, NEW b \in Int,
         NEW p \in Nat, NEW k \in Nat, CutsOut(s, t, p, k), RcvsAre(s, a, b)
  PROVE  RcvsAre(t, a, b)
PROOF
  <1>0. /\ p + k <= Len(s) /\ Len(t) = Len(s) - k
        /\ \A i \in 1..p : t[i] = s[i]
        /\ \A i \in (p + 1)..(Len(s) - k) : t[i] = s[i + k]
        /\ \A i \in (p + 1)..(p + k) : ~IsRcv(s[i])
    BY DEF CutsOut
  <1> DEFINE At(i) == IF i <= p THEN i ELSE i + k
  <1>1. DOMAIN s = 1..Len(s) /\ DOMAIN t = 1..Len(t) /\ Len(s) \in Nat /\ Len(t) \in Nat
    BY LenProperties
  <1>2. \A i \in 1..Len(t) : At(i) \in 1..Len(s) /\ t[i] = s[At(i)]
    BY <1>0, <1>1
  <1>3. \A i, j \in 1..Len(t) : i < j => At(i) < At(j)
    BY <1>1
  <1>4. ASSUME NEW i \in 1..Len(s), IsRcv(s[i])
        PROVE  \E j \in 1..Len(t) : t[j] = s[i]
    <2>1. i <= p \/ i \in (p + 1)..(p + k) \/ i > p + k
      BY <1>1
    <2>2. CASE i <= p
      BY <1>0, <1>1, <2>2
    <2>3. CASE i > p + k
      <3>1. i - k \in (p + 1)..(Len(s) - k) /\ i - k \in 1..Len(t) /\ (i - k) + k = i
        BY <1>0, <1>1, <2>3
      <3> QED BY <1>0, <3>1
    <2> QED BY <1>0, <1>4, <2>1, <2>2, <2>3
  <1> HIDE DEF At
  <1>5. \A i \in 1..Len(t) : IsRcv(t[i]) => t[i].val \in a..b
    BY <1>1, <1>2 DEF RcvsAre
  <1>6. \A i, j \in 1..Len(t) :
          i < j /\ IsRcv(t[i]) /\ IsRcv(t[j]) => t[i].val < t[j].val
    <2>1. TAKE i, j \in 1..Len(t)
    <2>2. HAVE i < j /\ IsRcv(t[i]) /\ IsRcv(t[j])
    <2>3. /\ At(i) \in DOMAIN s /\ At(j) \in DOMAIN s /\ At(i) < At(j)
          /\ t[i] = s[At(i)] /\ t[j] = s[At(j)]
      BY <1>1, <1>2, <1>3, <2>2
    <2> QED BY <2>2, <2>3 DEF RcvsAre
  <1>7. \A n \in a..b : \E i \in 1..Len(t) : IsRcv(t[i]) /\ t[i].val = n
    BY <1>1, <1>4 DEF RcvsAre
  <1> QED BY <1>1, <1>5, <1>6, <1>7 DEF RcvsAre

\* The first token of a stream, if it is a +RCV, is the one with the first number.
LEMMA RcvsPop ==
  ASSUME NEW s \in Seq(Token), s # <<>>, NEW a \in Int, NEW b \in Int, RcvsAre(s, a, b)
  PROVE  IF IsRcv(s[1]) THEN s[1].val = a /\ a <= b /\ RcvsAre(Tail(s), a + 1, b)
                        ELSE RcvsAre(Tail(s), a, b)
PROOF
  <1> DEFINE t == Tail(s)
  <1>1. /\ DOMAIN s = 1..Len(s) /\ Len(s) \in Nat \ {0}
        /\ t \in Seq(Token) /\ Len(t) = Len(s) - 1 /\ DOMAIN t = 1..Len(t)
        /\ \A i \in 1..Len(t) : t[i] = s[i + 1]
    BY LenProperties, EmptySeq, HeadTailProperties
  <1> HIDE DEF t
  <1>2. CASE ~IsRcv(s[1])
    <2>1. RcvsAre(t, a, b)
      <3>1. CutsOut(s, t, 0, 1)
        BY <1>1, <1>2 DEF CutsOut
      <3> QED BY <1>1, <3>1, RcvsCut
    <2> QED BY <1>2, <2>1 DEF t
  <1>3. CASE IsRcv(s[1])
    <2>1. s[1].val \in a..b
      BY <1>1, <1>3 DEF RcvsAre
    <2>2. \A j \in 2..Len(s) : IsRcv(s[j]) => s[j].val \in (s[1].val + 1)..b
      <3>1. TAKE j \in 2..Len(s)
      <3>2. HAVE IsRcv(s[j])
      <3>3. 1 \in DOMAIN s /\ j \in DOMAIN s /\ 1 < j
        BY <1>1
      <3>4. s[1].val < s[j].val /\ s[j].val \in a..b
        BY <1>3, <3>2, <3>3 DEF RcvsAre
      <3> QED BY <2>1, <3>4
    <2>3. s[1].val = a
      <3>1. PICK i \in 1..Len(s) : IsRcv(s[i]) /\ s[i].val = a
        BY <1>1, <2>1 DEF RcvsAre
      <3>2. i = 1 \/ i \in 2..Len(s)
        BY <1>1
      <3> QED BY <2>1, <2>2, <3>1, <3>2
    <2>4. \A i \in 1..Len(t) : i + 1 \in 2..Len(s)
      BY <1>1
    <2>5. \A i \in 1..Len(t) : IsRcv(t[i]) => t[i].val \in (a + 1)..b
      BY <1>1, <2>2, <2>3, <2>4
    <2>6. \A i, j \in 1..Len(t) :
            i < j /\ IsRcv(t[i]) /\ IsRcv(t[j]) => t[i].val < t[j].val
      <3>1. TAKE i, j \in 1..Len(t)
      <3>2. i + 1 \in 1..Len(s) /\ j + 1 \in 1..Len(s) /\ (i < j => i + 1 < j + 1)
        BY <1>1
      <3>3. t[i] = s[i + 1] /\ t[j] = s[j + 1]
        BY <1>1
      <3>4. \A x, y \in 1..Len(s) :
              x < y /\ IsRcv(s[x]) /\ IsRcv(s[y]) => s[x].val < s[y].val
        BY <1>1 DEF RcvsAre
      <3> QED BY <3>2, <3>3, <3>4
    <2>7. ASSUME NEW n \in (a + 1)..b
          PROVE  \E i \in 1..Len(t) : IsRcv(t[i]) /\ t[i].val = n
      <3>1. PICK i \in 1..Len(s) : IsRcv(s[i]) /\ s[i].val = n
        BY <1>1 DEF RcvsAre
      <3>2. i # 1
        BY <2>3, <3>1
      <3>3. i - 1 \in 1..Len(t) /\ (i - 1) + 1 = i
        BY <1>1, <3>2
      <3> QED BY <1>1, <3>1, <3>3
    <2>8. RcvsAre(t, a + 1, b)
      BY <1>1, <2>5, <2>6, <2>7 DEF RcvsAre
    <2> QED BY <1>3, <2>1, <2>3, <2>8 DEF t
  <1> QED BY <1>2, <1>3

\* One more line at the end: a +RCV with the next number, or another line.
LEMMA RcvsAndLine ==
  ASSUME NEW s \in Seq(Token), NEW a \in Int, NEW b \in Int, RcvsAre(s, a, b),
         NEW key \in BodyKeys, NEW val \in Vals
  PROVE  /\ key # "+RCV" => RcvsAre(s \o LineOf(key, val), a, b)
         /\ key = "+RCV" /\ val = b + 1 /\ a <= b + 1 => RcvsAre(s \o LineOf(key, val), a, b + 1)
PROOF
  <1> DEFINE t == s \o LineOf(key, val)
  <1>1. /\ t \in Seq(Token) /\ Len(t) = Len(s) + 3
        /\ \A i \in 1..Len(s) : t[i] = s[i]
        /\ t[Len(s) + 1] = [key |-> key, ok |-> TRUE, val |-> val]
        /\ t[Len(s) + 2].key = "CR" /\ t[Len(s) + 3].key = "LF"
    BY AndLineParts
  <1> HIDE DEF t
  <1>2. t[Len(s) + 1].key = key /\ t[Len(s) + 1].val = val
    BY <1>1
  <1>3. ~IsRcv(t[Len(s) + 2]) /\ ~IsRcv(t[Len(s) + 3])
    BY <1>1 DEF IsRcv
  <1>4. \A i \in 1..Len(s) : t[i] = s[i]
    BY <1>1
  <1>6. /\ DOMAIN s = 1..Len(s) /\ DOMAIN t = 1..Len(t) /\ Len(s) \in Nat
        /\ \A i \in 1..Len(t) : i \in 1..Len(s) \/ i = Len(s) + 1 \/ i = Len(s) + 2 \/ i = Len(s) + 3
        /\ \A i \in 1..Len(s) : i \in 1..Len(t) /\ i < Len(s) + 1
        /\ Len(s) + 1 \in 1..Len(t)
    BY <1>1, LenProperties
  <1>7. \A i \in 1..Len(t) : IsRcv(t[i]) =>
          \/ i \in 1..Len(s) /\ t[i] = s[i]
          \/ i = Len(s) + 1 /\ key = "+RCV"
    BY <1>2, <1>3, <1>4, <1>6 DEF IsRcv
  <1>8. CASE key # "+RCV"
    <2>1. \A i \in 1..Len(t) : IsRcv(t[i]) => i \in 1..Len(s) /\ t[i] = s[i]
      BY <1>7, <1>8
    <2>2. RcvsAre(t, a, b)
      BY <1>4, <1>6, <2>1 DEF RcvsAre
    <2> QED BY <1>8, <2>2 DEF t
  <1>9. CASE key = "+RCV" /\ val = b + 1 /\ a <= b + 1
    <2>1. IsRcv(t[Len(s) + 1]) /\ t[Len(s) + 1].val = b + 1
      BY <1>2, <1>9 DEF IsRcv
    <2>2. \A i \in 1..Len(s) : IsRcv(s[i]) => s[i].val \in a..b
      BY <1>6 DEF RcvsAre
    <2>3. \A i \in 1..Len(t) : IsRcv(t[i]) => t[i].val \in a..(b + 1)
      <3>1. TAKE i \in 1..Len(t)
      <3>2. HAVE IsRcv(t[i])
      <3>3. CASE i \in 1..Len(s) /\ t[i] = s[i]
        BY <2>2, <3>2, <3>3
      <3>4. CASE i = Len(s) + 1
        BY <1>9, <2>1, <3>4
      <3> QED BY <1>7, <3>2, <3>3, <3>4
    <2>4. \A i, j \in 1..Len(t) :
            i < j /\ IsRcv(t[i]) /\ IsRcv(t[j]) => t[i].val < t[j].val
      <3>1. TAKE i, j \in 1..Len(t)
      <3>2. HAVE i < j /\ IsRcv(t[i]) /\ IsRcv(t[j])
      <3>3. CASE j \in 1..Len(s) /\ t[j] = s[j]
        <4>1. i \in 1..Len(s) /\ t[i] = s[i]
          BY <1>4, <1>6, <3>2, <3>3
        <4> QED BY <1>6, <3>2, <3>3, <4>1 DEF RcvsAre
      <3>4. CASE j = Len(s) + 1
        <4>1. i \in 1..Len(s) /\ t[i] = s[i]
          BY <1>4, <1>6, <3>2, <3>4
        <4>2. s[i].val \in a..b
          BY <2>2, <3>2, <4>1
        <4> QED BY <2>1, <3>4, <4>1, <4>2
      <3> QED BY <1>7, <3>2, <3>3, <3>4
    <2>5. \A n \in a..(b + 1) : \E i \in 1..Len(t) : IsRcv(t[i]) /\ t[i].val = n
      <3>1. TAKE n \in a..(b + 1)
      <3>2. CASE n = b + 1
        BY <1>6, <2>1, <3>2
      <3>3. CASE n # b + 1
        <4>1. n \in a..b
          BY <3>3
        <4>2. PICK i \in 1..Len(s) : IsRcv(s[i]) /\ s[i].val = n
          BY <1>6, <4>1 DEF RcvsAre
        <4> QED BY <1>4, <1>6, <4>2
      <3> QED BY <3>2, <3>3
    <2>6. RcvsAre(t, a, b + 1)
      BY <1>6, <2>3, <2>4, <2>5 DEF RcvsAre
    <2> QED BY <1>9, <2>6 DEF t
  <1> QED BY <1>8, <1>9

\* The CR and the LF of the first line are not +RCV, nor is any other token.
LEMMA LineEndsAreNotRcv ==
  ASSUME NEW s \in Seq(Token), Framed(s), s # <<>>
  PROVE  Len(s) >= 3 /\ s[1] \in Token /\ ~IsRcv(s[2]) /\ ~IsRcv(s[3])
PROOF
  <1>1. Len(s) >= 3 /\ IsCR(s[2]) /\ IsLF(s[3]) /\ Len(s) \in Nat
    BY FramedHead, LenProperties
  <1>2. s[1] \in Token
    BY <1>1, ElementOfSeq
  <1> QED BY <1>1, <1>2 DEF IsCR, IsLF, IsRcv

\* A queue in front of the stream: poll() drains a line that is not a +RCV.
LEMMA QueueAndDrained ==
  ASSUME NEW q \in Seq(Token), NEW u \in Seq(Token), Framed(u), u # <<>>, ~IsRcv(u[1]),
         NEW a \in Int, NEW b \in Int, RcvsAre(q \o u, a, b)
  PROVE  RcvsAre(q \o WithoutLine(u), a, b)
PROOF
  <1> DEFINE s == q \o u
             w == WithoutLine(u)
             t == q \o w
  <1>1. /\ Len(u) >= 3 /\ ~IsRcv(u[2]) /\ ~IsRcv(u[3]) /\ Len(q) \in Nat /\ Len(u) \in Nat
    BY LineEndsAreNotRcv, LenProperties
  <1>2. /\ s \in Seq(Token) /\ Len(s) = Len(q) + Len(u)
        /\ \A i \in 1..Len(q) : s[i] = q[i]
        /\ \A i \in 1..Len(u) : s[Len(q) + i] = u[i]
    BY ConcatParts
  <1>3. w \in Seq(Token) /\ Len(w) = Len(u) - 3 /\ \A i \in 1..(Len(u) - 3) : w[i] = u[i + 3]
    BY <1>1, WithoutLineParts
  <1> HIDE DEF w
  <1>4. /\ t \in Seq(Token) /\ Len(t) = Len(q) + Len(w)
        /\ \A i \in 1..Len(q) : t[i] = q[i]
        /\ \A i \in 1..Len(w) : t[Len(q) + i] = w[i]
    BY <1>3, ConcatParts
  <1> HIDE DEF s, t
  <1>5. \A i \in (Len(q) + 1)..(Len(s) - 3) : t[i] = s[i + 3]
    <2>1. TAKE i \in (Len(q) + 1)..(Len(s) - 3)
    <2>2. /\ i - Len(q) \in 1..Len(w) /\ i - Len(q) \in 1..(Len(u) - 3)
          /\ i - Len(q) + 3 \in 1..Len(u)
          /\ Len(q) + (i - Len(q)) = i /\ Len(q) + (i - Len(q) + 3) = i + 3
      BY <1>1, <1>2, <1>3
    <2>3. t[i] = w[i - Len(q)] /\ w[i - Len(q)] = u[i - Len(q) + 3]
      BY <1>3, <1>4, <2>2
    <2>4. s[i + 3] = u[i - Len(q) + 3]
      BY <1>2, <2>2
    <2> QED BY <2>3, <2>4
  <1>6. \A i \in (Len(q) + 1)..(Len(q) + 3) : ~IsRcv(s[i])
    <2>1. s[Len(q) + 1] = u[1] /\ s[Len(q) + 2] = u[2] /\ s[Len(q) + 3] = u[3]
      BY <1>1, <1>2
    <2> QED BY <1>1, <2>1
  <1>7. \A i \in 1..Len(q) : t[i] = s[i]
    BY <1>2, <1>4
  <1>8. Len(q) + 3 <= Len(s) /\ Len(t) = Len(s) - 3
    BY <1>1, <1>2, <1>3, <1>4
  <1>9. CutsOut(s, t, Len(q), 3)
    BY <1>5, <1>6, <1>7, <1>8 DEF CutsOut
  <1>10. RcvsAre(t, a, b)
    <2>1. RcvsAre(s, a, b)
      BY DEF s
    <2> QED BY <1>1, <1>2, <1>4, <1>9, <2>1, RcvsCut
  <1> QED BY <1>10 DEF t, w

\* The event at the head of the stream is put into the queue.
LEMMA QueueTakesHead ==
  ASSUME NEW q \in Seq(Token), NEW u \in Seq(Token), Framed(u), u # <<>>,
         NEW a \in Int, NEW b \in Int, RcvsAre(q \o u, a, b)
  PROVE  RcvsAre(Append(q, u[1]) \o WithoutLine(u), a, b)
PROOF
  <1> DEFINE s == q \o u
             w == WithoutLine(u)
             p == Append(q, u[1])
             t == p \o w
  <1>1. /\ Len(u) >= 3 /\ ~IsRcv(u[2]) /\ ~IsRcv(u[3]) /\ Len(q) \in Nat /\ Len(u) \in Nat
        /\ u[1] \in Token
    BY LineEndsAreNotRcv, LenProperties
  <1>2. /\ s \in Seq(Token) /\ Len(s) = Len(q) + Len(u)
        /\ \A i \in 1..Len(q) : s[i] = q[i]
        /\ \A i \in 1..Len(u) : s[Len(q) + i] = u[i]
    BY ConcatParts
  <1>3. w \in Seq(Token) /\ Len(w) = Len(u) - 3 /\ \A i \in 1..(Len(u) - 3) : w[i] = u[i + 3]
    BY <1>1, WithoutLineParts
  <1>4. /\ p \in Seq(Token) /\ Len(p) = Len(q) + 1
        /\ \A i \in 1..Len(q) : p[i] = q[i]
        /\ p[Len(q) + 1] = u[1]
    BY <1>1, AppendProperties
  <1> HIDE DEF w, p
  <1>5. /\ t \in Seq(Token) /\ Len(t) = Len(p) + Len(w)
        /\ \A i \in 1..Len(p) : t[i] = p[i]
        /\ \A i \in 1..Len(w) : t[Len(p) + i] = w[i]
    BY <1>3, <1>4, ConcatParts
  <1> HIDE DEF s, t
  <1>6. \A i \in (Len(p) + 1)..(Len(s) - 2) : t[i] = s[i + 2]
    <2>1. TAKE i \in (Len(p) + 1)..(Len(s) - 2)
    <2>2. /\ i - Len(p) \in 1..Len(w) /\ i - Len(p) \in 1..(Len(u) - 3)
          /\ i - Len(p) + 3 \in 1..Len(u)
          /\ Len(p) + (i - Len(p)) = i /\ Len(q) + (i - Len(p) + 3) = i + 2
      BY <1>1, <1>2, <1>3, <1>4
    <2>3. t[i] = w[i - Len(p)] /\ w[i - Len(p)] = u[i - Len(p) + 3]
      BY <1>3, <1>5, <2>2
    <2>4. s[i + 2] = u[i - Len(p) + 3]
      BY <1>2, <2>2
    <2> QED BY <2>3, <2>4
  <1>7. s[Len(q) + 1] = u[1] /\ s[Len(q) + 2] = u[2] /\ s[Len(q) + 3] = u[3]
    BY <1>1, <1>2
  <1>8. \A i \in (Len(p) + 1)..(Len(p) + 2) : ~IsRcv(s[i])
    BY <1>1, <1>4, <1>7
  <1>9. \A i \in 1..Len(p) : t[i] = s[i]
    <2>1. TAKE i \in 1..Len(p)
    <2>2. i \in 1..Len(q) \/ i = Len(q) + 1
      BY <1>1, <1>4
    <2>3. t[i] = p[i]
      BY <1>5
    <2> QED BY <1>2, <1>4, <1>7, <2>2, <2>3
  <1>10. Len(p) \in Nat /\ Len(p) + 2 <= Len(s) /\ Len(t) = Len(s) - 2
    BY <1>1, <1>2, <1>3, <1>4, <1>5
  <1>11. CutsOut(s, t, Len(p), 2)
    BY <1>6, <1>8, <1>9, <1>10 DEF CutsOut
  <1>12. RcvsAre(t, a, b)
    <2>1. RcvsAre(s, a, b)
      BY DEF s
    <2> QED BY <1>2, <1>5, <1>10, <1>11, <2>1, RcvsCut
  <1> QED BY <1>12 DEF t, w, p

\* The first of the queue is taken out.
LEMMA QueuePops ==
  ASSUME NEW q \in Seq(Token), q # <<>>, NEW u \in Seq(Token),
         NEW a \in Int, NEW b \in Int, RcvsAre(q \o u, a, b)
  PROVE  IF IsRcv(Head(q)) THEN Head(q).val = a /\ a <= b /\ RcvsAre(Tail(q) \o u, a + 1, b)
                           ELSE RcvsAre(Tail(q) \o u, a, b)
PROOF
  <1> DEFINE s == q \o u
             h == Tail(q)
             t == h \o u
  <1>1. Len(q) \in Nat \ {0} /\ Len(u) \in Nat
    BY EmptySeq, LenProperties
  <1>2. /\ s \in Seq(Token) /\ Len(s) = Len(q) + Len(u)
        /\ \A i \in 1..Len(q) : s[i] = q[i]
        /\ \A i \in 1..Len(u) : s[Len(q) + i] = u[i]
    BY ConcatParts
  <1>3. h \in Seq(Token) /\ Len(h) = Len(q) - 1 /\ \A i \in 1..(Len(q) - 1) : h[i] = q[i + 1]
    BY HeadTailProperties
  <1>4. Head(q) = q[1]
    OBVIOUS
  <1> HIDE DEF h
  <1>5. /\ t \in Seq(Token) /\ Len(t) = Len(h) + Len(u)
        /\ \A i \in 1..Len(h) : t[i] = h[i]
        /\ \A i \in 1..Len(u) : t[Len(h) + i] = u[i]
    BY <1>3, ConcatParts
  <1> HIDE DEF s, t
  <1>6. s # <<>> /\ s[1] = q[1]
    BY <1>1, <1>2, EmptySeq
  <1>7. /\ Tail(s) \in Seq(Token) /\ Len(Tail(s)) = Len(s) - 1
        /\ \A i \in 1..(Len(s) - 1) : Tail(s)[i] = s[i + 1]
    BY <1>2, <1>6, HeadTailProperties
  <1>8. Len(t) = Len(Tail(s))
    BY <1>1, <1>2, <1>3, <1>5, <1>7
  <1>9. \A i \in 1..Len(t) : t[i] = Tail(s)[i]
    <2>1. TAKE i \in 1..Len(t)
    <2>2. i \in 1..(Len(s) - 1)
      BY <1>1, <1>2, <1>3, <1>5
    <2>3. CASE i \in 1..Len(h)
      <3>1. i \in 1..(Len(q) - 1) /\ i + 1 \in 1..Len(q)
        BY <1>1, <1>3, <2>3
      <3>2. t[i] = q[i + 1] /\ s[i + 1] = q[i + 1]
        BY <1>2, <1>3, <1>5, <2>3, <3>1
      <3> QED BY <1>7, <2>2, <3>2
    <2>4. CASE i \notin 1..Len(h)
      <3>1. /\ i - Len(h) \in 1..Len(u) /\ Len(h) + (i - Len(h)) = i
            /\ Len(q) + (i - Len(h)) = i + 1
        BY <1>1, <1>3, <1>5, <2>4
      <3>2. t[i] = u[i - Len(h)] /\ s[i + 1] = u[i - Len(h)]
        BY <1>2, <1>5, <3>1
      <3> QED BY <1>7, <2>2, <3>2
    <2> QED BY <2>3, <2>4
  <1>10. t = Tail(s)
    BY <1>5, <1>7, <1>8, <1>9, SeqEqual
  <1>11. RcvsAre(s, a, b)
    BY DEF s
  <1>12. IF IsRcv(s[1]) THEN s[1].val = a /\ a <= b /\ RcvsAre(t, a + 1, b)
                        ELSE RcvsAre(t, a, b)
    BY <1>2, <1>6, <1>10, <1>11, RcvsPop
  <1> QED BY <1>4, <1>6, <1>12 DEF t, h

\* The module sends one more line.
LEMMA QueueAndLine ==
  ASSUME NEW q \in Seq(Token), NEW u \in Seq(Token),
         NEW a \in Int, NEW b \in Int, RcvsAre(q \o u, a, b),
         NEW key \in BodyKeys, NEW val \in Vals
  PROVE  /\ key # "+RCV" => RcvsAre(q \o (u \o LineOf(key, val)), a, b)
         /\ key = "+RCV" /\ val = b + 1 /\ a <= b + 1
              => RcvsAre(q \o (u \o LineOf(key, val)), a, b + 1)
PROOF
  <1>1. LineOf(key, val) \in Seq(Token) /\ q \o u \in Seq(Token)
    BY LineOfType, ConcatParts
  <1>2. (q \o u) \o LineOf(key, val) = q \o (u \o LineOf(key, val))
    BY <1>1, TokensAssociate
  <1> QED BY <1>1, <1>2, RcvsAndLine

-----------------------------------------------------------------------------
(* What the steps of a host do to the stream                               *)

\* A first line may be taken off before or after more is put behind it.
LEMMA WithoutLineConcat ==
  ASSUME NEW s \in Seq(Token), NEW t \in Seq(Token), Len(s) >= 3
  PROVE  WithoutLine(s) \o t = WithoutLine(s \o t)
PROOF
  <1> DEFINE w == WithoutLine(s)
             c == s \o t
             a == w \o t
             b == WithoutLine(c)
  <1>1. Len(s) \in Nat /\ Len(t) \in Nat
    BY LenProperties
  <1>2. w \in Seq(Token) /\ Len(w) = Len(s) - 3 /\ \A i \in 1..(Len(s) - 3) : w[i] = s[i + 3]
    BY WithoutLineParts
  <1>3. /\ c \in Seq(Token) /\ Len(c) = Len(s) + Len(t)
        /\ \A i \in 1..Len(s) : c[i] = s[i]
        /\ \A i \in 1..Len(t) : c[Len(s) + i] = t[i]
    BY ConcatParts
  <1> HIDE DEF w, c
  <1>4. /\ a \in Seq(Token) /\ Len(a) = Len(w) + Len(t)
        /\ \A i \in 1..Len(w) : a[i] = w[i]
        /\ \A i \in 1..Len(t) : a[Len(w) + i] = t[i]
    BY <1>2, ConcatParts
  <1>5. b \in Seq(Token) /\ Len(b) = Len(c) - 3 /\ \A i \in 1..(Len(c) - 3) : b[i] = c[i + 3]
    <2>1. c \in Seq(Token) /\ Len(c) >= 3
      BY <1>1, <1>3
    <2> QED BY <2>1, WithoutLineParts
  <1> HIDE DEF a, b
  <1>6. Len(a) = Len(b)
    BY <1>1, <1>2, <1>3, <1>4, <1>5
  <1>7. \A i \in 1..Len(a) : a[i] = b[i]
    <2>1. TAKE i \in 1..Len(a)
    <2>2. b[i] = c[i + 3]
      BY <1>1, <1>2, <1>3, <1>4, <1>5
    <2>3. CASE i \in 1..Len(w)
      <3>1. a[i] = s[i + 3] /\ i + 3 \in 1..Len(s)
        BY <1>1, <1>2, <1>4, <2>3
      <3> QED BY <1>3, <2>2, <3>1
    <2>4. CASE i \notin 1..Len(w)
      <3>1. /\ i - Len(w) \in 1..Len(t) /\ Len(w) + (i - Len(w)) = i
            /\ Len(s) + (i - Len(w)) = i + 3
        BY <1>1, <1>2, <1>4, <2>4
      <3> QED BY <1>3, <1>4, <2>2, <3>1
    <2> QED BY <2>3, <2>4
  <1>8. a = b
    BY <1>4, <1>5, <1>6, <1>7, SeqEqual
  <1> QED BY <1>8 DEF a, b, c, w

\* The line poll() finds in rx is the first of the stream, and to drain it is to
\* take it off.
LEMMA LineAtHead ==
  ASSUME rx \in Seq(Token), from_radio \in Seq(Token), Framed(Unread),
         NEW r \in 1..Len(rx), LineEnd(rx, r)
  PROVE  /\ r = 2 /\ Unread # <<>> /\ LineTo(rx, r) = <<Unread[1]>>
         /\ Drained(rx, r) \o from_radio = WithoutLine(Unread)
PROOF
  <1>1. /\ Unread \in Seq(Token) /\ Len(Unread) = Len(rx) + Len(from_radio)
        /\ \A i \in 1..Len(rx) : Unread[i] = rx[i]
    BY ConcatParts DEF Unread
  <1>2. Len(rx) \in Nat /\ Len(from_radio) \in Nat
    BY LenProperties
  <1>3. r + 1 <= Len(rx) /\ IsCR(rx[r]) /\ \A i \in 1..(r - 1) : ~IsCR(rx[i])
    BY <1>2 DEF LineEnd
  <1>4. Unread # <<>>
    BY <1>1, <1>2, EmptySeq
  <1>5. Len(Unread) >= 3 /\ ~IsCR(Unread[1]) /\ IsCR(Unread[2])
    BY <1>1, <1>4, FramedHead, KeysDiffer
  <1>6. r # 1
    BY <1>1, <1>3, <1>5
  <1>7. ~(r > 2)
    <2>1. SUFFICES ASSUME r > 2 PROVE FALSE
      OBVIOUS
    <2>2. 2 \in 1..(r - 1) /\ 2 \in 1..Len(rx)
      BY <1>2, <2>1
    <2> QED BY <1>1, <1>3, <1>5, <2>2
  <1>8. r = 2 /\ Len(rx) >= 3
    BY <1>2, <1>3, <1>6, <1>7
  <1>9. LineTo(rx, r) = <<Unread[1]>>
    <2> DEFINE l == SubSeq(rx, 1, 1)
    <2>1. l \in Seq(Token) /\ Len(l) = 1 /\ l[1] = rx[1]
      BY <1>8, PartOfSeq
    <2>2. rx[1] \in Token
      BY <1>8, ElementOfSeq
    <2>3. <<rx[1]>> \in Seq(Token) /\ Len(<<rx[1]>>) = 1 /\ <<rx[1]>>[1] = rx[1]
      BY <2>2
    <2> HIDE DEF l
    <2>4. l = <<rx[1]>>
      BY <2>1, <2>3, SeqEqual
    <2>5. LineTo(rx, r) = l
      BY <1>8 DEF LineTo, l
    <2> QED BY <1>1, <1>8, <2>4, <2>5
  <1>10. Drained(rx, r) \o from_radio = WithoutLine(Unread)
    <2>1. Drained(rx, r) = WithoutLine(rx)
      BY <1>8 DEF Drained, WithoutLine
    <2> QED BY <1>8, <2>1, WithoutLineConcat DEF Unread
  <1> QED BY <1>4, <1>8, <1>9, <1>10

\* A read moves tokens from the port to rx.
LEMMA ReadKeepsUnread ==
  ASSUME TypeOK, from_radio \in Seq(Token), NEW n \in Nat \ {0}, n <= Len(from_radio),
         PushRx(SubSeq(from_radio, 1, n)),
         from_radio' = SubSeq(from_radio, n + 1, Len(from_radio))
  PROVE  /\ SubSeq(from_radio, 1, n) \in Seq(Token) /\ from_radio' \in Seq(Token)
         /\ ret'.tag # "RxOverflow" => Unread' = Unread
PROOF
  <1> DEFINE head == SubSeq(from_radio, 1, n)
             rest == SubSeq(from_radio, n + 1, Len(from_radio))
  <1>1. rx \in Seq(Token) /\ Len(from_radio) \in Nat
    BY LenProperties DEF TypeOK
  <1>2. head \in Seq(Token) /\ rest \in Seq(Token)
    BY <1>1, PartOfSeq
  <1>3. head \o rest = from_radio
    <2>1. /\ 1 \in 1..(Len(from_radio) + 1) /\ n \in (1 - 1)..Len(from_radio)
          /\ Len(from_radio) \in n..Len(from_radio)
      BY <1>1
    <2>2. head \o rest = SubSeq(from_radio, 1, Len(from_radio))
      BY <2>1, ConcatAdjacentSubSeq
    <2> QED BY <2>2, SubSeqFull
  <1>4. ASSUME ret'.tag # "RxOverflow" PROVE Unread' = Unread
    <2>1. ret' # Ret("RxOverflow")
      BY <1>4 DEF Ret
    <2>2. rx' = rx \o head
      BY <2>1 DEF PushRx
    <2>3. Unread' = (rx \o head) \o rest
      BY <2>2 DEF Unread
    <2> HIDE DEF head, rest
    <2>4. (rx \o head) \o rest = rx \o (head \o rest)
      BY <1>1, <1>2, TokensAssociate
    <2> QED BY <1>3, <2>3, <2>4 DEF Unread
  <1> QED BY <1>2, <1>4

\* What poll() does when it looks at rx: nothing, or it takes the first line off
\* the stream and returns it, if it is an event or frees the slot.
LEMMA PollTakesLine ==
  ASSUME TypeOK, from_radio \in Seq(Token), Framed(Unread), PollRx, from_radio' = from_radio
  PROVE  \/ /\ UNCHANGED <<rx, state, awaiting_ready_as_ok>>
            /\ ret' \in {Ret("Idle"), Ret("Panic")}
         \/ /\ Unread # <<>> /\ Unread' = WithoutLine(Unread)
            /\ \/ /\ awaiting_ready_as_ok /\ Unread[1].key = "+RESET"
                  /\ ret' = Ret("Repoll") /\ UNCHANGED <<state, awaiting_ready_as_ok>>
               \/ /\ awaiting_ready_as_ok /\ Unread[1].key = "+READY"
                  /\ ret' = RetLine("Response", <<Unread[1]>>)
                  /\ state' = Idle /\ awaiting_ready_as_ok' = FALSE
               \/ /\ Unread[1].key \in EventKeys
                  /\ ~(awaiting_ready_as_ok /\ Unread[1].key = "+READY")
                  /\ ret' = RetLine("Event", <<Unread[1]>>)
                  /\ UNCHANGED <<state, awaiting_ready_as_ok>>
               \/ /\ ~(awaiting_ready_as_ok /\ Unread[1].key = "+RESET")
                  /\ Unread[1].key \notin EventKeys /\ MatchesSlot(<<Unread[1]>>)
                  /\ ret' = IF Unread[1].key \in ResponseKeys
                              THEN RetLine("Response", <<Unread[1]>>) ELSE Ret("Idle")
                  /\ state' = Idle /\ awaiting_ready_as_ok' = FALSE
PROOF
  <1>1. rx \in Seq(Token) /\ Unread \in Seq(Token)
    BY ConcatParts DEF TypeOK, Unread
  <1>2. CASE PollNoLine
    BY <1>2 DEF PollNoLine
  <1>3. ASSUME NEW r \in 1..Len(rx), LineEnd(rx, r),
               \/ PollPanic(r) \/ PollResetEcho(r) \/ PollReadyAsOk(r)
               \/ PollEvent(r) \/ PollResponse(r) \/ PollLeave(r)
        PROVE  \/ /\ UNCHANGED <<rx, state, awaiting_ready_as_ok>>
                  /\ ret' \in {Ret("Idle"), Ret("Panic")}
               \/ /\ Unread # <<>> /\ Unread' = WithoutLine(Unread)
                  /\ \/ /\ awaiting_ready_as_ok /\ Unread[1].key = "+RESET"
                        /\ ret' = Ret("Repoll") /\ UNCHANGED <<state, awaiting_ready_as_ok>>
                     \/ /\ awaiting_ready_as_ok /\ Unread[1].key = "+READY"
                        /\ ret' = RetLine("Response", <<Unread[1]>>)
                        /\ state' = Idle /\ awaiting_ready_as_ok' = FALSE
                     \/ /\ Unread[1].key \in EventKeys
                        /\ ~(awaiting_ready_as_ok /\ Unread[1].key = "+READY")
                        /\ ret' = RetLine("Event", <<Unread[1]>>)
                        /\ UNCHANGED <<state, awaiting_ready_as_ok>>
                     \/ /\ ~(awaiting_ready_as_ok /\ Unread[1].key = "+RESET")
                        /\ Unread[1].key \notin EventKeys /\ MatchesSlot(<<Unread[1]>>)
                        /\ ret' = IF Unread[1].key \in ResponseKeys
                                    THEN RetLine("Response", <<Unread[1]>>) ELSE Ret("Idle")
                        /\ state' = Idle /\ awaiting_ready_as_ok' = FALSE
    <2> DEFINE h == Unread[1]
               line == LineTo(rx, r)
    <2>1. /\ Unread # <<>> /\ line = <<h>>
          /\ Drained(rx, r) \o from_radio = WithoutLine(Unread)
      BY <1>1, <1>3, LineAtHead
    <2>2. rx' = Drained(rx, r) => Unread' = WithoutLine(Unread)
      BY <2>1 DEF Unread
    <2>3. h.key \in BodyKeys /\ h.ok
      BY <1>1, <2>1, FramedHead
    <2> HIDE DEF h, line
    <2>4. line # <<>> /\ Len(line) = 1 /\ line[1] = h
      BY <2>1
    <2>5. \A key : StartsWith(line, key) <=> h.key = key
      BY <2>4 DEF StartsWith
    <2>6. \A key : Exactly(line, key) <=> h.key = key
      BY <2>3, <2>4 DEF Exactly
    <2>7. IsEventLine(line) <=> h.key \in EventKeys
      BY <2>5 DEF IsEventLine, EventKeys
    <2>8. IsResetEcho(line) <=> awaiting_ready_as_ok /\ h.key = "+RESET"
      BY <2>5 DEF IsResetEcho
    <2>9. ParsesAsEvent(line) <=> h.key \in EventKeys
      BY <2>3, <2>4 DEF ParsesAsEvent
    <2>10. ParsesAsResponse(line) <=> h.key \in ResponseKeys
      BY <2>3, <2>4 DEF ParsesAsResponse
    <2>11. CASE PollPanic(r) \/ PollLeave(r)
      BY <2>11 DEF PollPanic, PollLeave
    <2>12. CASE PollResetEcho(r)
      BY <2>1, <2>2, <2>8, <2>12 DEF PollResetEcho, h, line
    <2>13. CASE PollReadyAsOk(r)
      BY <2>1, <2>2, <2>6, <2>13 DEF PollReadyAsOk, h, line
    <2>14. CASE PollEvent(r)
      BY <2>1, <2>2, <2>6, <2>7, <2>9, <2>14 DEF PollEvent, h, line
    <2>15. CASE PollResponse(r)
      BY <2>1, <2>2, <2>7, <2>8, <2>10, <2>15 DEF PollResponse, h, line
    <2> QED BY <1>3, <2>11, <2>12, <2>13, <2>14, <2>15
  <1> QED BY <1>2, <1>3 DEF PollRx

-----------------------------------------------------------------------------
(* What the module does to the stream                                      *)

\* The key of the answer that carries what was asked for.
ValueKey(cmd) == IF cmd.op \in Queries THEN QueryPrefix[QueryOf[cmd.op]] ELSE "+OK"

\* It is the key of a response, and of those the only one for this kind of command.
LEMMA ValueKeyType ==
  ASSUME NEW cmd \in Commands
  PROVE  /\ ValueKey(cmd) \in ResponseKeys /\ ValueKey(cmd) # "+ERR="
         /\ cmd.op \in Queries =>
              /\ KindOf(cmd) \in QueryKey /\ KindOf(cmd) # "Ack"
              /\ ValueKey(cmd) = QueryPrefix[KindOf(cmd)]
         /\ cmd.op \notin Queries => KindOf(cmd) = "Ack" /\ ValueKey(cmd) = "+OK"
PROOF
  <1>1. CASE cmd.op \in Queries
    <2>1. QueryOf[cmd.op] \in QueryKey
      BY <1>1 DEF Queries, QueryOf, QueryKey, QueryPrefix
    <2>2. \A k \in QueryKey : /\ QueryPrefix[k] \in ResponseKeys /\ QueryPrefix[k] # "+ERR="
                              /\ k # "Ack"
      BY DEF QueryKey, QueryPrefix, ResponseKeys
    <2> QED BY <1>1, <2>1, <2>2 DEF ValueKey, KindOf
  <1>2. CASE cmd.op \notin Queries
    BY <1>2 DEF ValueKey, KindOf, ResponseKeys
  <1> QED BY <1>1, <1>2

\* The argument of a command is something a line can carry.
LEMMA CommandArg ==
  ASSUME NEW cmd \in Commands
  PROVE  cmd.arg \in Vals
PROOF BY CommandAssumption DEF Command

\* The module's variables keep their types; either nothing is sent, or a line:
\* the next +RCV, or a line of another kind.
LEMMA RadioSays ==
  ASSUME RadioTypeOK, RadioNext
  PROVE  /\ RadioTypeOK'
         /\ \/ from_radio' = from_radio /\ rcv_sent' = rcv_sent
            \/ \E key \in BodyKeys \ {"+RCV"}, val \in Vals :
                 Says(LineOf(key, val)) /\ rcv_sent' = rcv_sent
            \/ /\ rcv_sent + 1 \in Vals /\ Says(LineOf("+RCV", rcv_sent + 1))
               /\ rcv_sent' = rcv_sent + 1
PROOF
  <1> DEFINE Said == \E key \in BodyKeys \ {"+RCV"}, val \in Vals :
                       Says(LineOf(key, val)) /\ rcv_sent' = rcv_sent
  <1>1. /\ to_radio \in Seq(Commands) /\ from_radio \in Seq(Token)
        /\ rcv_sent \in 0..MaxRcv /\ lost \in 0..MaxLost
        /\ booting \in Commands \cup {NotBooting}
        /\ MaxRcv \in Nat /\ MaxLost \in Nat /\ 0..MaxRcv \subseteq Vals
    BY RadioAssumption DEF RadioTypeOK
  <1>2. \A key \in BodyKeys, val \in Vals :
          Says(LineOf(key, val)) => from_radio' \in Seq(Token)
    <2>1. TAKE key \in BodyKeys, val \in Vals
    <2>2. from_radio \o LineOf(key, val) \in Seq(Token)
      BY <1>1, AndLineParts
    <2> QED BY <2>2 DEF Says
  <1>3. ASSUME NEW n \in 1..Len(to_radio), CommandAtHead(n)
        PROVE  to_radio[1] \in Commands /\ SubSeq(to_radio, n + 1, Len(to_radio)) \in Seq(Commands)
    <2>1. Len(to_radio) \in Nat /\ 1 \in 1..Len(to_radio)
      BY <1>1, <1>3, LenProperties
    <2> QED BY <1>1, <2>1, ElementOfSeq, PartOfSeq
  <1>4. ASSUME NEW n \in 1..Len(to_radio), RadioAnswers(n)
        PROVE  RadioTypeOK' /\ Said
    <2> DEFINE cmd == to_radio[1]
    <2>1. CommandAtHead(n) /\ ExecutedUpTo(n) /\ UNCHANGED <<rcv_sent, lost>>
      BY <1>4 DEF RadioAnswers
    <2>2. cmd \in Commands /\ to_radio' \in Seq(Commands)
      BY <1>3, <2>1 DEF ExecutedUpTo
    <2>3. /\ booting' \in Commands \cup {NotBooting}
          /\ \E key \in {"+RESET", ValueKey(cmd), "+ERR="} : Says(LineOf(key, cmd.arg))
      BY <1>1, <1>4, <2>2 DEF RadioAnswers, ValueKey
    <2>4. ValueKey(cmd) \in ResponseKeys /\ cmd.arg \in Vals
      BY <2>2, ValueKeyType, CommandArg
    <2>5. PICK key \in {"+RESET", ValueKey(cmd), "+ERR="} : Says(LineOf(key, cmd.arg))
      BY <2>3
    <2>6. key \in BodyKeys \ {"+RCV"}
      BY <2>4 DEF BodyKeys, ResponseKeys
    <2>7. from_radio' \in Seq(Token)
      BY <1>2, <2>4, <2>5, <2>6
    <2> HIDE DEF cmd
    <2> QED BY <1>1, <2>1, <2>2, <2>3, <2>4, <2>5, <2>6, <2>7 DEF RadioTypeOK
  <1>5. ASSUME RadioRestarts PROVE RadioTypeOK' /\ Said
    <2>1. booting \in Commands
      BY <1>1, <1>5 DEF RadioRestarts
    <2>2. booting.arg \in Vals /\ "+READY" \in BodyKeys \ {"+RCV"}
      BY <2>1, CommandArg DEF BodyKeys, EventKeys
    <2>3. Says(LineOf("+READY", booting.arg)) /\ UNCHANGED <<to_radio, rcv_sent, lost>>
          /\ booting' = NotBooting
      BY <1>5 DEF RadioRestarts
    <2> QED BY <1>1, <1>2, <2>2, <2>3 DEF RadioTypeOK
  <1>6. ASSUME NEW n \in 1..Len(to_radio), RadioSkipsAnswer(n)
        PROVE  RadioTypeOK' /\ from_radio' = from_radio /\ rcv_sent' = rcv_sent
    <2>1. to_radio' \in Seq(Commands)
      BY <1>3, <1>6 DEF RadioSkipsAnswer, ExecutedUpTo
    <2> QED BY <1>1, <1>6, <2>1 DEF RadioSkipsAnswer, RadioTypeOK
  <1>7. ASSUME RadioReceives
        PROVE  /\ RadioTypeOK' /\ rcv_sent + 1 \in Vals /\ rcv_sent' = rcv_sent + 1
               /\ Says(LineOf("+RCV", rcv_sent + 1))
    <2>1. rcv_sent' = rcv_sent + 1 /\ rcv_sent + 1 \in 0..MaxRcv
          /\ Says(LineOf("+RCV", rcv_sent + 1)) /\ UNCHANGED <<to_radio, lost, booting>>
      BY <1>1, <1>7 DEF RadioReceives
    <2>2. rcv_sent + 1 \in Vals /\ "+RCV" \in BodyKeys
      BY <1>1, <2>1 DEF BodyKeys, EventKeys
    <2> QED BY <1>1, <1>2, <2>1, <2>2 DEF RadioTypeOK
  <1> QED BY <1>4, <1>5, <1>6, <1>7 DEF RadioNext, RadioReplies

\* What the port and the driver hold is a stream of lines in every state.
LinesInv == IndInv /\ RadioTypeOK /\ Framed(Unread)

\* In the beginning it is empty, or the line of a module that just came up.
LEMMA LinesInit == Init /\ RadioInit => LinesInv
PROOF
  <1>1. SUFFICES ASSUME Init, RadioInit PROVE LinesInv
    OBVIOUS
  <1>2. IndInv
    BY <1>1, InitInd
  <1>3. /\ to_radio \in Seq(Commands) /\ booting \in Commands \cup {NotBooting}
        /\ rcv_sent \in 0..MaxRcv /\ lost \in 0..MaxLost
    <2>1. to_radio = <<>> /\ booting = NotBooting /\ rcv_sent = 0 /\ lost = 0
      BY <1>1 DEF RadioInit
    <2> QED BY <2>1, EmptySeq, RadioAssumption
  <1>4. "+READY" \in BodyKeys /\ 0 \in Vals /\ <<>> \in Seq(Token) /\ Framed(<<>>)
    <2>1. Framed(<<>>)
      <3>1. /\ 0 \in Nat /\ Len(<<>>) = 3 * 0 /\ 0..(0 - 1) = {}
        BY EmptySeq
      <3> QED BY <3>1 DEF Framed
    <2> QED BY <2>1, EmptySeq, RadioAssumption DEF BodyKeys, EventKeys
  <1>5. from_radio \in Seq(Token) /\ Framed(from_radio)
    <2>1. CASE from_radio = <<>>
      BY <1>4, <2>1
    <2>2. CASE from_radio = LineOf("+READY", 0)
      <3>1. LineOf("+READY", 0) \in Seq(Token) /\ Framed(<<>> \o LineOf("+READY", 0))
        BY <1>4, LineOfType, FramedAndLine
      <3>2. <<>> \o LineOf("+READY", 0) = LineOf("+READY", 0)
        BY <3>1, ConcatEmptySeq
      <3> QED BY <2>2, <3>1, <3>2
    <2> QED BY <1>1, <2>1, <2>2 DEF RadioInit
  <1>6. Unread = from_radio
    <2>1. rx = <<>>
      BY <1>1 DEF Init
    <2> QED BY <1>5, <2>1, ConcatEmptySeq DEF Unread
  <1> QED BY <1>2, <1>3, <1>5, <1>6 DEF LinesInv, RadioTypeOK

-----------------------------------------------------------------------------
(* The steps of a host, as the driver and the serial line see them         *)

Submits(cmd) == Submit(cmd) /\ UNCHANGED radioVars

Polls == Poll /\ UNCHANGED radioVars

Reads ==
  /\ \E n \in Nat \ {0} :
       /\ n <= Len(from_radio)
       /\ PushRx(SubSeq(from_radio, 1, n))
       /\ from_radio' = SubSeq(from_radio, n + 1, Len(from_radio))
  /\ UNCHANGED <<to_radio, rcv_sent, lost, booting>>

Writes ==
  /\ to_radio' = to_radio \o ret.bytes
  /\ AckTx(Len(ret.bytes))
  /\ UNCHANGED <<from_radio, rcv_sent, lost, booting>>

WritesPart ==
  /\ \E n \in 0..(Len(ret.bytes) - 1) : to_radio' = to_radio \o SubSeq(ret.bytes, 1, n)
  /\ UNCHANGED <<vars, from_radio, rcv_sent, lost, booting>>

WritesAll ==
  /\ to_radio' = to_radio \o ret.bytes
  /\ UNCHANGED <<vars, from_radio, rcv_sent, lost, booting>>

Hears == RadioNext /\ UNCHANGED vars

Rests == UNCHANGED <<vars, radioVars>>

\* All but poll(), which may hand out an event.
OtherSteps ==
  \/ \E cmd \in Commands : Submits(cmd)
  \/ Reads \/ Writes \/ WritesPart \/ WritesAll \/ Hears \/ Rests

\* The types are kept by each of them.
LEMMA StepTypes ==
  ASSUME IndInv, RadioTypeOK, Polls \/ OtherSteps
  PROVE  IndInv' /\ RadioTypeOK'
PROOF
  <1>1. /\ ret.bytes \in Seq(Commands) /\ Len(ret.bytes) \in Nat
        /\ to_radio \in Seq(Commands) /\ from_radio \in Seq(Token)
    <2>1. ret.bytes \in Seq(Commands)
      BY DEF IndInv, TypeOK
    <2> QED BY <2>1, LenProperties DEF RadioTypeOK
  <1>2. ASSUME UNCHANGED radioVars PROVE RadioTypeOK'
    BY <1>2 DEF radioVars, RadioTypeOK
  <1>3. CASE Polls
    BY <1>2, <1>3, CallInd DEF Polls
  <1>4. ASSUME NEW cmd \in Commands, Submits(cmd) PROVE IndInv' /\ RadioTypeOK'
    BY <1>2, <1>4, CallInd DEF Submits
  <1>5. CASE Reads
    <2>1. PICK n \in Nat \ {0} :
            /\ n <= Len(from_radio)
            /\ PushRx(SubSeq(from_radio, 1, n))
            /\ from_radio' = SubSeq(from_radio, n + 1, Len(from_radio))
      BY <1>5 DEF Reads
    <2>2. SubSeq(from_radio, 1, n) \in Seq(Token) /\ from_radio' \in Seq(Token)
      BY <1>1, <2>1, ReadKeepsUnread DEF IndInv
    <2>3. RadioTypeOK'
      BY <1>5, <2>2 DEF Reads, RadioTypeOK
    <2> QED BY <2>1, <2>2, <2>3, CallInd
  <1>6. CASE Writes
    <2>1. to_radio \o ret.bytes \in Seq(Commands)
      BY <1>1, ConcatProperties
    <2>2. RadioTypeOK'
      BY <1>6, <2>1 DEF Writes, RadioTypeOK
    <2> QED BY <1>1, <1>6, <2>2, CallInd DEF Writes
  <1>7. CASE WritesPart
    <2>1. PICK n \in 0..(Len(ret.bytes) - 1) : to_radio' = to_radio \o SubSeq(ret.bytes, 1, n)
      BY <1>7 DEF WritesPart
    <2>2. n \in Nat /\ n <= Len(ret.bytes)
      BY <1>1, <2>1
    <2>3. SubSeq(ret.bytes, 1, n) \in Seq(Commands)
      BY <1>1, <2>2, PartOfSeq
    <2>4. to_radio' \in Seq(Commands)
      BY <1>1, <2>1, <2>3, ConcatProperties
    <2> QED BY <1>7, <2>4, CallInd DEF WritesPart, RadioTypeOK
  <1>8. CASE Hears
    BY <1>8, RadioSays, CallInd DEF Hears
  <1>9. CASE Rests
    <2>1. UNCHANGED vars /\ UNCHANGED radioVars
      BY <1>9 DEF Rests
    <2> QED BY <1>2, <2>1, CallInd
  <1>10. CASE WritesAll
    <2>1. to_radio' \in Seq(Commands)
      BY <1>1, <1>10, ConcatProperties DEF WritesAll
    <2> QED BY <1>10, <2>1, CallInd DEF WritesAll, RadioTypeOK
  <1> QED BY <1>3, <1>4, <1>5, <1>6, <1>7, <1>8, <1>9, <1>10 DEF OtherSteps

\* What is handed out as an event or a response is a line, of one token or more.
LEMMA PollHandsOutLine ==
  ASSUME TypeOK, Poll, ret'.tag \in {"Event", "Response"}
  PROVE  ret'.line # <<>> /\ ret'.line[1] \in Token
PROOF
  <1>1. CASE PollNeedTx
    BY <1>1 DEF PollNeedTx, RetBytes
  <1>2. CASE PollRx
    <2>1. ret'.line \in Seq(Token)
      BY <1>2, PollRxRetType
    <2>2. ret'.line # <<>>
      <3>1. CASE PollNoLine
        BY <3>1 DEF PollNoLine, Ret
      <3>2. ASSUME NEW r \in 1..Len(rx), LineEnd(rx, r),
                   \/ PollPanic(r) \/ PollResetEcho(r) \/ PollReadyAsOk(r)
                   \/ PollEvent(r) \/ PollResponse(r) \/ PollLeave(r)
            PROVE  ret'.line # <<>>
        <4> DEFINE line == LineTo(rx, r)
        <4>1. line \in Seq(Token)
          BY <3>2, LineParts DEF TypeOK
        <4>2. Len(line) = 1 => line # <<>>
          BY EmptySeq
        <4> HIDE DEF line
        <4>3. CASE PollPanic(r) \/ PollResetEcho(r) \/ PollLeave(r)
          BY <4>3 DEF PollPanic, PollResetEcho, PollLeave, Ret
        <4>4. CASE PollReadyAsOk(r)
          BY <4>2, <4>4 DEF PollReadyAsOk, Exactly, RetLine, line
        <4>5. CASE PollEvent(r)
          BY <4>2, <4>5 DEF PollEvent, ParsesAsEvent, Ret, RetLine, line
        <4>6. CASE PollResponse(r)
          BY <4>2, <4>6 DEF PollResponse, ParsesAsResponse, Ret, RetLine, line
        <4> QED BY <3>2, <4>3, <4>4, <4>5, <4>6
      <3> QED BY <1>2, <3>1, <3>2 DEF PollRx
    <2>3. Len(ret'.line) \in Nat \ {0}
      BY <2>1, <2>2, EmptySeq
    <2> QED BY <2>1, <2>2, <2>3, ElementOfSeq
  <1> QED BY <1>1, <1>2 DEF Poll

\* poll() leaves the stream alone or takes its first line off.
LEMMA PollUnread ==
  ASSUME LinesInv, Polls
  PROVE  /\ rcv_sent' = rcv_sent
         /\ \/ Unread' = Unread /\ ret'.tag # "Event"
            \/ /\ Unread # <<>> /\ Unread' = WithoutLine(Unread)
               /\ \/ Unread[1].key \in EventKeys /\ ret' = RetLine("Event", <<Unread[1]>>)
                  \/ ~IsRcv(Unread[1]) /\ ret'.tag # "Event"
PROOF
  <1>1. from_radio \in Seq(Token) /\ TypeOK /\ Framed(Unread)
    BY DEF LinesInv, IndInv, RadioTypeOK
  <1>2. from_radio' = from_radio /\ rcv_sent' = rcv_sent /\ Poll
    BY DEF Polls, radioVars
  <1>3. CASE PollNeedTx
    BY <1>2, <1>3 DEF PollNeedTx, RetBytes, Unread
  <1>4. CASE PollRx
    <2>1. CASE rx' = rx /\ ret' \in {Ret("Idle"), Ret("Panic")}
      BY <1>2, <2>1 DEF Unread, Ret
    <2>2. CASE /\ Unread # <<>> /\ Unread' = WithoutLine(Unread)
               /\ Unread[1].key \in EventKeys /\ ret' = RetLine("Event", <<Unread[1]>>)
      BY <1>2, <2>2
    <2>3. CASE /\ Unread # <<>> /\ Unread' = WithoutLine(Unread)
               /\ Unread[1].key = "+RESET" /\ ret' = Ret("Repoll")
      BY <1>2, <2>3 DEF IsRcv, Ret
    <2>4. CASE /\ Unread # <<>> /\ Unread' = WithoutLine(Unread)
               /\ Unread[1].key = "+READY" /\ ret' = RetLine("Response", <<Unread[1]>>)
      BY <1>2, <2>4 DEF IsRcv, RetLine
    <2>5. CASE /\ Unread # <<>> /\ Unread' = WithoutLine(Unread)
               /\ Unread[1].key \notin EventKeys
               /\ ret' \in {RetLine("Response", <<Unread[1]>>), Ret("Idle")}
      BY <1>2, <2>5 DEF IsRcv, EventKeys, Ret, RetLine
    <2> QED BY <1>1, <1>2, <1>4, <2>1, <2>2, <2>3, <2>4, <2>5, PollTakesLine
  <1> QED BY <1>2, <1>3, <1>4 DEF Poll

\* Any other step leaves it alone or lengthens it by a line.
LEMMA OtherUnread ==
  ASSUME LinesInv, OtherSteps, ret'.tag # "RxOverflow"
  PROVE  \/ Unread' = Unread /\ rcv_sent' = rcv_sent
         \/ \E key \in BodyKeys \ {"+RCV"}, val \in Vals :
              Unread' = Unread \o LineOf(key, val) /\ rcv_sent' = rcv_sent
         \/ /\ rcv_sent + 1 \in Vals /\ rcv_sent' = rcv_sent + 1
            /\ Unread' = Unread \o LineOf("+RCV", rcv_sent + 1)
PROOF
  <1>1. rx \in Seq(Token) /\ from_radio \in Seq(Token) /\ TypeOK /\ Framed(Unread)
    BY DEF LinesInv, IndInv, TypeOK, RadioTypeOK
  <1>3. ASSUME NEW cmd \in Commands, Submits(cmd)
        PROVE  Unread' = Unread /\ rcv_sent' = rcv_sent
    BY <1>3 DEF Submits, Submit, SubmitBusy, SubmitTxOverflow, SubmitAccepted, radioVars, Unread
  <1>4. CASE Reads
    <2>1. PICK n \in Nat \ {0} :
            /\ n <= Len(from_radio)
            /\ PushRx(SubSeq(from_radio, 1, n))
            /\ from_radio' = SubSeq(from_radio, n + 1, Len(from_radio))
      BY <1>4 DEF Reads
    <2>2. Unread' = Unread
      BY <1>1, <2>1, ReadKeepsUnread
    <2> QED BY <1>4, <2>2 DEF Reads
  <1>5. CASE Writes
    BY <1>5 DEF Writes, AckTx, Unread
  <1>6. CASE WritesPart \/ WritesAll
    BY <1>6 DEF WritesPart, WritesAll, vars, Unread
  <1>7. CASE Hears
    <2>1. \A key \in BodyKeys, val \in Vals :
            Says(LineOf(key, val)) => Unread' = Unread \o LineOf(key, val)
      <3>1. TAKE key \in BodyKeys, val \in Vals
      <3>2. HAVE Says(LineOf(key, val))
      <3>3. LineOf(key, val) \in Seq(Token)
        BY LineOfType
      <3>4. (rx \o from_radio) \o LineOf(key, val) = rx \o (from_radio \o LineOf(key, val))
        BY <1>1, <3>3, TokensAssociate
      <3>5. rx' = rx /\ from_radio' = from_radio \o LineOf(key, val)
        BY <1>7, <3>2 DEF Hears, vars, Says
      <3> QED BY <3>4, <3>5 DEF Unread
    <2>2. \/ from_radio' = from_radio /\ rcv_sent' = rcv_sent
          \/ \E key \in BodyKeys \ {"+RCV"}, val \in Vals :
               Says(LineOf(key, val)) /\ rcv_sent' = rcv_sent
          \/ /\ rcv_sent + 1 \in Vals /\ Says(LineOf("+RCV", rcv_sent + 1))
             /\ rcv_sent' = rcv_sent + 1
      BY <1>7, RadioSays DEF LinesInv, Hears
    <2>3. rx' = rx /\ "+RCV" \in BodyKeys
      BY <1>7 DEF Hears, vars, BodyKeys, EventKeys
    <2> QED BY <1>7, <2>1, <2>2, <2>3 DEF Unread
  <1>8. CASE Rests
    BY <1>8 DEF Rests, vars, radioVars, Unread
  <1> QED BY <1>3, <1>4, <1>5, <1>6, <1>7, <1>8 DEF OtherSteps

\* The stream of lines stays one, as long as rx does not overflow.
LEMMA StepLines ==
  ASSUME LinesInv, Polls \/ OtherSteps, ret'.tag # "RxOverflow"
  PROVE  LinesInv'
PROOF
  <1>1. IndInv' /\ RadioTypeOK'
    BY StepTypes DEF LinesInv
  <1>2. Unread \in Seq(Token) /\ Framed(Unread)
    BY ConcatParts DEF LinesInv, IndInv, TypeOK, RadioTypeOK, Unread
  <1>3. "+RCV" \in BodyKeys
    BY DEF BodyKeys, EventKeys
  <1>4. Framed(Unread')
    <2>1. ASSUME NEW key \in BodyKeys, NEW val \in Vals, Unread' = Unread \o LineOf(key, val)
          PROVE  Framed(Unread')
      BY <1>2, <2>1, FramedAndLine
    <2>2. ASSUME Unread # <<>>, Unread' = WithoutLine(Unread)
          PROVE  Framed(Unread')
      BY <1>2, <2>2, FramedHead, FramedWithoutLine
    <2>3. CASE Polls
      BY <1>2, <2>2, <2>3, PollUnread
    <2>4. CASE OtherSteps
      BY <1>2, <1>3, <2>1, <2>4, OtherUnread
    <2> QED BY <2>3, <2>4
  <1>5. Framed(Unread)'
    BY <1>4 DEF Framed
  <1> QED BY <1>1, <1>5 DEF LinesInv

\* With a queue in front of it, the stream goes on with the +RCV lines numbered
\* from `a` to the last one sent.
LEMMA OthersCarryOn ==
  ASSUME LinesInv, OtherSteps, ret'.tag # "RxOverflow",
         NEW q \in Seq(Token), NEW a \in Nat, a <= rcv_sent + 1,
         RcvsAre(q \o Unread, a, rcv_sent)
  PROVE  a <= rcv_sent' + 1 /\ RcvsAre(q \o Unread', a, rcv_sent')
PROOF
  <1>1. Unread \in Seq(Token) /\ Framed(Unread) /\ rcv_sent \in Int
    BY RadioAssumption, ConcatParts DEF LinesInv, IndInv, TypeOK, RadioTypeOK, Unread
  <1>2. "+RCV" \in BodyKeys
    BY DEF BodyKeys, EventKeys
  <1>3. CASE Unread' = Unread /\ rcv_sent' = rcv_sent
    BY <1>3
  <1>4. ASSUME NEW key \in BodyKeys \ {"+RCV"}, NEW val \in Vals,
               Unread' = Unread \o LineOf(key, val), rcv_sent' = rcv_sent
        PROVE  a <= rcv_sent' + 1 /\ RcvsAre(q \o Unread', a, rcv_sent')
    <2>1. RcvsAre(q \o (Unread \o LineOf(key, val)), a, rcv_sent)
      <3>1. key \in BodyKeys /\ key # "+RCV" /\ a \in Int
        BY <1>4
      <3> QED BY <1>1, <3>1, QueueAndLine
    <2> QED BY <1>4, <2>1
  <1>5. ASSUME rcv_sent + 1 \in Vals, rcv_sent' = rcv_sent + 1,
               Unread' = Unread \o LineOf("+RCV", rcv_sent + 1)
        PROVE  a <= rcv_sent' + 1 /\ RcvsAre(q \o Unread', a, rcv_sent')
    <2>1. RcvsAre(q \o (Unread \o LineOf("+RCV", rcv_sent + 1)), a, rcv_sent + 1)
      <3>1. a \in Int /\ a <= rcv_sent + 1
        OBVIOUS
      <3> QED BY <1>1, <1>2, <1>5, <3>1, QueueAndLine
    <2> QED BY <1>1, <1>5, <2>1
  <1> QED BY <1>3, <1>4, <1>5, OtherUnread

\* So it does when poll() hands out nothing of it; an event goes into the queue.
LEMMA PollCarriesOn ==
  ASSUME LinesInv, Polls,
         NEW q \in Seq(Token), NEW a \in Nat, RcvsAre(q \o Unread, a, rcv_sent)
  PROVE  /\ rcv_sent' = rcv_sent
         /\ ret'.tag # "Event" => RcvsAre(q \o Unread', a, rcv_sent')
         /\ ret'.tag = "Event" =>
              /\ ret'.line[1] \in Token /\ Append(q, ret'.line[1]) \in Seq(Token)
              /\ RcvsAre(Append(q, ret'.line[1]) \o Unread', a, rcv_sent')
PROOF
  <1>1. Unread \in Seq(Token) /\ Framed(Unread) /\ rcv_sent \in Int
    BY RadioAssumption, ConcatParts DEF LinesInv, IndInv, TypeOK, RadioTypeOK, Unread
  <1>2. rcv_sent' = rcv_sent
    BY PollUnread
  <1>3. CASE Unread' = Unread /\ ret'.tag # "Event"
    BY <1>2, <1>3
  <1>4. CASE /\ Unread # <<>> /\ Unread' = WithoutLine(Unread)
             /\ ret' = RetLine("Event", <<Unread[1]>>)
    <2>1. ret'.line[1] = Unread[1] /\ ret'.tag = "Event"
      BY <1>4 DEF RetLine
    <2>2. RcvsAre(Append(q, Unread[1]) \o WithoutLine(Unread), a, rcv_sent)
      BY <1>1, <1>4, QueueTakesHead
    <2>3. Unread[1] \in Token
      BY <1>1, <1>4, LineEndsAreNotRcv
    <2>4. Append(q, Unread[1]) \in Seq(Token)
      BY <2>3, AppendProperties
    <2> QED BY <1>2, <1>4, <2>1, <2>2, <2>3, <2>4
  <1>5. CASE /\ Unread # <<>> /\ Unread' = WithoutLine(Unread)
             /\ ~IsRcv(Unread[1]) /\ ret'.tag # "Event"
    <2>1. RcvsAre(q \o WithoutLine(Unread), a, rcv_sent)
      BY <1>1, <1>5, QueueAndDrained
    <2> QED BY <1>2, <1>5, <2>1
  <1> QED BY <1>3, <1>4, <1>5, PollUnread

\* A module that sent no +RCV yet.
LEMMA NoRcvAtFirst ==
  ASSUME Init, RadioInit
  PROVE  RcvsAre(Unread, 1, 0)
PROOF
  <1>1. rx = <<>> /\ (from_radio = <<>> \/ from_radio = LineOf("+READY", 0))
    BY DEF Init, RadioInit
  <1>2. LinesInv
    BY LinesInit
  <1>3. Unread = from_radio /\ from_radio \in Seq(Token)
    BY <1>1, <1>2, ConcatEmptySeq DEF Unread, LinesInv, RadioTypeOK
  <1>4. RcvsAre(<<>>, 1, 0)
    BY DEF RcvsAre
  <1>5. RcvsAre(<<>> \o LineOf("+READY", 0), 1, 0)
    <2>1. /\ "+READY" \in BodyKeys /\ 0 \in Vals /\ <<>> \in Seq(Token)
          /\ "+READY" # "+RCV" /\ 0 \in Int /\ 1 \in Int
      BY EmptySeq, RadioAssumption DEF BodyKeys, EventKeys
    <2> QED BY <1>4, <2>1, RcvsAndLine
  <1>6. <<>> \o LineOf("+READY", 0) = LineOf("+READY", 0)
    <2>1. "+READY" \in BodyKeys /\ 0 \in Vals
      BY RadioAssumption DEF BodyKeys, EventKeys
    <2>2. LineOf("+READY", 0) \in Seq(Token)
      BY <2>1, LineOfType
    <2> QED BY <2>2, ConcatEmptySeq
  <1> QED BY <1>1, <1>3, <1>4, <1>5, <1>6

\* The next number behind those counted so far.
LEMMA AppendCountsUp ==
  ASSUME NEW numbers \in Seq(Vals), CountsUp(numbers), NEW n \in Vals, n = Len(numbers) + 1
  PROVE  /\ CountsUp(Append(numbers, n)) /\ Append(numbers, n) \in Seq(Vals)
         /\ Len(Append(numbers, n)) = n
PROOF
  <1> DEFINE more == Append(numbers, n)
  <1>1. /\ more \in Seq(Vals) /\ Len(more) = Len(numbers) + 1
        /\ \A i \in 1..Len(numbers) : more[i] = numbers[i]
        /\ more[Len(numbers) + 1] = n
    BY AppendProperties
  <1> HIDE DEF more
  <1>2. DOMAIN more = 1..Len(more) /\ DOMAIN numbers = 1..Len(numbers) /\ Len(numbers) \in Nat
    BY <1>1, LenProperties
  <1>3. \A i \in 1..Len(numbers) : numbers[i] = i
    BY <1>2 DEF CountsUp
  <1>4. \A i \in 1..Len(more) : i \in 1..Len(numbers) \/ i = Len(numbers) + 1
    BY <1>1, <1>2
  <1>5. \A i \in 1..Len(more) : more[i] = i
    BY <1>1, <1>3, <1>4
  <1>6. CountsUp(more)
    BY <1>2, <1>5 DEF CountsUp
  <1> QED BY <1>1, <1>6 DEF more

-----------------------------------------------------------------------------
(* The answers in a stream                                                 *)

\* Everything that is sent for a command.
IsAnswer(tok) == tok.key \notin {"+RCV", "CR", "LF"}

\* The answer after which nothing more is sent for it.
IsFinal(tok) == IsAnswer(tok) /\ tok.key # "+RESET"

NoAnswers(s) == \A i \in DOMAIN s : ~IsAnswer(s[i])
NoFinal(s)   == \A i \in DOMAIN s : ~IsFinal(s[i])

AnswerKeys(cmd) ==
  IF cmd.op = "FactoryReset" THEN {"+RESET", "+READY"} ELSE {ValueKey(cmd), "+ERR="}

\* The answers in the stream are to this command: at most a +RESET, and at most
\* a final one behind it.
AnswersTo(cmd, s) ==
  /\ \A i \in DOMAIN s : IsAnswer(s[i]) => s[i].val = cmd.arg /\ s[i].key \in AnswerKeys(cmd)
  /\ \A i, j \in DOMAIN s :
       i < j /\ IsAnswer(s[i]) /\ IsAnswer(s[j]) => ~IsFinal(s[i]) /\ IsFinal(s[j])

\* The answers of t are answers of s, k places further on there.
AnswersFrom(t, s, k) ==
  \A i \in DOMAIN t : IsAnswer(t[i]) => i + k \in DOMAIN s /\ t[i] = s[i + k]

\* Fewer answers to the same command.
LEMMA AnswersKept ==
  ASSUME NEW s \in Seq(Token), NEW t \in Seq(Token), NEW k \in Nat, AnswersFrom(t, s, k)
  PROVE  /\ NoAnswers(s) => NoAnswers(t)
         /\ NoFinal(s) => NoFinal(t)
         /\ \A cmd : AnswersTo(cmd, s) => AnswersTo(cmd, t)
PROOF
  <1>1. \A i \in DOMAIN t : IsAnswer(t[i]) => i + k \in DOMAIN s /\ t[i] = s[i + k]
    BY DEF AnswersFrom
  <1>2. NoAnswers(s) => NoAnswers(t)
    BY <1>1 DEF NoAnswers
  <1>3. NoFinal(s) => NoFinal(t)
    BY <1>1 DEF NoFinal, IsFinal
  <1>4. ASSUME NEW cmd, AnswersTo(cmd, s) PROVE AnswersTo(cmd, t)
    <2>1. \A i \in DOMAIN t : IsAnswer(t[i]) => t[i].val = cmd.arg /\ t[i].key \in AnswerKeys(cmd)
      BY <1>1, <1>4 DEF AnswersTo
    <2>2. \A i, j \in DOMAIN t :
            i < j /\ IsAnswer(t[i]) /\ IsAnswer(t[j]) => ~IsFinal(t[i]) /\ IsFinal(t[j])
      <3>1. TAKE i, j \in DOMAIN t
      <3>2. HAVE i < j /\ IsAnswer(t[i]) /\ IsAnswer(t[j])
      <3>3. i \in Nat /\ j \in Nat
        <4>1. DOMAIN t = 1..Len(t) /\ Len(t) \in Nat
          BY LenProperties
        <4> QED BY <4>1
      <3>4. i + k < j + k
        BY <3>2, <3>3
      <3>5. /\ i + k \in DOMAIN s /\ j + k \in DOMAIN s /\ t[i] = s[i + k] /\ t[j] = s[j + k]
        BY <1>1, <3>2
      <3>6. ~IsFinal(s[i + k]) /\ IsFinal(s[j + k])
        BY <1>4, <3>2, <3>4, <3>5 DEF AnswersTo
      <3> QED BY <3>5, <3>6
    <2> QED BY <2>1, <2>2 DEF AnswersTo
  <1> QED BY <1>2, <1>3, <1>4

\* A +RCV line behind them, or the first line taken off.
LEMMA AnswersOfStep ==
  ASSUME NEW s \in Seq(Token)
  PROVE  /\ \A val \in Vals : AnswersFrom(s \o LineOf("+RCV", val), s, 0)
         /\ Len(s) >= 3 => AnswersFrom(WithoutLine(s), s, 3)
PROOF
  <1>1. Len(s) \in Nat /\ DOMAIN s = 1..Len(s)
    BY LenProperties
  <1>2. ASSUME NEW val \in Vals PROVE AnswersFrom(s \o LineOf("+RCV", val), s, 0)
    <2> DEFINE t == s \o LineOf("+RCV", val)
    <2>1. "+RCV" \in BodyKeys
      BY DEF BodyKeys, EventKeys
    <2>2. /\ t \in Seq(Token) /\ Len(t) = Len(s) + 3
          /\ \A i \in 1..Len(s) : t[i] = s[i]
          /\ t[Len(s) + 1] = [key |-> "+RCV", ok |-> TRUE, val |-> val]
          /\ t[Len(s) + 2].key = "CR" /\ t[Len(s) + 3].key = "LF"
      BY <2>1, AndLineParts
    <2> HIDE DEF t
    <2>3. DOMAIN t = 1..(Len(s) + 3)
      BY <2>2, LenProperties
    <2>4. t[Len(s) + 1].key = "+RCV"
      BY <2>2
    <2>5. /\ ~IsAnswer(t[Len(s) + 1]) /\ ~IsAnswer(t[Len(s) + 2]) /\ ~IsAnswer(t[Len(s) + 3])
      BY <2>2, <2>4 DEF IsAnswer
    <2>6. \A i \in 1..(Len(s) + 3) :
            i \in 1..Len(s) \/ i = Len(s) + 1 \/ i = Len(s) + 2 \/ i = Len(s) + 3
      BY <1>1
    <2>7. \A i \in 1..Len(s) : i + 0 = i
      BY <1>1
    <2> QED BY <1>1, <2>2, <2>3, <2>5, <2>6, <2>7 DEF AnswersFrom, t
  <1>3. ASSUME Len(s) >= 3 PROVE AnswersFrom(WithoutLine(s), s, 3)
    <2> DEFINE t == WithoutLine(s)
    <2>1. /\ t \in Seq(Token) /\ Len(t) = Len(s) - 3
          /\ \A i \in 1..(Len(s) - 3) : t[i] = s[i + 3]
      BY <1>3, WithoutLineParts
    <2> HIDE DEF t
    <2>2. DOMAIN t = 1..(Len(s) - 3)
      BY <2>1, LenProperties
    <2>3. \A i \in 1..(Len(s) - 3) : i + 3 \in 1..Len(s)
      BY <1>1, <1>3
    <2> QED BY <1>1, <2>1, <2>2, <2>3 DEF AnswersFrom, t
  <1> QED BY <1>2, <1>3

\* One more answer, the first or one behind a +RESET.
LEMMA AnswersAndLine ==
  ASSUME NEW s \in Seq(Token), NEW cmd \in Commands, AnswersTo(cmd, s), NoFinal(s),
         NEW key \in BodyKeys, key \in AnswerKeys(cmd), NoAnswers(s) \/ key # "+RESET"
  PROVE  /\ AnswersTo(cmd, s \o LineOf(key, cmd.arg))
         /\ key = "+RESET" => NoFinal(s \o LineOf(key, cmd.arg))
PROOF
  <1> DEFINE t == s \o LineOf(key, cmd.arg)
             l == Len(s)
  <1>1. cmd.arg \in Vals /\ l \in Nat /\ DOMAIN s = 1..l
    BY CommandArg, LenProperties
  <1>2. /\ t \in Seq(Token) /\ Len(t) = l + 3
        /\ \A i \in 1..l : t[i] = s[i]
        /\ t[l + 1] = [key |-> key, ok |-> TRUE, val |-> cmd.arg]
        /\ t[l + 2].key = "CR" /\ t[l + 3].key = "LF"
    BY <1>1, AndLineParts
  <1> HIDE DEF t, l
  <1>3. DOMAIN t = 1..(l + 3)
    BY <1>2, LenProperties
  <1>4. t[l + 1].key = key /\ t[l + 1].val = cmd.arg
    BY <1>2
  <1>5. ~IsAnswer(t[l + 2]) /\ ~IsAnswer(t[l + 3])
    BY <1>2 DEF IsAnswer
  <1>6. \A i \in 1..(l + 3) : i \in 1..l \/ i = l + 1 \/ i = l + 2 \/ i = l + 3
    BY <1>1
  <1>7. \A i \in DOMAIN t : IsAnswer(t[i]) => (i \in DOMAIN s /\ t[i] = s[i]) \/ i = l + 1
    BY <1>1, <1>2, <1>3, <1>5, <1>6
  <1>8. \A i \in DOMAIN t : IsAnswer(t[i]) => t[i].val = cmd.arg /\ t[i].key \in AnswerKeys(cmd)
    BY <1>4, <1>7 DEF AnswersTo
  <1>9. \A i, j \in DOMAIN t :
          i < j /\ IsAnswer(t[i]) /\ IsAnswer(t[j]) => ~IsFinal(t[i]) /\ IsFinal(t[j])
    <2>1. TAKE i, j \in DOMAIN t
    <2>2. HAVE i < j /\ IsAnswer(t[i]) /\ IsAnswer(t[j])
    <2>3. i \in DOMAIN s /\ t[i] = s[i]
      <3>1. ~(i = l + 1)
        BY <1>1, <1>3, <1>7, <2>2
      <3> QED BY <1>7, <2>2, <3>1
    <2>4. CASE j \in DOMAIN s /\ t[j] = s[j]
      BY <2>2, <2>3, <2>4 DEF AnswersTo
    <2>5. CASE j = l + 1
      <3>1. ~IsFinal(s[i]) /\ ~NoAnswers(s)
        BY <2>2, <2>3 DEF NoFinal, NoAnswers
      <3>2. IsFinal(t[j])
        BY <1>4, <2>2, <2>5, <3>1 DEF IsFinal
      <3> QED BY <2>3, <3>1, <3>2
    <2> QED BY <1>7, <2>2, <2>4, <2>5
  <1>10. AnswersTo(cmd, t)
    BY <1>8, <1>9 DEF AnswersTo
  <1>11. ASSUME key = "+RESET" PROVE NoFinal(t)
    BY <1>4, <1>7, <1>11 DEF NoFinal, IsFinal
  <1> QED BY <1>10, <1>11 DEF t

\* Where there is no answer, there is none to another command.
LEMMA NoAnswersMeans ==
  ASSUME NEW s, NoAnswers(s)
  PROVE  NoFinal(s) /\ \A cmd : AnswersTo(cmd, s)
PROOF BY DEF NoAnswers, NoFinal, IsFinal, AnswersTo

\* Behind the final answer there is none.
LEMMA FinalIsLast ==
  ASSUME NEW s \in Seq(Token), NEW cmd, AnswersTo(cmd, s), Len(s) >= 3, IsFinal(s[1])
  PROVE  NoAnswers(WithoutLine(s))
PROOF
  <1> DEFINE t == WithoutLine(s)
  <1>1. Len(s) \in Nat /\ DOMAIN s = 1..Len(s)
    BY LenProperties
  <1>2. /\ t \in Seq(Token) /\ Len(t) = Len(s) - 3
        /\ \A i \in 1..(Len(s) - 3) : t[i] = s[i + 3]
    BY WithoutLineParts
  <1> HIDE DEF t
  <1>3. DOMAIN t = 1..(Len(s) - 3)
    BY <1>2, LenProperties
  <1>4. ASSUME NEW i \in DOMAIN t PROVE ~IsAnswer(t[i])
    <2>1. 1 \in DOMAIN s /\ i + 3 \in DOMAIN s /\ 1 < i + 3 /\ t[i] = s[i + 3]
      BY <1>1, <1>2, <1>3
    <2>2. IsAnswer(s[1])
      BY DEF IsFinal
    <2>3. IsAnswer(s[i + 3]) => ~IsFinal(s[1])
      BY <2>1, <2>2 DEF AnswersTo
    <2> QED BY <2>1, <2>3
  <1> QED BY <1>4 DEF NoAnswers, t

-----------------------------------------------------------------------------
(* The slot of the driver and the command it is taken by                   *)

\* No command is on its way, and nothing that was sent for one is unread.
Free ==
  /\ state = Idle /\ tx = <<>>
  /\ to_radio = <<>> /\ booting = NotBooting /\ NoAnswers(Unread)

\* Some of it, or nothing, was written to the port; nothing was acknowledged.
Sending(cmd) ==
  /\ state = SendingTx /\ tx = Encode(cmd) /\ pending_kind = KindOf(cmd)
  /\ (tx_in_flight = 0 /\ to_radio = <<>>) \/ tx_in_flight = Len(tx)
  /\ Len(to_radio) < EncodedLen[cmd] /\ \A i \in DOMAIN to_radio : to_radio[i] = cmd
  /\ booting = NotBooting /\ NoAnswers(Unread)

\* The module has yet to execute it.
Waiting(cmd) == to_radio = Encode(cmd) /\ booting = NotBooting /\ NoAnswers(Unread)

\* The module carries out a factory reset: +READY is still to come.
Restarting(cmd) ==
  /\ to_radio = <<>> /\ booting = cmd /\ cmd.op = "FactoryReset"
  /\ AnswersTo(cmd, Unread) /\ NoFinal(Unread)

\* All answers were sent or got lost.
Executed(cmd) == to_radio = <<>> /\ booting = NotBooting /\ AnswersTo(cmd, Unread)

Sent(cmd) ==
  /\ state = Awaiting(KindOf(cmd)) /\ tx = <<>>
  /\ Waiting(cmd) \/ Restarting(cmd) \/ Executed(cmd)

\* The slot is taken by this command, and all answers under way are to it.
Slot(cmd) ==
  /\ awaiting_ready_as_ok = (cmd.op = "FactoryReset")
  /\ Sending(cmd) \/ Sent(cmd)

\* poll() has handed out a command, and nothing of it was written so far.
AtWrite ==
  /\ state = SendingTx /\ ret.tag = "NeedTx"
  /\ ret.bytes = tx /\ tx_in_flight = Len(tx) /\ to_radio = <<>>

\* A driver made for a module that is up.
LEMMA FreeInit ==
  ASSUME Init, RadioInit, ~JustBooted
  PROVE  Free
PROOF
  <1>1. Unread = <<>> \o <<>>
    BY DEF Init, RadioInit, Unread
  <1>2. Unread = <<>>
    BY <1>1, EmptySeq, ConcatEmptySeq
  <1>3. NoAnswers(Unread)
    BY <1>2 DEF NoAnswers
  <1> QED BY <1>3 DEF Init, RadioInit, Free

\* A taken slot is not idle.
LEMMA SlotIsTaken ==
  ASSUME NEW cmd, Slot(cmd)
  PROVE  state # Idle
PROOF BY StatesDiffer DEF Slot, Sending, Sent

\* Steps that move nothing, or tokens from the port to rx.
LEMMA SlotRests ==
  ASSUME Unread' = Unread,
         UNCHANGED <<tx, tx_in_flight, state, awaiting_ready_as_ok, pending_kind, to_radio, booting>>
  PROVE  (Free => Free') /\ \A cmd : Slot(cmd) => Slot(cmd)'
PROOF
  <1>1. Free => Free'
    BY DEF Free
  <1>2. ASSUME NEW cmd, Slot(cmd) PROVE Slot(cmd)'
    <2>1. Sending(cmd) => Sending(cmd)'
      BY DEF Sending
    <2>2. Sent(cmd) => Sent(cmd)'
      BY DEF Sent, Waiting, Restarting, Executed
    <2> QED BY <1>2, <2>1, <2>2 DEF Slot
  <1> QED BY <1>1, <1>2

\* submit takes a free slot or leaves everything as it was.
LEMMA SlotSubmits ==
  ASSUME LinesInv, NEW cmd \in Commands, Submits(cmd)
  PROVE  /\ Free => IF ret'.tag = "Submitted" THEN Slot(cmd)' ELSE Free'
         /\ \A c : Slot(c) => Slot(c)' /\ ret'.tag # "Submitted"
         /\ ret'.tag # "Submitted" => state' = state
PROOF
  <1>1. UNCHANGED <<to_radio, from_radio, booting, rx, tx_in_flight>> /\ Unread' = Unread
    BY DEF Submits, Submit, SubmitBusy, SubmitTxOverflow, SubmitAccepted, radioVars, Unread
  <1>2. CASE SubmitBusy(cmd)
    <2>1. UNCHANGED <<tx, state, awaiting_ready_as_ok, pending_kind>> /\ ret'.tag = "Busy" /\ state # Idle
      BY <1>2 DEF SubmitBusy, Ret
    <2> QED BY <1>1, <2>1, SlotRests
  <1>3. CASE SubmitTxOverflow(cmd)
    <2>1. ret'.tag = "TxOverflow" /\ UNCHANGED <<state, tx>> /\ state = Idle
      BY <1>3 DEF SubmitTxOverflow, Ret
    <2> QED BY <1>1, <2>1, SlotIsTaken DEF Free
  <1>4. CASE SubmitAccepted(cmd)
    <2>1. ret'.tag = "Submitted" /\ state = Idle /\ state' = SendingTx
      BY <1>4 DEF SubmitAccepted, RetBytes
    <2>2. ASSUME Free PROVE Slot(cmd)'
      <3>1. Encode(cmd) \in Seq(Commands) /\ EncodedLen[cmd] \in Nat \ {0}
        BY EncodeType
      <3>2. tx' = Encode(cmd)
        BY <1>4, <2>2, <3>1, ConcatEmptySeq DEF SubmitAccepted, Free
      <3>3. to_radio' = <<>> /\ booting' = NotBooting /\ NoAnswers(Unread')
        BY <1>1, <2>2 DEF Free
      <3>4. tx_in_flight' = 0
        <4>1. tx_in_flight \in Nat /\ tx_in_flight <= Len(tx) /\ tx = <<>>
          BY <2>2 DEF LinesInv, IndInv, TypeOK, SlotInv, Free
        <4>2. Len(tx) = 0
          BY <4>1
        <4> QED BY <1>1, <4>1, <4>2
      <3>5. Len(to_radio') < EncodedLen[cmd] /\ \A i \in DOMAIN to_radio' : to_radio'[i] = cmd
        <4>1. Len(to_radio') = 0 /\ DOMAIN to_radio' = {}
          BY <3>3
        <4> QED BY <3>1, <4>1
      <3>6. /\ pending_kind' = KindOf(cmd) /\ awaiting_ready_as_ok' = (cmd.op = "FactoryReset")
        BY <1>4 DEF SubmitAccepted
      <3>7. Sending(cmd)'
        BY <2>1, <3>2, <3>3, <3>4, <3>5, <3>6 DEF Sending
      <3> QED BY <3>6, <3>7 DEF Slot
    <2> QED BY <2>1, <2>2, SlotIsTaken
  <1> QED BY <1>2, <1>3, <1>4 DEF Submits, Submit

\* With the slot free, poll() has nothing to send and no response.
LEMMA FreePolls ==
  ASSUME LinesInv, Polls, Free
  PROVE  Free' /\ ret'.tag \notin {"Response", "NeedTx"} /\ state' = state
PROOF
  <1>1. TypeOK /\ from_radio \in Seq(Token) /\ Framed(Unread) /\ tx_in_flight \in Nat
        /\ Unread \in Seq(Token)
    BY ConcatParts DEF LinesInv, IndInv, TypeOK, RadioTypeOK, Unread
  <1>2. PollRx /\ UNCHANGED radioVars
    <2>1. Len(tx) = 0
      BY DEF Free
    <2> QED BY <1>1, <2>1 DEF Polls, Poll, PollNeedTx
  <1>3. UNCHANGED <<tx, tx_in_flight, pending_kind, to_radio, from_radio, booting>>
    BY <1>1, <1>2, PollRxEffect DEF radioVars
  <1>4. ASSUME Unread # <<>> PROVE Unread[1].key = "+RCV" /\ Len(Unread) >= 3
    <2>1. Unread[1].key \in BodyKeys /\ Len(Unread) >= 3
      BY <1>1, <1>4, FramedHead
    <2>2. 1 \in DOMAIN Unread
      BY <1>1, <2>1, LenProperties
    <2>3. ~IsAnswer(Unread[1])
      BY <2>2 DEF Free, NoAnswers
    <2> QED BY <2>1, <2>3 DEF IsAnswer, BodyKeys, ResponseKeys, EventKeys
  <1>5. CASE rx' = rx /\ state' = state /\ ret' \in {Ret("Idle"), Ret("Panic")}
    <2>1. Unread' = Unread
      BY <1>3, <1>5 DEF Unread
    <2> QED BY <1>3, <1>5, <2>1 DEF Free, Ret
  <1>6. CASE /\ Unread # <<>> /\ Unread' = WithoutLine(Unread)
             /\ ret' = RetLine("Event", <<Unread[1]>>) /\ state' = state
    <2>1. NoAnswers(Unread')
      <3>1. NoAnswers(Unread)
        BY DEF Free
      <3>2. WithoutLine(Unread) \in Seq(Token)
        BY <1>1, <1>4, <1>6, WithoutLineParts
      <3> QED BY <1>1, <1>4, <1>6, <3>1, <3>2, AnswersOfStep, AnswersKept
    <2> QED BY <1>3, <1>6, <2>1 DEF Free, RetLine
  <1> QED
    <2>1. "+RCV" # "+RESET" /\ "+RCV" # "+READY" /\ "+RCV" \in EventKeys
      BY DEF EventKeys
    <2> QED BY <1>1, <1>2, <1>3, <1>4, <1>5, <1>6, <2>1, PollTakesLine

\* The first line of the stream is taken off, and it is not the final answer.
LEMMA SlotReadsLine ==
  ASSUME Unread \in Seq(Token), Framed(Unread), Unread # <<>>, Unread' = WithoutLine(Unread),
         NEW cmd \in Commands, Slot(cmd),
         UNCHANGED <<tx, tx_in_flight, state, awaiting_ready_as_ok, pending_kind, to_radio, booting>>
  PROVE  Slot(cmd)'
PROOF
  <1>1. Len(Unread) >= 3
    BY FramedHead
  <1>2. WithoutLine(Unread) \in Seq(Token) /\ AnswersFrom(WithoutLine(Unread), Unread, 3)
    BY <1>1, WithoutLineParts, AnswersOfStep
  <1>3. /\ NoAnswers(Unread) => NoAnswers(Unread')
        /\ NoFinal(Unread) => NoFinal(Unread')
        /\ AnswersTo(cmd, Unread) => AnswersTo(cmd, Unread')
    BY <1>2, AnswersKept
  <1>4. Sending(cmd) => Sending(cmd)'
    BY <1>3 DEF Sending
  <1>5. Sent(cmd) => Sent(cmd)'
    BY <1>3 DEF Sent, Waiting, Restarting, Executed
  <1> QED BY <1>4, <1>5 DEF Slot

\* With the final answer the slot is free.
LEMMA SlotGetsFinal ==
  ASSUME Unread \in Seq(Token), Framed(Unread), Unread # <<>>, Unread' = WithoutLine(Unread),
         NEW cmd \in Commands, Slot(cmd), IsFinal(Unread[1]),
         state' = Idle, UNCHANGED <<tx, to_radio, booting>>
  PROVE  Free' /\ state = Awaiting(KindOf(cmd)) /\ AnswersTo(cmd, Unread)
PROOF
  <1>1. Len(Unread) >= 3 /\ 1 \in DOMAIN Unread
    <2>1. Len(Unread) >= 3
      BY FramedHead
    <2> QED BY <2>1, LenProperties
  <1>2. ~NoAnswers(Unread) /\ ~NoFinal(Unread)
    BY <1>1 DEF NoAnswers, NoFinal, IsFinal
  <1>3. Sent(cmd) /\ Executed(cmd)
    BY <1>2 DEF Slot, Sending, Sent, Waiting, Restarting
  <1>4. /\ state = Awaiting(KindOf(cmd)) /\ tx = <<>>
        /\ to_radio = <<>> /\ booting = NotBooting /\ AnswersTo(cmd, Unread)
    BY <1>3 DEF Sent, Executed
  <1>5. NoAnswers(Unread')
    BY <1>1, <1>4, FinalIsLast
  <1> QED BY <1>4, <1>5 DEF Free

\* poll() hands out the command, or leaves the slot taken and returns no response,
\* or returns the final answer and frees the slot.
LEMMA SlotPolls ==
  ASSUME LinesInv, Polls, NEW cmd \in Commands, Slot(cmd)
  PROVE  \/ Slot(cmd)' /\ ret'.tag # "Response" /\ (ret'.tag = "NeedTx" => AtWrite')
         \/ /\ Free' /\ ret'.tag = "Response" /\ state = Awaiting(KindOf(cmd))
            /\ ret'.line # <<>> /\ ret'.line[1].val = cmd.arg
            /\ ret'.line[1].key \in AnswerKeys(cmd) \ {"+RESET"}
PROOF
  <1>1. /\ TypeOK /\ from_radio \in Seq(Token) /\ Framed(Unread) /\ tx_in_flight \in Nat
        /\ tx \in Seq(Commands) /\ Unread \in Seq(Token) /\ tx_in_flight <= Len(tx)
    BY ConcatParts DEF LinesInv, IndInv, TypeOK, SlotInv, RadioTypeOK, Unread
  <1>2. UNCHANGED <<to_radio, from_radio, booting>>
    BY DEF Polls, radioVars
  <1>3. CASE PollNeedTx
    <2>1. Sending(cmd) /\ tx_in_flight = 0
      <3>1. Len(<<>>) = 0
        OBVIOUS
      <3>2. tx_in_flight < Len(tx)
        BY <1>3 DEF PollNeedTx
      <3>3. ~Sent(cmd)
        BY <1>1, <3>1, <3>2 DEF Sent
      <3>4. Sending(cmd)
        BY <3>3 DEF Slot
      <3>5. tx_in_flight # Len(tx)
        BY <1>1, <3>2, LenProperties
      <3> QED BY <3>4, <3>5 DEF Sending
    <2>2. to_radio = <<>> /\ state = SendingTx
      <3>1. tx_in_flight # Len(tx)
        BY <1>1, <1>3, LenProperties DEF PollNeedTx
      <3> QED BY <2>1, <3>1 DEF Sending
    <2>3. /\ tx_in_flight' = Len(tx) /\ UNCHANGED <<rx, tx, state, awaiting_ready_as_ok, pending_kind>>
          /\ ret' = RetBytes("NeedTx", SubSeq(tx, 0 + 1, Len(tx)))
      BY <1>3, <2>1 DEF PollNeedTx
    <2>4. SubSeq(tx, 0 + 1, Len(tx)) = tx
      BY <1>1, SubSeqFull
    <2>5. ret'.tag = "NeedTx" /\ ret'.bytes = tx
      BY <2>3, <2>4 DEF RetBytes
    <2>6. AtWrite'
      BY <1>2, <2>2, <2>3, <2>5 DEF AtWrite
    <2>7. Unread' = Unread
      BY <1>2, <2>3 DEF Unread
    <2>8. Sending(cmd)'
      BY <1>2, <2>1, <2>3, <2>7 DEF Sending
    <2> QED BY <2>3, <2>5, <2>6, <2>8 DEF Slot
  <1>4. CASE PollRx
    <2>1. UNCHANGED <<tx, tx_in_flight, pending_kind>>
      BY <1>1, <1>4, PollRxEffect
    <2>2. awaiting_ready_as_ok = (cmd.op = "FactoryReset")
      BY DEF Slot
    <2>3. ret'.tag # "NeedTx"
      BY <1>4, PollRxTag
    <2>4. CASE /\ UNCHANGED <<rx, state, awaiting_ready_as_ok>>
               /\ ret' \in {Ret("Idle"), Ret("Panic")}
      <3>1. Unread' = Unread
        BY <1>2, <2>4 DEF Unread
      <3>2. ret'.tag # "Response"
        BY <2>4 DEF Ret
      <3> QED BY <1>2, <2>1, <2>3, <2>4, <3>1, <3>2, SlotRests
    <2>5. CASE /\ Unread # <<>> /\ Unread' = WithoutLine(Unread)
               /\ UNCHANGED <<state, awaiting_ready_as_ok>> /\ ret'.tag # "Response"
      BY <1>1, <1>2, <2>1, <2>3, <2>5, SlotReadsLine
    <2>6. ASSUME Unread # <<>>, Unread' = WithoutLine(Unread), state' = Idle,
                 Unread[1].key \in BodyKeys \ {"+RCV", "+RESET"}
          PROVE  /\ Free' /\ state = Awaiting(KindOf(cmd))
                 /\ Unread[1].val = cmd.arg /\ Unread[1].key \in AnswerKeys(cmd) \ {"+RESET"}
      <3>1. IsFinal(Unread[1])
        BY <2>6 DEF IsFinal, IsAnswer, BodyKeys, ResponseKeys, EventKeys
      <3>2. Free' /\ state = Awaiting(KindOf(cmd)) /\ AnswersTo(cmd, Unread)
        BY <1>1, <1>2, <2>1, <2>6, <3>1, SlotGetsFinal
      <3>3. 1 \in DOMAIN Unread
        <4>1. Len(Unread) >= 3
          BY <1>1, <2>6, FramedHead
        <4> QED BY <1>1, <4>1, LenProperties
      <3>4. IsAnswer(Unread[1])
        BY <3>1 DEF IsFinal
      <3> QED BY <2>6, <3>2, <3>3, <3>4 DEF AnswersTo
    <2>7. CASE /\ Unread # <<>> /\ Unread' = WithoutLine(Unread)
               /\ awaiting_ready_as_ok /\ Unread[1].key = "+READY"
               /\ ret' = RetLine("Response", <<Unread[1]>>)
               /\ state' = Idle
      <3>1. Unread[1].key \in BodyKeys \ {"+RCV", "+RESET"}
        BY <2>7 DEF BodyKeys, EventKeys
      <3>2. ret'.line = <<Unread[1]>> /\ ret'.tag = "Response"
        BY <2>7 DEF RetLine
      <3>3. ret'.line # <<>> /\ ret'.line[1] = Unread[1]
        BY <3>2
      <3> QED BY <2>6, <2>7, <3>1, <3>2, <3>3
    <2>8. CASE /\ Unread # <<>> /\ Unread' = WithoutLine(Unread)
               /\ ~(awaiting_ready_as_ok /\ Unread[1].key = "+RESET")
               /\ Unread[1].key \notin EventKeys /\ MatchesSlot(<<Unread[1]>>)
               /\ ret' = IF Unread[1].key \in ResponseKeys
                           THEN RetLine("Response", <<Unread[1]>>) ELSE Ret("Idle")
               /\ state' = Idle
      <3>1. Unread[1].key \in BodyKeys \ EventKeys
        BY <1>1, <2>8, FramedHead
      <3>2. /\ IsAnswer(Unread[1]) /\ 1 \in DOMAIN Unread
        <4>1. Len(Unread) >= 3
          BY <1>1, <2>8, FramedHead
        <4> QED BY <1>1, <3>1, <4>1, LenProperties DEF IsAnswer, BodyKeys, ResponseKeys, EventKeys
      <3>3. AnswersTo(cmd, Unread)
        BY NoAnswersMeans DEF Slot, Sending, Sent, Waiting, Restarting, Executed
      <3>4. Unread[1].key \in AnswerKeys(cmd)
        BY <3>2, <3>3 DEF AnswersTo
      <3>5. cmd.op # "FactoryReset"
        BY <2>2, <2>8, <3>1, <3>4 DEF AnswerKeys, EventKeys
      <3>6. Unread[1].key \in ResponseKeys
        BY <3>4, <3>5, ValueKeyType DEF AnswerKeys, ResponseKeys
      <3>7. Unread[1].key \in BodyKeys \ {"+RCV", "+RESET"}
        BY <3>6 DEF BodyKeys, ResponseKeys
      <3>8. ret'.line = <<Unread[1]>> /\ ret'.tag = "Response"
        BY <2>8, <3>6 DEF RetLine
      <3>9. ret'.line # <<>> /\ ret'.line[1] = Unread[1]
        BY <3>8
      <3> QED BY <2>6, <2>8, <3>7, <3>8, <3>9
    <2>9. CASE /\ Unread # <<>> /\ Unread' = WithoutLine(Unread)
               /\ ret' = Ret("Repoll") /\ UNCHANGED <<state, awaiting_ready_as_ok>>
      BY <2>5, <2>9 DEF Ret
    <2>10. CASE /\ Unread # <<>> /\ Unread' = WithoutLine(Unread)
                /\ ret' = RetLine("Event", <<Unread[1]>>)
                /\ UNCHANGED <<state, awaiting_ready_as_ok>>
      BY <2>5, <2>10 DEF RetLine
    <2> QED BY <1>1, <1>2, <1>4, <2>4, <2>7, <2>8, <2>9, <2>10, PollTakesLine
  <1> QED BY <1>3, <1>4 DEF Polls, Poll

\* All of the command is written and acknowledged.
LEMMA SlotWrites ==
  ASSUME LinesInv, NEW cmd \in Commands, Slot(cmd), AtWrite, Writes
  PROVE  Slot(cmd)'
PROOF
  <1>1. /\ TypeOK /\ tx \in Seq(Commands) /\ tx_in_flight \in Nat /\ tx_in_flight <= Len(tx)
        /\ Len(tx) \in Nat
    <2>1. TypeOK /\ tx \in Seq(Commands) /\ tx_in_flight \in Nat /\ tx_in_flight <= Len(tx)
      BY DEF LinesInv, IndInv, TypeOK, SlotInv
    <2> QED BY <2>1, LenProperties
  <1>2. /\ state = SendingTx /\ ret.bytes = tx /\ tx_in_flight = Len(tx) /\ to_radio = <<>>
    BY DEF AtWrite
  <1>3. /\ tx = Encode(cmd) /\ pending_kind = KindOf(cmd) /\ booting = NotBooting /\ NoAnswers(Unread)
        /\ awaiting_ready_as_ok = (cmd.op = "FactoryReset")
    BY <1>2, StatesDiffer DEF Slot, Sending, Sent
  <1>4. AckTx(Len(tx)) /\ to_radio' = to_radio \o tx /\ UNCHANGED <<from_radio, booting>>
    BY <1>2 DEF Writes
  <1>5. to_radio' = Encode(cmd)
    BY <1>1, <1>2, <1>3, <1>4, ConcatEmptySeq
  <1>6. tx' = <<>>
    <2>1. Clamp(Len(tx)) = Len(tx)
      BY <1>1, <1>2 DEF Clamp
    <2>2. tx' \in Seq(Commands) /\ Len(tx') = Len(tx) - Clamp(Len(tx))
      BY <1>1, <1>4, AckTxParts
    <2>3. Len(tx') = 0
      BY <1>1, <2>1, <2>2
    <2> QED BY <2>2, <2>3, EmptySeq
  <1>7. pending_kind # None
    BY <1>3, KindOfType
  <1>8. state' = Awaiting(KindOf(cmd)) /\ UNCHANGED <<rx, awaiting_ready_as_ok>>
    BY <1>2, <1>3, <1>4, <1>6, <1>7 DEF AckTx
  <1>9. Unread' = Unread
    BY <1>4, <1>8 DEF Unread
  <1>10. Waiting(cmd)'
    BY <1>3, <1>4, <1>5, <1>9 DEF Waiting
  <1> QED BY <1>3, <1>6, <1>8, <1>10 DEF Slot, Sent

\* A part of it is written, and never acknowledged.
LEMMA SlotWritesPart ==
  ASSUME LinesInv, NEW cmd \in Commands, Slot(cmd), AtWrite, WritesPart
  PROVE  Slot(cmd)'
PROOF
  <1>1. /\ state = SendingTx /\ ret.bytes = tx /\ tx_in_flight = Len(tx) /\ to_radio = <<>>
    BY DEF AtWrite
  <1>2. /\ tx = Encode(cmd) /\ pending_kind = KindOf(cmd) /\ booting = NotBooting /\ NoAnswers(Unread)
        /\ awaiting_ready_as_ok = (cmd.op = "FactoryReset")
    BY <1>1, StatesDiffer DEF Slot, Sending, Sent
  <1>3. UNCHANGED <<vars, from_radio, booting>>
    BY DEF WritesPart
  <1>4. Unread' = Unread
    BY <1>3 DEF vars, Unread
  <1>5. PICK n \in 0..(Len(tx) - 1) : to_radio' = to_radio \o SubSeq(tx, 1, n)
    BY <1>1 DEF WritesPart
  <1>6. tx \in Seq(Commands) /\ Len(tx) = EncodedLen[cmd] /\ EncodedLen[cmd] \in Nat \ {0}
    BY <1>2, EncodeType
  <1> DEFINE part == SubSeq(tx, 1, n)
  <1>7. /\ part \in Seq(Commands) /\ Len(part) = (IF 1 <= n THEN n - 1 + 1 ELSE 0)
        /\ \A i \in 1..(n - 1 + 1) : part[i] = tx[1 + i - 1]
    <2>1. n \in Nat /\ n <= Len(tx) /\ 1 \in Nat \ {0}
      BY <1>6
    <2> QED BY <1>6, <2>1, PartOfSeq
  <1> HIDE DEF part
  <1>8. to_radio' = part
    BY <1>1, <1>5, <1>7, ConcatEmptySeq DEF part
  <1>9. Len(part) < EncodedLen[cmd] /\ DOMAIN part = 1..n
    <2>1. Len(part) = n
      BY <1>7
    <2> QED BY <1>6, <1>7, <2>1, LenProperties
  <1>10. \A i \in DOMAIN part : part[i] = cmd
    <2>1. TAKE i \in DOMAIN part
    <2>2. i \in 1..(n - 1 + 1) /\ 1 + i - 1 = i /\ i \in 1..EncodedLen[cmd]
      BY <1>6, <1>9
    <2>3. Encode(cmd)[i] = cmd
      BY <2>2 DEF Encode
    <2>4. part[i] = tx[i]
      BY <1>7, <2>2
    <2> QED BY <1>2, <2>3, <2>4
  <1>11. /\ Len(to_radio') < EncodedLen[cmd] /\ \A i \in DOMAIN to_radio' : to_radio'[i] = cmd
    BY <1>8, <1>9, <1>10
  <1>12. Sending(cmd)'
    BY <1>1, <1>2, <1>3, <1>4, <1>11 DEF Sending, vars
  <1> QED BY <1>2, <1>3, <1>12 DEF Slot, vars

\* What the module says goes behind the stream.
LEMMA SaysUnread ==
  ASSUME LinesInv, UNCHANGED vars, NEW key \in BodyKeys, NEW val \in Vals, Says(LineOf(key, val))
  PROVE  Unread' = Unread \o LineOf(key, val)
PROOF
  <1>1. rx \in Seq(Token) /\ from_radio \in Seq(Token) /\ LineOf(key, val) \in Seq(Token)
    BY LineOfType DEF LinesInv, IndInv, TypeOK, RadioTypeOK
  <1>2. (rx \o from_radio) \o LineOf(key, val) = rx \o (from_radio \o LineOf(key, val))
    BY <1>1, TokensAssociate
  <1>3. rx' = rx /\ from_radio' = from_radio \o LineOf(key, val)
    BY DEF vars, Says
  <1> QED BY <1>2, <1>3 DEF Unread

\* The module receives: the slot is not concerned.
LEMMA SlotReceives ==
  ASSUME LinesInv, RadioReceives, UNCHANGED vars
  PROVE  (Free => Free') /\ \A cmd \in Commands : Slot(cmd) => Slot(cmd)'
PROOF
  <1>1. rcv_sent + 1 \in Vals /\ "+RCV" \in BodyKeys
    <2>1. rcv_sent + 1 \in 0..MaxRcv
      BY RadioAssumption DEF LinesInv, RadioTypeOK, RadioReceives
    <2> QED BY <2>1, RadioAssumption DEF BodyKeys, EventKeys
  <1>2. Unread \in Seq(Token)
    BY ConcatParts DEF LinesInv, IndInv, TypeOK, RadioTypeOK, Unread
  <1>3. Unread' = Unread \o LineOf("+RCV", rcv_sent + 1)
    <2>1. Says(LineOf("+RCV", rcv_sent + 1))
      BY DEF RadioReceives
    <2> QED BY <1>1, <2>1, SaysUnread
  <1>4. Unread' \in Seq(Token) /\ AnswersFrom(Unread', Unread, 0)
    BY <1>1, <1>2, <1>3, AndLineParts, AnswersOfStep
  <1>5. /\ NoAnswers(Unread) => NoAnswers(Unread')
        /\ NoFinal(Unread) => NoFinal(Unread')
        /\ \A cmd : AnswersTo(cmd, Unread) => AnswersTo(cmd, Unread')
    BY <1>2, <1>4, AnswersKept
  <1>6. UNCHANGED <<to_radio, booting, state, tx, tx_in_flight, pending_kind, awaiting_ready_as_ok>>
    BY DEF RadioReceives, vars
  <1>7. Free => Free'
    BY <1>5, <1>6 DEF Free
  <1>8. ASSUME NEW cmd \in Commands, Slot(cmd) PROVE Slot(cmd)'
    <2>1. Sending(cmd) => Sending(cmd)'
      BY <1>5, <1>6 DEF Sending
    <2>2. Sent(cmd) => Sent(cmd)'
      BY <1>5, <1>6 DEF Sent, Waiting, Restarting, Executed
    <2> QED BY <1>6, <1>8, <2>1, <2>2 DEF Slot
  <1> QED BY <1>7, <1>8

\* A command that is whole at the head of the line is one that waits, all of it.
LEMMA CommandIsWhole ==
  ASSUME NEW cmd \in Commands, Slot(cmd), NEW n \in 1..Len(to_radio), CommandAtHead(n)
  PROVE  /\ Waiting(cmd) /\ to_radio[1] = cmd /\ state = Awaiting(KindOf(cmd)) /\ tx = <<>>
         /\ SubSeq(to_radio, n + 1, Len(to_radio)) = <<>>
PROOF
  <1>1. EncodedLen[cmd] \in Nat \ {0} /\ Len(Encode(cmd)) = EncodedLen[cmd] /\ Encode(cmd) \in Seq(Commands)
    BY EncodeType
  <1>2. to_radio # <<>>
    BY EmptySeq
  <1>3. n = EncodedLen[to_radio[1]] /\ Len(to_radio) >= n
    BY DEF CommandAtHead
  <1>4. ~Sending(cmd)
    <2>1. SUFFICES ASSUME Sending(cmd) PROVE FALSE
      OBVIOUS
    <2>2. Len(to_radio) < EncodedLen[cmd] /\ \A i \in DOMAIN to_radio : to_radio[i] = cmd
      BY <2>1 DEF Sending
    <2>3. to_radio[1] = cmd
      <3>1. 1 \in DOMAIN to_radio
        BY <1>3, <2>2
      <3> QED BY <2>2, <3>1
    <2> QED BY <1>1, <1>3, <2>2, <2>3
  <1>5. Sent(cmd) /\ Waiting(cmd)
    BY <1>2, <1>4 DEF Slot, Sent, Restarting, Executed
  <1>6. to_radio = Encode(cmd)
    BY <1>5 DEF Waiting
  <1>7. to_radio[1] = cmd
    BY <1>1, <1>6 DEF Encode
  <1>8. n = Len(to_radio)
    BY <1>1, <1>3, <1>6, <1>7
  <1>9. SubSeq(to_radio, n + 1, Len(to_radio)) = <<>>
    <2> DEFINE l == Len(to_radio)
    <2>1. l \in Nat /\ l + 1 \in Nat \ {0} /\ to_radio \in Seq(Commands)
      BY <1>1, <1>6
    <2>2. SubSeq(to_radio, l + 1, l) \in Seq(Commands) /\ Len(SubSeq(to_radio, l + 1, l)) = 0
      BY <2>1, PartOfSeq
    <2>3. SubSeq(to_radio, l + 1, l) = <<>>
      BY <2>2, EmptySeq
    <2> QED BY <1>8, <2>3
  <1> QED BY <1>5, <1>7, <1>9 DEF Sent

\* The module answers, restarts, skips an answer or receives: what it sends for a
\* command is for the one that holds the slot.
LEMMA SlotHears ==
  ASSUME LinesInv, Hears
  PROVE  (Free => Free') /\ \A cmd \in Commands : Slot(cmd) => Slot(cmd)'
PROOF
  <1>1. Unread \in Seq(Token) /\ RadioNext /\ UNCHANGED vars
    BY ConcatParts DEF LinesInv, IndInv, TypeOK, RadioTypeOK, Unread, Hears
  <1>2. ASSUME Free PROVE Free'
    <2>1. 1..Len(to_radio) = {} /\ booting = NotBooting
      <3>1. Len(to_radio) = 0
        BY <1>2 DEF Free
      <3> QED BY <1>2, <3>1 DEF Free
    <2>2. RadioReceives
      BY <1>1, <2>1 DEF RadioNext, RadioReplies, RadioRestarts
    <2> QED BY <1>1, <1>2, <2>2, SlotReceives
  <1>3. ASSUME NEW cmd \in Commands, Slot(cmd) PROVE Slot(cmd)'
    <2>1. CASE RadioReceives
      BY <1>1, <1>3, <2>1, SlotReceives
    <2>2. ASSUME NEW n \in 1..Len(to_radio), RadioSkipsAnswer(n) PROVE Slot(cmd)'
      <3>1. CommandAtHead(n) /\ ExecutedUpTo(n) /\ UNCHANGED <<from_radio, booting>>
        BY <2>2 DEF RadioSkipsAnswer
      <3>2. /\ Waiting(cmd) /\ state = Awaiting(KindOf(cmd)) /\ tx = <<>> /\ to_radio' = <<>>
        BY <1>3, <3>1, CommandIsWhole DEF ExecutedUpTo
      <3>3. Unread' = Unread
        BY <1>1, <3>1 DEF vars, Unread
      <3>4. Executed(cmd)'
        BY <3>1, <3>2, <3>3, NoAnswersMeans DEF Waiting, Executed
      <3> QED BY <1>1, <1>3, <3>2, <3>4 DEF Slot, Sent, vars
    <2>3. ASSUME NEW n \in 1..Len(to_radio), RadioAnswers(n) PROVE Slot(cmd)'
      <3>1. CommandAtHead(n) /\ ExecutedUpTo(n)
        BY <2>3 DEF RadioAnswers
      <3>2. /\ Waiting(cmd) /\ state = Awaiting(KindOf(cmd)) /\ tx = <<>> /\ to_radio' = <<>>
            /\ to_radio[1] = cmd
        BY <1>3, <3>1, CommandIsWhole DEF ExecutedUpTo
      <3>3. NoAnswers(Unread) /\ booting = NotBooting /\ NoFinal(Unread) /\ AnswersTo(cmd, Unread)
        BY <3>2, NoAnswersMeans DEF Waiting
      <3>4. /\ ValueKey(cmd) \in BodyKeys /\ "+ERR=" \in BodyKeys /\ "+RESET" \in BodyKeys
            /\ cmd.arg \in Vals
        BY ValueKeyType, CommandArg DEF BodyKeys, ResponseKeys
      <3>5. CASE cmd.op = "FactoryReset"
        <4>1. Says(LineOf("+RESET", cmd.arg)) /\ booting' = cmd
          BY <2>3, <3>2, <3>5 DEF RadioAnswers
        <4>2. Unread' = Unread \o LineOf("+RESET", cmd.arg)
          BY <1>1, <3>4, <4>1, SaysUnread
        <4>3. "+RESET" \in AnswerKeys(cmd)
          BY <3>5 DEF AnswerKeys
        <4>4. AnswersTo(cmd, Unread') /\ NoFinal(Unread')
          BY <1>1, <3>3, <3>4, <4>2, <4>3, AnswersAndLine
        <4>5. Restarting(cmd)'
          BY <3>2, <3>5, <4>1, <4>4 DEF Restarting
        <4> QED BY <1>1, <1>3, <3>2, <4>5 DEF Slot, Sent, vars
      <3>6. CASE cmd.op # "FactoryReset"
        <4>1. PICK key \in {ValueKey(cmd), "+ERR="} : Says(LineOf(key, cmd.arg))
          BY <2>3, <3>2, <3>6 DEF RadioAnswers, ValueKey
        <4>2. booting' = NotBooting
          BY <2>3, <3>2, <3>3, <3>6 DEF RadioAnswers
        <4>3. key \in BodyKeys /\ key \in AnswerKeys(cmd)
          BY <3>4, <3>6 DEF AnswerKeys
        <4>4. Unread' = Unread \o LineOf(key, cmd.arg)
          BY <1>1, <3>4, <4>1, <4>3, SaysUnread
        <4>5. AnswersTo(cmd, Unread')
          BY <1>1, <3>3, <4>3, <4>4, AnswersAndLine
        <4>6. Executed(cmd)'
          BY <3>2, <4>2, <4>5 DEF Executed
        <4> QED BY <1>1, <1>3, <3>2, <4>6 DEF Slot, Sent, vars
      <3> QED BY <3>5, <3>6
    <2>4. CASE RadioRestarts
      <3>1. booting # NotBooting /\ Says(LineOf("+READY", booting.arg)) /\ booting' = NotBooting
            /\ to_radio' = to_radio
        BY <2>4 DEF RadioRestarts
      <3>2. Sent(cmd) /\ Restarting(cmd)
        BY <1>3, <3>1 DEF Slot, Sending, Sent, Waiting, Executed
      <3>3. /\ booting = cmd /\ cmd.op = "FactoryReset" /\ to_radio = <<>>
            /\ AnswersTo(cmd, Unread) /\ NoFinal(Unread)
        BY <3>2 DEF Restarting
      <3>4. "+READY" \in BodyKeys /\ "+READY" \in AnswerKeys(cmd) /\ "+READY" # "+RESET"
            /\ cmd.arg \in Vals
        BY <3>3, CommandArg DEF BodyKeys, EventKeys, AnswerKeys
      <3>5. Unread' = Unread \o LineOf("+READY", cmd.arg)
        BY <1>1, <3>1, <3>3, <3>4, SaysUnread
      <3>6. AnswersTo(cmd, Unread')
        BY <1>1, <3>3, <3>4, <3>5, AnswersAndLine
      <3>7. Executed(cmd)'
        BY <3>1, <3>3, <3>6 DEF Executed
      <3>8. state = Awaiting(KindOf(cmd)) /\ tx = <<>>
        BY <3>2 DEF Sent
      <3> QED BY <1>1, <1>3, <3>7, <3>8 DEF Slot, Sent, vars
    <2> QED BY <1>1, <2>1, <2>2, <2>3, <2>4 DEF RadioNext, RadioReplies
  <1> QED BY <1>2, <1>3

\* A read that fits moves nothing but tokens from the port to rx.
LEMMA SlotReads ==
  ASSUME LinesInv, Reads, ret'.tag # "RxOverflow"
  PROVE  (Free => Free') /\ \A cmd : Slot(cmd) => Slot(cmd)'
PROOF
  <1>1. PICK n \in Nat \ {0} :
          /\ n <= Len(from_radio)
          /\ PushRx(SubSeq(from_radio, 1, n))
          /\ from_radio' = SubSeq(from_radio, n + 1, Len(from_radio))
    BY DEF Reads
  <1>2. Unread' = Unread
    BY <1>1, ReadKeepsUnread DEF LinesInv, IndInv, RadioTypeOK
  <1>3. UNCHANGED <<tx, tx_in_flight, state, awaiting_ready_as_ok, pending_kind, to_radio, booting>>
    BY <1>1 DEF PushRx, Reads
  <1> QED BY <1>2, <1>3, SlotRests

\* The slot is free, or one of the commands holds it.
SlotOK == Free \/ \E cmd \in Commands : Slot(cmd)

\* The steps of a host that neither submit nor poll: it reads without an overflow,
\* listens, rests, or writes what poll() handed out.
SlotSteps ==
  \/ Reads /\ ret'.tag # "RxOverflow"
  \/ Hears \/ Rests
  \/ AtWrite /\ (Writes \/ WritesPart)

\* A slot that poll() handed a command out for is not free.
LEMMA AtWriteIsTaken ==
  ASSUME AtWrite
  PROVE  ~Free
PROOF BY StatesDiffer DEF AtWrite, Free

\* They leave the slot to whoever has it.
LEMMA SlotIsKept ==
  ASSUME LinesInv, SlotSteps
  PROVE  (Free => Free') /\ \A cmd \in Commands : Slot(cmd) => Slot(cmd)'
PROOF
  <1>1. CASE Reads /\ ret'.tag # "RxOverflow"
    BY <1>1, SlotReads
  <1>2. CASE Hears
    BY <1>2, SlotHears
  <1>3. CASE Rests
    <2>1. /\ Unread' = Unread
          /\ UNCHANGED <<tx, tx_in_flight, state, awaiting_ready_as_ok, pending_kind, to_radio, booting>>
      BY <1>3 DEF Rests, vars, radioVars, Unread
    <2> QED BY <2>1, SlotRests
  <1>4. CASE AtWrite /\ (Writes \/ WritesPart)
    <2>1. ~Free
      BY <1>4, AtWriteIsTaken
    <2> QED BY <1>4, <2>1, SlotWrites, SlotWritesPart
  <1> QED BY <1>1, <1>2, <1>3, <1>4 DEF SlotSteps

\* So it stays free, or stays taken.
LEMMA SlotStaysOK ==
  ASSUME LinesInv, SlotOK, SlotSteps
  PROVE  SlotOK' /\ (state' = Idle <=> state = Idle)
PROOF
  <1>1. CASE Free
    <2>1. Free'
      BY <1>1, SlotIsKept
    <2> QED BY <1>1, <2>1 DEF Free, SlotOK
  <1>2. CASE \E cmd \in Commands : Slot(cmd)
    <2>1. PICK cmd \in Commands : Slot(cmd)
      BY <1>2
    <2>2. Slot(cmd)'
      BY <2>1, SlotIsKept
    <2>3. state # Idle /\ state' # Idle
      BY <2>1, <2>2, StatesDiffer DEF Slot, Sending, Sent
    <2> QED BY <2>2, <2>3 DEF SlotOK
  <1> QED BY <1>1, <1>2 DEF SlotOK

\* What was handed out can still be written when the module has moved.
LEMMA AtWriteStays ==
  ASSUME AtWrite, Hears \/ Rests
  PROVE  AtWrite'
PROOF
  <1>1. CASE Hears
    <2>1. UNCHANGED vars /\ to_radio = <<>> /\ RadioNext
      BY <1>1 DEF Hears, AtWrite
    <2>2. 1..Len(to_radio) = {}
      BY <2>1
    <2>3. to_radio' = to_radio
      BY <2>1, <2>2 DEF RadioNext, RadioReplies, RadioRestarts, RadioReceives
    <2> QED BY <2>1, <2>3 DEF AtWrite, vars
  <1>2. CASE Rests
    BY <1>2 DEF AtWrite, Rests, vars, radioVars
  <1> QED BY <1>1, <1>2

\* submit: the slot goes to this command if it is accepted, and else stays as it is.
LEMMA SubmitTakesSlot ==
  ASSUME LinesInv, SlotOK, NEW cmd \in Commands, Submits(cmd)
  PROVE  /\ SlotOK'
         /\ ret'.tag = "Submitted" => state = Idle /\ Slot(cmd)' /\ state' # Idle
         /\ ret'.tag # "Submitted" => state' = state
PROOF
  <1>1. ret'.tag # "Submitted" => state' = state
    BY SlotSubmits
  <1>2. CASE Free
    <2>1. IF ret'.tag = "Submitted" THEN Slot(cmd)' ELSE Free'
      BY <1>2, SlotSubmits
    <2>2. Slot(cmd)' => state' # Idle
      BY StatesDiffer DEF Slot, Sending, Sent
    <2> QED BY <1>1, <1>2, <2>1, <2>2 DEF SlotOK, Free
  <1>3. CASE \E c \in Commands : Slot(c)
    <2>1. PICK c \in Commands : Slot(c)
      BY <1>3
    <2>2. Slot(c)' /\ ret'.tag # "Submitted"
      BY <2>1, SlotSubmits
    <2> QED BY <1>1, <2>2 DEF SlotOK
  <1> QED BY <1>2, <1>3 DEF SlotOK

\* poll(): only a response frees the slot, and it had been taken.
LEMMA PollKeepsSlotOK ==
  ASSUME LinesInv, SlotOK, Polls
  PROVE  /\ SlotOK'
         /\ ret'.tag = "NeedTx" => AtWrite'
         /\ ret'.tag = "Response" => state # Idle /\ state' = Idle
         /\ ret'.tag # "Response" => (state' = Idle <=> state = Idle)
PROOF
  <1>1. CASE Free
    <2>1. Free' /\ ret'.tag \notin {"Response", "NeedTx"} /\ state' = state
      BY <1>1, FreePolls
    <2> QED BY <2>1 DEF SlotOK
  <1>2. CASE \E c \in Commands : Slot(c)
    <2>1. PICK c \in Commands : Slot(c)
      BY <1>2
    <2>2. \/ Slot(c)' /\ ret'.tag # "Response" /\ (ret'.tag = "NeedTx" => AtWrite')
          \/ Free' /\ ret'.tag = "Response"
      BY <2>1, SlotPolls
    <2>3. state # Idle /\ (Slot(c)' => state' # Idle)
      BY <2>1, StatesDiffer DEF Slot, Sending, Sent
    <2>4. Free' => state' = Idle
      BY DEF Free
    <2> QED BY <2>2, <2>3, <2>4 DEF SlotOK
  <1> QED BY <1>1, <1>2 DEF SlotOK

\* A final answer is one the method of its command takes: an error, an "+OK" or the
\* +READY of a reset, or the value asked for.
LEMMA AnswerMatches ==
  ASSUME NEW cmd \in Commands, NEW line, line # <<>>, line[1].key \in AnswerKeys(cmd) \ {"+RESET"}
  PROVE  \/ StartsWith(line, "+ERR=")
         \/ KindOf(cmd) = "Ack" /\ (StartsWith(line, "+OK") \/ StartsWith(line, "+READY"))
         \/ KindOf(cmd) # "Ack" /\ StartsWith(line, QueryPrefix[KindOf(cmd)])
PROOF
  <1>1. CASE cmd.op \in Queries
    <2>1. KindOf(cmd) = QueryOf[cmd.op] /\ ValueKey(cmd) = QueryPrefix[QueryOf[cmd.op]]
      BY <1>1 DEF KindOf, ValueKey
    <2>2. QueryOf[cmd.op] # "Ack" /\ cmd.op # "FactoryReset"
      BY <1>1 DEF Queries, QueryOf
    <2> QED BY <2>1, <2>2 DEF AnswerKeys, StartsWith
  <1>2. CASE cmd.op \notin Queries
    BY <1>2 DEF KindOf, ValueKey, AnswerKeys, StartsWith
  <1> QED BY <1>1, <1>2

\* All units that wait for the module are of the command that holds the slot.
LEMMA NothingBuried ==
  ASSUME RadioTypeOK, SlotOK
  PROVE  ~HalfIsBuried
PROOF
  <1>1. CASE Free
    <2>1. Len(to_radio) = 0
      BY <1>1 DEF Free
    <2> QED BY <2>1 DEF HalfIsBuried
  <1>2. CASE \E cmd \in Commands : Slot(cmd)
    <2>1. PICK cmd \in Commands : Slot(cmd)
      BY <1>2
    <2>2. \A i \in DOMAIN to_radio : to_radio[i] = cmd
      <3>1. \A i \in DOMAIN Encode(cmd) : Encode(cmd)[i] = cmd
        BY DEF Encode
      <3>2. DOMAIN <<>> = {}
        OBVIOUS
      <3> QED BY <2>1, <3>1, <3>2 DEF Slot, Sending, Sent, Waiting, Restarting, Executed
    <2>3. to_radio \in Seq(Commands) /\ DOMAIN to_radio = 1..Len(to_radio) /\ Len(to_radio) \in Nat
      <3>1. to_radio \in Seq(Commands)
        BY DEF RadioTypeOK
      <3> QED BY <3>1, LenProperties
    <2>4. \A n \in 1..(Len(to_radio) - 1) : to_radio[n + 1] = to_radio[1]
      <3>1. \A n \in 1..(Len(to_radio) - 1) : n + 1 \in DOMAIN to_radio /\ 1 \in DOMAIN to_radio
        BY <2>3
      <3> QED BY <2>2, <3>1
    <2> QED BY <2>4 DEF HalfIsBuried
  <1> QED BY <1>1, <1>2 DEF SlotOK

-----------------------------------------------------------------------------
(* What poll() leaves in rx, and what a read finds there                   *)

\* The first line of the stream, if rx holds all of it.
LEMMA WholeLineInRx ==
  ASSUME LinesInv, Len(rx) >= 3
  PROVE  HasLine(rx)
PROOF
  <1>1. /\ rx \in Seq(Token) /\ from_radio \in Seq(Token) /\ Framed(Unread)
        /\ Len(rx) \in Nat /\ Len(from_radio) \in Nat
    BY LenProperties DEF LinesInv, IndInv, TypeOK, RadioTypeOK
  <1>2. /\ Unread \in Seq(Token) /\ Len(Unread) = Len(rx) + Len(from_radio)
        /\ \A i \in 1..Len(rx) : Unread[i] = rx[i]
    BY <1>1, ConcatParts DEF Unread
  <1>3. Unread # <<>>
    BY <1>1, <1>2, EmptySeq
  <1>4. /\ Unread[1].key \in BodyKeys /\ IsCR(Unread[2]) /\ IsLF(Unread[3])
    BY <1>1, <1>2, <1>3, FramedHead
  <1>5. 1 \in 1..Len(rx) /\ 2 \in 1..Len(rx) /\ 3 \in 1..Len(rx)
    BY <1>1
  <1>6. ~IsCR(rx[1]) /\ IsCR(rx[2]) /\ IsLF(rx[3])
    BY <1>2, <1>4, <1>5, KeysDiffer
  <1>7. 2 \in 1..(Len(rx) - 1) /\ 1..(2 - 1) = {1} /\ 2 + 1 = 3
    BY <1>1
  <1>8. LineEnd(rx, 2)
    BY <1>6, <1>7 DEF LineEnd
  <1> QED BY <1>5, <1>8 DEF HasLine

\* A line of the module is an event, the echo of a reset, or answers the command
\* that holds the slot.
LEMMA LinesAreClaimed ==
  ASSUME LinesInv, SlotOK, Unread # <<>>, Unread[1].key \notin EventKeys,
         ~(awaiting_ready_as_ok /\ Unread[1].key = "+RESET")
  PROVE  /\ Unread[1].key \in ResponseKeys /\ state.tag = "Awaiting"
         /\ Unread[1].key = "+ERR=" \/ (state.kind = "Ack" /\ Unread[1].key = "+OK")
              \/ (state.kind \in QueryKey /\ Unread[1].key = QueryPrefix[state.kind])
PROOF
  <1> DEFINE h == Unread[1]
  <1>1. Framed(Unread) /\ Unread \in Seq(Token)
    BY ConcatParts DEF LinesInv, IndInv, TypeOK, RadioTypeOK, Unread
  <1>2. h.key \in BodyKeys /\ Len(Unread) >= 3
    BY <1>1, FramedHead
  <1>3. 1 \in DOMAIN Unread
    BY <1>1, <1>2, LenProperties
  <1>4. IsAnswer(h)
    BY <1>2 DEF IsAnswer, BodyKeys, ResponseKeys, EventKeys
  <1>5. ~NoAnswers(Unread)
    BY <1>3, <1>4 DEF NoAnswers
  <1>6. PICK cmd \in Commands : Slot(cmd)
    BY <1>5 DEF SlotOK, Free
  <1>7. state = Awaiting(KindOf(cmd)) /\ AnswersTo(cmd, Unread)
    BY <1>5, <1>6 DEF Slot, Sending, Sent, Waiting, Restarting, Executed
  <1>8. h.key \in AnswerKeys(cmd)
    BY <1>3, <1>4, <1>7 DEF AnswersTo
  <1>9. cmd.op # "FactoryReset"
    <2>1. awaiting_ready_as_ok = (cmd.op = "FactoryReset")
      BY <1>6 DEF Slot
    <2> QED BY <1>8, <2>1 DEF AnswerKeys, EventKeys
  <1>10. h.key \in {ValueKey(cmd), "+ERR="} /\ h.key \in ResponseKeys
    BY <1>8, <1>9, ValueKeyType DEF AnswerKeys, ResponseKeys
  <1>11. state.tag = "Awaiting" /\ state.kind = KindOf(cmd)
    BY <1>7 DEF Awaiting
  <1>12. CASE cmd.op \in Queries
    <2>1. KindOf(cmd) = QueryOf[cmd.op] /\ ValueKey(cmd) = QueryPrefix[QueryOf[cmd.op]]
      BY <1>12 DEF KindOf, ValueKey
    <2>2. QueryOf[cmd.op] \in QueryKey
      BY <1>12 DEF Queries, QueryOf, QueryKey, QueryPrefix
    <2> QED BY <1>10, <1>11, <2>1, <2>2
  <1>13. CASE cmd.op \notin Queries
    BY <1>10, <1>11, <1>13 DEF KindOf, ValueKey
  <1> QED BY <1>12, <1>13

\* poll() returns Idle when rx holds no whole line any more: a module that only
\* sends what is asked for leaves nothing there that nobody claims.
LEMMA IdleLeavesNoLine ==
  ASSUME LinesInv, SlotOK, Polls, ret'.tag = "Idle"
  PROVE  Len(rx') <= 2
PROOF
  <1>1. /\ rx \in Seq(Token) /\ from_radio \in Seq(Token) /\ Framed(Unread)
        /\ Unread \in Seq(Token) /\ Len(rx) \in Nat
    BY ConcatParts, LenProperties DEF LinesInv, IndInv, TypeOK, RadioTypeOK, Unread
  <1>2. PollRx
    BY DEF Polls, Poll, PollNeedTx, RetBytes
  <1>3. CASE PollNoLine
    BY <1>1, <1>3, WholeLineInRx DEF PollNoLine
  <1>4. ASSUME NEW r \in 1..Len(rx), LineEnd(rx, r),
               \/ PollPanic(r) \/ PollResetEcho(r) \/ PollReadyAsOk(r)
               \/ PollEvent(r) \/ PollResponse(r) \/ PollLeave(r)
        PROVE  FALSE
    <2> DEFINE h == Unread[1]
               line == LineTo(rx, r)
    <2>1. Unread # <<>> /\ line = <<h>>
      BY <1>1, <1>4, LineAtHead
    <2>2. h.key \in BodyKeys /\ h.ok
      BY <1>1, <2>1, FramedHead
    <2>3. /\ h.key \notin EventKeys /\ ~(awaiting_ready_as_ok /\ h.key = "+RESET")
          => /\ h.key \in ResponseKeys /\ state.tag = "Awaiting"
             /\ h.key = "+ERR=" \/ (state.kind = "Ack" /\ h.key = "+OK")
                  \/ (state.kind \in QueryKey /\ h.key = QueryPrefix[state.kind])
      BY <2>1, LinesAreClaimed
    <2> HIDE DEF h, line
    <2>4. line # <<>> /\ Len(line) = 1 /\ line[1] = h
      BY <2>1
    <2>5. \A key : StartsWith(line, key) <=> h.key = key
      BY <2>4 DEF StartsWith
    <2>6. \A key : Exactly(line, key) <=> h.key = key
      BY <2>2, <2>4 DEF Exactly
    <2>7. IsEventLine(line) <=> h.key \in EventKeys
      BY <2>5 DEF IsEventLine, EventKeys
    <2>8. IsResetEcho(line) <=> awaiting_ready_as_ok /\ h.key = "+RESET"
      BY <2>5 DEF IsResetEcho
    <2>9. ~IsEventLine(line) /\ ~IsResetEcho(line) => MatchesSlot(line) /\ ParsesAsResponse(line)
      BY <2>2, <2>3, <2>4, <2>5, <2>6, <2>7, <2>8 DEF MatchesSlot, ResponseMatches, ParsesAsResponse
    <2>10. ParsesAsEvent(line) <=> h.key \in EventKeys
      BY <2>2, <2>4 DEF ParsesAsEvent
    <2>11. ~PollPanic(r) /\ ~PollResetEcho(r) /\ ~PollReadyAsOk(r)
      BY DEF PollPanic, PollResetEcho, PollReadyAsOk, Ret, RetLine
    <2>12. ~PollEvent(r)
      BY <2>7, <2>10 DEF PollEvent, RetLine, line
    <2>13. ~PollResponse(r) /\ ~PollLeave(r)
      BY <2>9 DEF PollResponse, PollLeave, RetLine, line
    <2> QED BY <1>4, <2>11, <2>12, <2>13
  <1> QED BY <1>2, <1>3, <1>4 DEF PollRx

\* poll() takes from rx, and with a response a whole line: the slot was awaiting it.
LEMMA PollShortensRx ==
  ASSUME LinesInv, SlotOK, Polls
  PROVE  /\ Len(rx') <= Len(rx)
         /\ ret'.tag = "Response" => /\ Len(rx') + 3 = Len(rx)
                                     /\ state.tag = "Awaiting" /\ state' = Idle
PROOF
  <1>1. /\ TypeOK /\ rx \in Seq(Token) /\ from_radio \in Seq(Token) /\ Framed(Unread)
        /\ Unread \in Seq(Token) /\ Len(rx) \in Nat /\ Len(from_radio) \in Nat
    BY ConcatParts, LenProperties DEF LinesInv, IndInv, TypeOK, RadioTypeOK, Unread
  <1>2. CASE PollNeedTx
    BY <1>1, <1>2 DEF PollNeedTx, RetBytes
  <1>3. CASE PollRx
    <2>1. CASE rx' = rx
      <3>1. ret' \in {Ret("Idle"), Ret("Panic")}
        BY <1>1, <1>3, <2>1, PollRxEffect
      <3> QED BY <1>1, <2>1, <3>1 DEF Ret
    <2>2. CASE \E r \in 1..Len(rx) : LineEnd(rx, r) /\ rx' = Drained(rx, r)
      <3>1. PICK r \in 1..Len(rx) : LineEnd(rx, r) /\ rx' = Drained(rx, r)
        BY <2>2
      <3>2. r = 2 /\ Len(rx) >= 3
        <4>1. r = 2
          BY <1>1, <3>1, LineAtHead
        <4> QED BY <1>1, <3>1, <4>1 DEF LineEnd
      <3>3. rx' = SubSeq(rx, 4, Len(rx))
        BY <3>1, <3>2 DEF Drained
      <3>4. Len(rx') = Len(rx) - 3
        <4> DEFINE n == Len(rx)
        <4>1. 4 \in Nat \ {0} /\ n \in Nat /\ n <= Len(rx) /\ n >= 3
          BY <1>1, <3>2
        <4> HIDE DEF n
        <4>2. Len(SubSeq(rx, 4, n)) = IF 4 <= n THEN n - 4 + 1 ELSE 0
          BY <1>1, <4>1, PartOfSeq
        <4>3. Len(SubSeq(rx, 4, n)) = n - 3
          BY <4>1, <4>2
        <4> QED BY <3>3, <4>3 DEF n
      <3>5. Len(rx') <= Len(rx) /\ Len(rx') + 3 = Len(rx)
        BY <1>1, <3>4
      <3>6. ret'.tag = "Response" => state.tag = "Awaiting" /\ state' = Idle
        BY FreePolls, SlotPolls DEF SlotOK, Free, Awaiting
      <3> QED BY <3>5, <3>6
    <2> QED BY <1>1, <1>3, <2>1, <2>2, PollRxEffect
  <1> QED BY <1>2, <1>3 DEF Polls, Poll

\* Steps of a host that leave rx alone, and what the last call returned or put a
\* tag of their own in its place.
LEMMA OthersLeaveRx ==
  ASSUME \/ \E cmd \in Commands : Submits(cmd)
         \/ Writes \/ WritesPart \/ WritesAll \/ Hears \/ Rests
  PROVE  rx' = rx /\ (ret.tag # "RxOverflow" => ret'.tag # "RxOverflow")
PROOF
  <1>1. ASSUME NEW cmd \in Commands, Submits(cmd)
        PROVE  rx' = rx /\ ret'.tag # "RxOverflow"
    BY <1>1 DEF Submits, Submit, SubmitBusy, SubmitTxOverflow, SubmitAccepted, Ret, RetBytes
  <1>2. CASE Writes
    BY <1>2 DEF Writes, AckTx, Ret
  <1>3. CASE WritesPart \/ WritesAll \/ Hears \/ Rests
    BY <1>3 DEF WritesPart, WritesAll, Hears, Rests, vars
  <1> QED BY <1>1, <1>2, <1>3

\* Nor does poll() report an overflow.
LEMMA PollReportsNone ==
  ASSUME Polls
  PROVE  ret'.tag # "RxOverflow"
PROOF BY DEF Polls, Poll, PollNeedTx, PollRx, PollNoLine, PollPanic, PollResetEcho, PollReadyAsOk,
             PollEvent, PollResponse, PollLeave, Ret, RetLine, RetBytes

\* A read of n tokens that there is room for.
LEMMA ReadFits ==
  ASSUME LinesInv, NEW n \in Nat \ {0}, n <= Len(from_radio), Len(rx) + n <= RX_BUF,
         PushRx(SubSeq(from_radio, 1, n))
  PROVE  ret'.tag # "RxOverflow" /\ Len(rx') = Len(rx) + n
PROOF
  <1> DEFINE head == SubSeq(from_radio, 1, n)
  <1>1. /\ rx \in Seq(Token) /\ from_radio \in Seq(Token)
        /\ Len(rx) \in Nat /\ Len(from_radio) \in Nat /\ RX_BUF \in Nat
    BY CapacityAssumption, LenProperties DEF LinesInv, IndInv, TypeOK, RadioTypeOK
  <1>2. head \in Seq(Token) /\ Len(head) = n
    BY <1>1, PartOfSeq
  <1> HIDE DEF head
  <1>3. ~(Len(head) > RX_BUF - Len(rx))
    BY <1>1, <1>2
  <1>4. rx' = rx \o head /\ ret' = Ret("Pushed")
    BY <1>3 DEF PushRx, head
  <1>5. Len(rx \o head) = Len(rx) + n
    BY <1>1, <1>2, ConcatParts
  <1> QED BY <1>4, <1>5 DEF Ret

-----------------------------------------------------------------------------
(* What a write acknowledges                                               *)

\* poll() hands out all of tx behind what it handed out before.
LEMMA PollHandsOutTx ==
  ASSUME IndInv, Polls
  PROVE  IF ret'.tag = "NeedTx"
           THEN tx_in_flight = 0 => tx_in_flight' <= Len(ret'.bytes)
           ELSE tx_in_flight' = tx_in_flight
PROOF
  <1>1. TypeOK /\ tx \in Seq(Commands) /\ Len(tx) \in Nat
    BY LenProperties DEF IndInv, TypeOK
  <1>2. CASE PollNeedTx
    <2>1. /\ ret' = RetBytes("NeedTx", SubSeq(tx, tx_in_flight + 1, Len(tx)))
          /\ tx_in_flight' = Len(tx)
      BY <1>2 DEF PollNeedTx
    <2>2. ASSUME tx_in_flight = 0 PROVE ret'.bytes = tx
      <3>1. SubSeq(tx, 0 + 1, Len(tx)) = tx
        BY <1>1, SubSeqFull
      <3> QED BY <2>1, <2>2, <3>1 DEF RetBytes
    <2> QED BY <1>1, <2>1, <2>2 DEF RetBytes
  <1>3. CASE PollRx
    BY <1>1, <1>3, PollRxEffect, PollRxTag
  <1> QED BY <1>2, <1>3 DEF Polls, Poll

\* Once all of it is written, and acknowledged, nothing is in flight.
LEMMA WritesAckAll ==
  ASSUME IndInv, Writes, tx_in_flight <= Len(ret.bytes)
  PROVE  tx_in_flight' = 0
PROOF
  <1>1. /\ tx_in_flight \in Nat /\ Len(ret.bytes) \in Nat
        /\ tx_in_flight' = tx_in_flight - Clamp(Len(ret.bytes))
    BY LenProperties DEF IndInv, TypeOK, Writes, AckTx
  <1>2. Clamp(Len(ret.bytes)) = tx_in_flight
    BY <1>1 DEF Clamp
  <1> QED BY <1>1, <1>2

\* No other step moves what is in flight.
LEMMA OthersKeepInFlight ==
  ASSUME \/ \E cmd \in Commands : Submits(cmd)
         \/ Reads \/ WritesPart \/ WritesAll \/ Hears \/ Rests
  PROVE  tx_in_flight' = tx_in_flight
PROOF
  <1>1. ASSUME NEW cmd \in Commands, Submits(cmd) PROVE tx_in_flight' = tx_in_flight
    BY <1>1 DEF Submits, Submit, SubmitBusy, SubmitTxOverflow, SubmitAccepted
  <1> QED BY <1>1 DEF Reads, PushRx, WritesPart, WritesAll, Hears, Rests, vars
=============================================================================
