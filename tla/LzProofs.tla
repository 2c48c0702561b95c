------------------------------- MODULE LzProofs ------------------------------
(***************************************************************************)
(* What TLAPS proves of the codec, for every width of a token, every block *)
(* and every string of bytes, every window and every hash.                 *)
(***************************************************************************)
EXTENDS LzLite, NatLemmas

-----------------------------------------------------------------------------
(* Numbers. *)
LEMMA Remainder == ASSUME NEW a \in Nat, NEW n \in Nat \ {0} PROVE a % n \in 0 .. n - 1
OBVIOUS

LEMMA Quotient ==
  ASSUME NEW a \in Nat, NEW n \in Nat \ {0}
  PROVE  a \div n \in Nat /\ a = n * (a \div n) + (a % n)
OBVIOUS

LEMMA QuotientBelow == ASSUME NEW a \in Nat, NEW n \in Nat \ {0}, a < n * n PROVE a \div n < n
OBVIOUS

LEMMA TwoDigits ==
  ASSUME NEW n \in Nat \ {0}, NEW a \in 0 .. n - 1, NEW b \in 0 .. n - 1
  PROVE  /\ a * n + b \in 0 .. n * n - 1
         /\ (a * n + b) \div n = a
         /\ (a * n + b) % n = b
OBVIOUS

LEMMA Below == ASSUME NEW n \in Nat \ {0}, NEW a \in Nat, a < n PROVE a % n = a
OBVIOUS

LEMMA LastDigit ==
  ASSUME NEW n \in Nat \ {0}, NEW a \in Nat, NEW b \in 0 .. n - 1
  PROVE  (n * a + b) % n = b
OBVIOUS

LEMMA QuotientOf ==
  ASSUME NEW n \in Nat \ {0}, NEW a \in Nat, NEW b \in 0 .. n - 1
  PROVE  n * a + b \in Nat /\ (n * a + b) \div n = a /\ (n * a + b) % n = b
OBVIOUS

LEMMA Shifted == ASSUME NEW n \in Nat \ {0}, NEW a \in Nat, a >= n PROVE (a - n) % n = a % n
<1> DEFINE q == a \div n
           r == a % n
<1>1. q \in Nat /\ a = n * q + r /\ r \in 0 .. n - 1
  BY Quotient, Remainder
<1> HIDE DEF q, r
<1>2. q # 0
  BY <1>1
<1>3. q - 1 \in Nat /\ n * (q - 1) + r = a - n
  BY <1>1, <1>2
<1>4. (n * (q - 1) + r) % n = r
  BY <1>1, <1>3, LastDigit
<1> QED
  BY <1>3, <1>4 DEF r

LEMMA Product == ASSUME NEW a \in Nat, NEW b \in Nat PROVE a * b \in Nat
OBVIOUS

LEMMA Bases ==
  /\ TokenBase \in Nat \ {0} /\ Nibble \in Nat /\ Nibble = TokenBase - 1 /\ Nibble > 0
  /\ ByteBase \in Nat \ {0} /\ ByteBase = TokenBase * TokenBase
  /\ ByteMax \in Nat \ {0} /\ ByteMax = ByteBase - 1
  /\ MaxOffset = ByteBase * ByteBase - 1 /\ MaxOffset \in Nat
  /\ Byte = 0 .. ByteBase - 1 /\ Byte \subseteq Nat
<1>1. TokenBase * TokenBase > TokenBase
  BY TokenBaseAssumption
<1>2. ByteBase \in Nat \ {0} /\ ByteBase > 1
  BY <1>1, TokenBaseAssumption DEF ByteBase
<1>3. ByteBase * ByteBase > 1
  BY <1>2
<1> QED
  BY <1>1, <1>2, <1>3, TokenBaseAssumption DEF Nibble, ByteBase, ByteMax, MaxOffset, Byte

-----------------------------------------------------------------------------
(* Slices. *)
LEMMA SliceIs ==
  ASSUME NEW S, NEW d \in Seq(S), NEW a \in Nat, NEW b \in Nat, a <= b, b <= Len(d)
  PROVE  /\ SubSeq(d, a + 1, b) \in Seq(S)
         /\ Len(SubSeq(d, a + 1, b)) = b - a
         /\ \A i \in 1 .. b - a : SubSeq(d, a + 1, b)[i] = d[a + i]
OBVIOUS

(* s stands in d after its first a elements. *)
Stands(d, a, s) == a + Len(s) <= Len(d) /\ \A i \in 1 .. Len(s) : d[a + i] = s[i]

LEMMA StandsCut ==
  ASSUME NEW S, NEW d \in Seq(S), NEW a \in Nat, NEW s \in Seq(S), NEW t \in Seq(S), Stands(d, a, s \o t)
  PROVE  /\ Stands(d, a, s) /\ Stands(d, a + Len(s), t)
         /\ a + Len(s \o t) = (a + Len(s)) + Len(t)
<1>1. Len(s) \in Nat /\ Len(t) \in Nat /\ Len(d) \in Nat /\ Len(s \o t) = Len(s) + Len(t)
  OBVIOUS
<1>2. a + Len(s) <= Len(d) /\ (a + Len(s)) + Len(t) <= Len(d)
  BY <1>1 DEF Stands
<1>3. ASSUME NEW i \in 1 .. Len(s) PROVE d[a + i] = s[i]
  <2>1. i \in 1 .. Len(s \o t) /\ (s \o t)[i] = s[i]
    BY <1>1
  <2> QED
    BY <2>1 DEF Stands
<1>4. ASSUME NEW i \in 1 .. Len(t) PROVE d[(a + Len(s)) + i] = t[i]
  <2>1. Len(s) + i \in 1 .. Len(s \o t) /\ (s \o t)[Len(s) + i] = t[i] /\ a + (Len(s) + i) = (a + Len(s)) + i
    BY <1>1
  <2> QED
    BY <2>1 DEF Stands
<1>5. a + Len(s \o t) = (a + Len(s)) + Len(t)
  BY <1>1
<1> QED
  BY <1>2, <1>3, <1>4, <1>5 DEF Stands

LEMMA StandsStill ==
  ASSUME NEW S, NEW d \in Seq(S), NEW e \in Seq(S), NEW a \in Nat, NEW s \in Seq(S), Stands(d, a, s)
  PROVE  Stands(d \o e, a, s)
<1>1. Len(s) \in Nat /\ Len(d) \in Nat /\ Len(e) \in Nat /\ Len(d \o e) = Len(d) + Len(e)
  OBVIOUS
<1>2. ASSUME NEW i \in 1 .. Len(s) PROVE (d \o e)[a + i] = s[i]
  <2>1. a + i \in 1 .. Len(d) /\ d[a + i] = s[i]
    BY <1>1 DEF Stands
  <2>2. (d \o e)[a + i] = d[a + i]
    BY <2>1
  <2> QED
    BY <2>1, <2>2
<1> QED
  BY <1>1, <1>2 DEF Stands

LEMMA StandsLast ==
  ASSUME NEW S, NEW d \in Seq(S), NEW e \in Seq(S)
  PROVE  Stands(d \o e, Len(d), e)
BY DEF Stands

LEMMA Regroup ==
  ASSUME NEW S, NEW r \in Seq(S), NEW s \in Seq(S), NEW t \in Seq(S), NEW u \in Seq(S)
  PROVE  r \o s \o t \o u = r \o (s \o (t \o u)) /\ r \o s \o t \o u \in Seq(S)
<1>1. s \o t \in Seq(S) /\ t \o u \in Seq(S) /\ r \o s \in Seq(S)
  OBVIOUS
<1>2. (r \o s) \o t = r \o (s \o t) /\ (s \o t) \o u = s \o (t \o u)
  BY SMTT(30)
<1>3. (r \o (s \o t)) \o u = r \o ((s \o t) \o u)
  BY <1>1, SMTT(30)
<1> QED
  BY <1>1, <1>2, <1>3

-----------------------------------------------------------------------------
(* What appendLength and emitSequence append. *)
LEMMA LengthBytesAre ==
  ASSUME NEW v \in Nat
  PROVE  /\ LengthBytes(v) \in Seq(Byte)
         /\ Len(LengthBytes(v)) = v \div ByteMax + 1
         /\ \A i \in 1 .. v \div ByteMax : LengthBytes(v)[i] = ByteMax
         /\ LengthBytes(v)[v \div ByteMax + 1] = v % ByteMax
         /\ v \div ByteMax \in Nat /\ v % ByteMax \in 0 .. ByteMax - 1
         /\ v = ByteMax * (v \div ByteMax) + (v % ByteMax)
<1>1. v \div ByteMax \in Nat /\ v = ByteMax * (v \div ByteMax) + (v % ByteMax)
  <2>1. ByteMax \in Nat \ {0}
    BY Bases
  <2> QED
    BY <2>1, Quotient
<1>2. v % ByteMax \in 0 .. ByteMax - 1
  BY Bases, Remainder
<1>3. ByteMax \in Byte /\ v % ByteMax \in Byte
  BY <1>2, Bases
<1> QED
  BY <1>1, <1>2, <1>3 DEF LengthBytes

LEMMA PastTokenIs == ASSUME NEW n \in Nat PROVE PastToken(n) \in Seq(Byte)
<1>1. <<>> \in Seq(Byte)
  OBVIOUS
<1>2. n >= Nibble => n - Nibble \in Nat
  BY Bases
<1>3. n >= Nibble => LengthBytes(n - Nibble) \in Seq(Byte)
  BY <1>2, LengthBytesAre
<1>4. n < Nibble \/ n >= Nibble
  BY Bases
<1> QED
  BY <1>1, <1>3, <1>4 DEF PastToken

LEMMA InTokenIs == ASSUME NEW n \in Nat PROVE InToken(n) \in 0 .. TokenBase - 1
BY Bases DEF InToken

(* The parts of an emission: the token, the length of the literals, the    *)
(* literals, and the match.                                                *)
Coded(match)         == IF match = 0 THEN 0 ELSE match - kMinMatch
Token(n, match)      == InToken(n) * TokenBase + InToken(Coded(match))
MatchPart(off, match) ==
  IF match = 0 THEN <<>>
  ELSE <<off % ByteBase, (off \div ByteBase) % ByteBase>> \o PastToken(Coded(match))

LEMMA EmissionIs ==
  ASSUME NEW literals \in Seq(Byte), NEW offset \in Nat, NEW match \in Nat,
         match = 0 \/ match >= kMinMatch
  PROVE  /\ EmitSequence(literals, offset, match) =
              <<Token(Len(literals), match)>>
                \o (PastToken(Len(literals)) \o (literals \o MatchPart(offset, match)))
         /\ EmitSequence(literals, offset, match) \in Seq(Byte)
         /\ Coded(match) \in Nat
         /\ Token(Len(literals), match) \in Byte
         /\ PastToken(Len(literals)) \in Seq(Byte)
         /\ MatchPart(offset, match) \in Seq(Byte)
<1>1. Coded(match) \in Nat
  BY DEF Coded, kMinMatch
<1>2. Token(Len(literals), match) \in Byte
  <2>1. InToken(Len(literals)) \in 0 .. TokenBase - 1 /\ InToken(Coded(match)) \in 0 .. TokenBase - 1
    BY <1>1, InTokenIs
  <2>2. TokenBase \in Nat \ {0}
    BY Bases
  <2>3. Token(Len(literals), match) \in 0 .. TokenBase * TokenBase - 1
    BY <2>1, <2>2, TwoDigits DEF Token
  <2> QED
    BY <2>3, Bases
<1>3. PastToken(Len(literals)) \in Seq(Byte) /\ PastToken(Coded(match)) \in Seq(Byte)
  BY <1>1, PastTokenIs
<1>4. MatchPart(offset, match) \in Seq(Byte)
  <2>1. offset % ByteBase \in Byte /\ (offset \div ByteBase) % ByteBase \in Byte
    BY Bases, Quotient, Remainder
  <2>2. <<offset % ByteBase, (offset \div ByteBase) % ByteBase>> \in Seq(Byte)
    BY <2>1
  <2> QED
    BY <1>3, <2>2 DEF MatchPart
<1>5. EmitSequence(literals, offset, match) =
        <<Token(Len(literals), match)>> \o PastToken(Len(literals)) \o literals \o MatchPart(offset, match)
  BY DEF EmitSequence, Token, Coded, MatchPart
<1>6. <<Token(Len(literals), match)>> \in Seq(Byte)
  BY <1>2
<1> DEFINE head == <<Token(Len(literals), match)>>
           past == PastToken(Len(literals))
           rest == MatchPart(offset, match)
<1>7. head \in Seq(Byte) /\ past \in Seq(Byte) /\ rest \in Seq(Byte)
  BY <1>3, <1>4, <1>6
<1>8. EmitSequence(literals, offset, match) = head \o past \o literals \o rest
  BY <1>5
<1> HIDE DEF head, past, rest
<1>9. head \o past \o literals \o rest = head \o (past \o (literals \o rest))
      /\ head \o past \o literals \o rest \in Seq(Byte)
  BY <1>7, Regroup
<1>10. /\ EmitSequence(literals, offset, match) = head \o (past \o (literals \o rest))
       /\ EmitSequence(literals, offset, match) \in Seq(Byte)
  BY <1>8, <1>9
<1> QED
  BY <1>1, <1>2, <1>3, <1>4, <1>10 DEF head, past, rest

-----------------------------------------------------------------------------
(* The compressor stays inside its block and its table. *)
Given ==
  /\ input \in Seq(Byte)
  /\ windowSize \in Nat
  /\ hash \in [[1 .. kMinMatch -> Byte] -> Slots]

CompressType ==
  /\ Given
  /\ table \in [Slots -> -1 .. Size]
  /\ anchor \in 0 .. index
  /\ index \in 0 .. Size
  /\ output \in Seq(Byte)
  /\ error \in {"none", "Ok", "NoMemory"}

LEMMA SizeIs == ASSUME Given PROVE Size \in Nat
BY DEF Given, Size

LEMMA SlotIs ==
  ASSUME Given, NEW i \in Nat, InTriple(i)
  PROVE  Slot(i) \in Slots /\ \A k \in 1 .. kMinMatch : Triple(i)[k] = input[i + k]
<1>1. Size \in Nat /\ i + kMinMatch \in Nat /\ i + kMinMatch <= Size /\ Size = Len(input)
  BY SizeIs DEF InTriple, kMinMatch, Size
<1>2. i <= i + kMinMatch /\ (i + kMinMatch) - i = kMinMatch
  BY DEF kMinMatch
<1>3. /\ Triple(i) \in Seq(Byte) /\ Len(Triple(i)) = kMinMatch
      /\ \A k \in 1 .. kMinMatch : Triple(i)[k] = input[i + k]
  <2> DEFINE b == i + kMinMatch
  <2>1. b \in Nat /\ i <= b /\ b <= Len(input) /\ b - i = kMinMatch
    BY <1>1, <1>2
  <2> HIDE DEF b
  <2>2. /\ SubSeq(input, i + 1, b) \in Seq(Byte) /\ Len(SubSeq(input, i + 1, b)) = kMinMatch
        /\ \A k \in 1 .. kMinMatch : SubSeq(input, i + 1, b)[k] = input[i + k]
    BY <2>1, SliceIs DEF Given
  <2> QED
    BY <2>2 DEF Triple, b
<1>4. Triple(i) \in [1 .. kMinMatch -> Byte]
  BY <1>3, LenProperties
<1> QED
  BY <1>3, <1>4 DEF Given, Slot

LEMMA EnteredIs ==
  ASSUME CompressType, NEW length \in Nat
  PROVE  Entered(length) \in [Slots -> -1 .. Size]
<1> SUFFICES ASSUME NEW s \in Slots PROVE Entered(length)[s] \in -1 .. Size
  BY DEF Entered
<1> DEFINE here == {i \in index .. index + length - 1 : InTriple(i) /\ Slot(i) = s}
           last == CHOOSE i \in here : \A j \in here : j <= i
<1>1. Entered(length)[s] = IF here = {} THEN table[s] ELSE last
  BY DEF Entered
<1>2. CASE here = {}
  BY <1>1, <1>2 DEF CompressType
<1>3. CASE here # {}
  <2>1. Size \in Nat /\ index \in Nat
    BY SizeIs DEF CompressType
  <2>2. here \subseteq 0 .. Size
    BY <2>1 DEF InTriple, kMinMatch
  <2> DEFINE Left == {Size - i : i \in here}
  <2>3. Left \subseteq Nat /\ Left # {}
    BY <1>3, <2>1, <2>2
  <2>4. PICK x \in Left : \A y \in Left : x <= y
    <3> HIDE DEF Left
    <3> QED
      BY <2>3, LeastElement
  <2>5. PICK i \in here : x = Size - i
    OBVIOUS
  <2>6. \A j \in here : j <= i
    <3>1. \A j \in here : Size - i <= Size - j
      BY <2>4, <2>5
    <3> HIDE DEF here
    <3> QED
      BY <2>1, <2>2, <2>5, <3>1
  <2>7. last \in here
    <3> HIDE DEF here
    <3> QED
      BY <2>5, <2>6
  <2> HIDE DEF here, last
  <2> QED
    BY <1>1, <1>3, <2>1, <2>2, <2>7
<1> QED
  BY <1>2, <1>3

(* computeMatchLength: as far as the bytes agree. *)
LEMMA MatchLengthIs ==
  ASSUME CompressType, NEW candidate \in Nat
  PROVE  /\ MatchLength(candidate) \in 0 .. Size - index
         /\ \A k \in 1 .. MatchLength(candidate) : input[candidate + k] = input[index + k]
         /\ index + MatchLength(candidate) < Size =>
              input[candidate + MatchLength(candidate) + 1] # input[index + MatchLength(candidate) + 1]
<1>1. Size \in Nat /\ index \in Nat /\ index <= Size
  BY SizeIs DEF CompressType
<1> DEFINE Stops == {n \in 0 .. Size - index :
                       index + n < Size => input[candidate + n + 1] # input[index + n + 1]}
           IsLength(n) == /\ \A k \in 1 .. n : input[candidate + k] = input[index + k]
                          /\ index + n < Size => input[candidate + n + 1] # input[index + n + 1]
<1>2. Stops \subseteq Nat /\ Stops # {}
  <2>1. Size - index \in Stops
    BY <1>1
  <2> QED
    BY <1>1, <2>1
<1>3. PICK n \in Stops : \A m \in Stops : n <= m
  <2> HIDE DEF Stops
  <2> QED
    BY <1>2, LeastElement
<1>4. ASSUME NEW k \in 1 .. n PROVE input[candidate + k] = input[index + k]
  <2>1. k - 1 \in 0 .. Size - index /\ ~(n <= k - 1) /\ index + (k - 1) < Size
    BY <1>1
  <2>2. k - 1 \notin Stops
    <3> HIDE DEF Stops
    <3> QED
      BY <1>3, <2>1
  <2>3. input[candidate + (k - 1) + 1] = input[index + (k - 1) + 1]
    BY <2>1, <2>2
  <2>4. candidate + (k - 1) + 1 = candidate + k /\ index + (k - 1) + 1 = index + k
    BY <1>1
  <2> QED
    BY <2>3, <2>4
<1>5. n \in 0 .. Size - index /\ IsLength(n)
  BY <1>3, <1>4
<1>6. MatchLength(candidate) = CHOOSE m \in 0 .. Size - index : IsLength(m)
  BY DEF MatchLength
<1> HIDE DEF IsLength
<1>7. MatchLength(candidate) \in 0 .. Size - index /\ IsLength(MatchLength(candidate))
  BY <1>5, <1>6
<1> QED
  BY <1>7 DEF IsLength

(* What is taken is a match, long enough and near enough to be emitted. *)
LEMMA UsableIs ==
  ASSUME CompressType, InTriple(index), NEW candidate, candidate \in -1 .. Size, Usable(candidate)
  PROVE  /\ candidate \in Nat /\ candidate < index
         /\ index - candidate \in 1 .. index /\ index - candidate <= MaxOffset
         /\ MatchLength(candidate) \in kMinMatch .. Size - index
         /\ \A k \in 1 .. MatchLength(candidate) : input[candidate + k] = input[index + k]
<1>1. Size \in Nat /\ index \in Nat /\ index + kMinMatch <= Size
  BY SizeIs DEF CompressType, InTriple
<1>2. candidate \in Nat /\ candidate < index /\ index - candidate <= MaxOffset
      /\ Triple(candidate) = Triple(index) /\ index - candidate \in 1 .. index
  BY <1>1 DEF Usable
<1>3. InTriple(candidate)
  BY <1>1, <1>2 DEF InTriple, kMinMatch
<1>4. \A k \in 1 .. kMinMatch : input[candidate + k] = input[index + k]
  BY <1>1, <1>2, <1>3, SlotIs DEF CompressType
<1> DEFINE n == MatchLength(candidate)
<1>5. /\ n \in 0 .. Size - index
      /\ \A k \in 1 .. n : input[candidate + k] = input[index + k]
      /\ index + n < Size => input[candidate + n + 1] # input[index + n + 1]
  BY <1>2, MatchLengthIs
<1> HIDE DEF n
<1>6. n >= kMinMatch
  <2> SUFFICES ASSUME n < kMinMatch PROVE FALSE
    BY <1>5 DEF kMinMatch
  <2>1. n + 1 \in 1 .. kMinMatch /\ index + n < Size
    BY <1>1, <1>5 DEF kMinMatch
  <2>2. input[candidate + (n + 1)] = input[index + (n + 1)]
    BY <1>4, <2>1
  <2>3. candidate + (n + 1) = candidate + n + 1 /\ index + (n + 1) = index + n + 1
    BY <1>1, <1>2, <1>5
  <2> QED
    BY <1>5, <2>1, <2>2, <2>3
<1> QED
  BY <1>2, <1>5, <1>6 DEF n, kMinMatch

LEMMA LiteralsAre ==
  ASSUME Given, NEW a \in Nat, NEW b \in Nat, a <= b, b <= Size
  PROVE  SubSeq(input, a + 1, b) \in Seq(Byte) /\ Len(SubSeq(input, a + 1, b)) = b - a
BY SliceIs DEF Given, Size

LEMMA NextCompressType == ASSUME CompressType, CompressNext PROVE CompressType'
<1>1. Size \in Nat /\ index \in Nat /\ anchor \in Nat /\ index <= Size /\ anchor <= index
  BY SizeIs DEF CompressType
<1>2. given' = given /\ Size' = Size
  BY DEF CompressNext, Advance, TakeMatch, CompressTail, CompressNoMemory, given, Size
<1>3. Given'
  BY <1>2 DEF CompressType, Given, given
<1>4. CASE Advance
  <2>1. table' \in [Slots -> -1 .. Size]
    BY <1>4, EnteredIs DEF Advance
  <2>2. index' \in 0 .. Size /\ anchor' \in 0 .. index'
    BY <1>1, <1>4 DEF Advance, InTriple, kMinMatch
  <2> QED
    BY <1>2, <1>3, <1>4, <2>1, <2>2 DEF Advance, CompressType
<1>5. CASE TakeMatch
  <2> DEFINE candidate == table[Slot(index)]
             length == MatchLength(candidate)
  <2>1. candidate \in -1 .. Size /\ InTriple(index) /\ Usable(candidate)
    BY <1>1, <1>5, SlotIs DEF TakeMatch, CompressType
  <2>2. candidate \in Nat /\ candidate < index /\ length \in kMinMatch .. Size - index
    BY <2>1, UsableIs
  <2>3. length \in Nat /\ length >= kMinMatch /\ index + length \in 0 .. Size /\ index - candidate \in Nat
    BY <1>1, <2>2 DEF kMinMatch
  <2>4. Literals \in Seq(Byte)
    BY <1>1, LiteralsAre DEF Literals, CompressType
  <2>5. /\ output' = output \o EmitSequence(Literals, index - candidate, length)
        /\ table' = Entered(length)
        /\ index' = index + length
        /\ anchor' = index + length
        /\ error' = error
    BY <1>5 DEF TakeMatch
  <2> HIDE DEF candidate, length
  <2>6. output' \in Seq(Byte)
    <3>1. EmitSequence(Literals, index - candidate, length) \in Seq(Byte)
      BY <2>3, <2>4, EmissionIs
    <3> QED
      BY <2>5, <3>1 DEF CompressType
  <2>7. table' \in [Slots -> -1 .. Size]
    BY <2>3, <2>5, EnteredIs
  <2>8. index' \in 0 .. Size' /\ anchor' \in 0 .. index'
    BY <1>2, <2>3, <2>5
  <2>9. error' \in {"none", "Ok", "NoMemory"}
    BY <2>5 DEF CompressType
  <2> QED
    BY <1>2, <1>3, <2>6, <2>7, <2>8, <2>9 DEF CompressType
<1>6. CASE CompressTail
  <2>1. EmitSequence(SubSeq(input, anchor + 1, Size), 0, 0) \in Seq(Byte) /\ <<>> \in Seq(Byte)
    <3>1. SubSeq(input, anchor + 1, Size) \in Seq(Byte)
      <4>1. anchor <= Size /\ Size <= Size /\ Given
        BY <1>1 DEF CompressType
      <4> QED
        BY <1>1, <4>1, LiteralsAre
    <3>2. 0 \in Nat /\ (0 = 0 \/ 0 >= kMinMatch) /\ <<>> \in Seq(Byte)
      OBVIOUS
    <3> QED
      BY <3>1, <3>2, EmissionIs
  <2>2. output' \in Seq(Byte)
    BY <1>6, <2>1 DEF CompressTail, CompressType
  <2> QED
    BY <1>2, <1>3, <1>6, <2>2 DEF CompressTail, CompressType
<1>7. CASE CompressNoMemory
  BY <1>2, <1>3, <1>7 DEF CompressNoMemory, CompressType
<1> QED
  BY <1>4, <1>5, <1>6, <1>7 DEF CompressNext

-----------------------------------------------------------------------------
(* The decoder stays inside the bytes it is given and the output it was    *)
(* promised, whatever the bytes are, and what it wrote is a byte of the    *)
(* block or of the output before.                                          *)
DecompressType ==
  /\ data \in Seq(Byte)
  /\ expected \in Nat
  /\ Decoder!DecompressTypeOK

Filled == \A i \in 1 .. outputOffset : buffer[i] \in Byte

DecoderInv ==
  /\ DecompressType
  /\ Filled
  /\ status = "Ok" => outputOffset = expected

LEMMA SameFormat ==
  /\ Decoder!Nibble = Nibble /\ Decoder!kMinMatch = kMinMatch
  /\ Decoder!ByteBase = ByteBase /\ Decoder!ByteMax = ByteMax /\ Decoder!Byte = Byte
BY DEF Decoder!Nibble, Nibble, Decoder!kMinMatch, kMinMatch, Decoder!ByteBase, ByteBase,
       Decoder!ByteMax, ByteMax, Decoder!Byte, Byte

(* readExtendedLength and the test before it. *)
LEMMA LengthRead ==
  ASSUME NEW half \in 0 .. Nibble, NEW from \in 0 .. Len(data), NEW least \in Nat, data \in Seq(Byte),
         Decoder!ReadLength(half, from, least).ok
  PROVE  /\ Decoder!ReadLength(half, from, least).next \in from .. Len(data)
         /\ Decoder!ReadLength(half, from, least).value \in Nat
         /\ Decoder!ReadLength(half, from, least).value >= least
<1> DEFINE run == Decoder!ReadLength(half, from, least)
           value == least + half
           ends == {k \in from + 1 .. Len(data) : data[k] # ByteMax}
           last == CHOOSE k \in ends : \A j \in ends : k <= j
<1>1. half \in Nat /\ from \in Nat /\ Len(data) \in Nat /\ value \in Nat /\ value >= least
  BY Bases
<1>2. CASE half # Nibble
  <2>1. run.next = from /\ run.value = value
    BY <1>2, SameFormat DEF Decoder!ReadLength
  <2> QED
    BY <1>1, <2>1
<1>3. CASE half = Nibble
  <2>1. run = Decoder!ReadExtendedLength(from, value)
    BY <1>3, SameFormat DEF Decoder!ReadLength
  <2>2. ends # {}
    BY <2>1, SameFormat DEF Decoder!ReadExtendedLength, Decoder!Bad
  <2>3. run.next = last /\ run.value = value + ByteMax * (last - from - 1) + data[last]
    <3>1. Decoder!ReadExtendedLength(from, value) =
            IF ends = {} THEN Decoder!Bad
            ELSE [ok |-> TRUE, next |-> last, value |-> value + ByteMax * (last - from - 1) + data[last]]
      BY SameFormat, Zenon DEF Decoder!ReadExtendedLength
    <3> HIDE DEF last, ends, value
    <3> QED
      BY <2>1, <2>2, <3>1
  <2>4. last \in ends
    <3>1. ends \subseteq Nat
      BY <1>1
    <3> HIDE DEF ends
    <3>2. \E k \in ends : \A j \in ends : k <= j
      BY <2>2, <3>1, LeastElement
    <3> QED
      BY <3>2
  <2> HIDE DEF last, value
  <2>5. last \in from + 1 .. Len(data) /\ last - from - 1 \in Nat /\ data[last] \in Nat
    BY <1>1, <2>4, Bases
  <2>6. ByteMax * (last - from - 1) \in Nat
    BY <2>5, Bases, Product
  <2> HIDE DEF run
  <2>7. run.next \in from .. Len(data)
    BY <1>1, <2>3, <2>5
  <2>8. run.value \in Nat /\ run.value >= least
    BY <1>1, <2>3, <2>5, <2>6
  <2> QED
    BY <2>7, <2>8 DEF run
<1> QED
  BY <1>2, <1>3

LEMMA Halves ==
  ASSUME NEW t \in Byte
  PROVE  t \div TokenBase \in 0 .. Nibble /\ t % TokenBase \in 0 .. Nibble
<1>1. t \in Nat /\ TokenBase \in Nat \ {0} /\ t < TokenBase * TokenBase
  BY Bases
<1>2. t \div TokenBase \in Nat /\ t \div TokenBase < TokenBase
  BY <1>1, Quotient, QuotientBelow
<1>3. t % TokenBase \in 0 .. TokenBase - 1
  BY <1>1, Remainder
<1> QED
  BY <1>1, <1>2, <1>3, Bases

LEMMA NextDecoderInv == ASSUME DecoderInv, Decoder!DecompressNext PROVE DecoderInv'
<1>1. /\ data \in Seq(Byte) /\ Len(data) \in Nat /\ expected \in Nat
      /\ inputOffset \in 0 .. Len(data) /\ outputOffset \in 0 .. expected
      /\ buffer \in [1 .. expected -> Byte \cup {Stale}]
      /\ token \in Byte
      /\ \A i \in 1 .. outputOffset : buffer[i] \in Byte
      /\ status = "Ok" => outputOffset = expected
  <2>1. data \in Seq(Byte)
    BY DEF DecoderInv, DecompressType
  <2>2. Len(data) \in Nat
    BY <2>1
  <2> QED
    BY <2>1, <2>2, SameFormat DEF DecoderInv, DecompressType, Filled, Decoder!DecompressTypeOK
<1>2. data' = data /\ expected' = expected /\ Len(data') = Len(data)
  BY DEF Decoder!DecompressNext, Decoder!DecompressNoMemory, Decoder!DecompressEnd,
         Decoder!ReadLiterals, Decoder!ReadMatch, Decoder!block
<1>3. ASSUME inputOffset' \in 0 .. Len(data), outputOffset' \in 0 .. expected,
             buffer' \in [1 .. expected -> Byte \cup {Stale}],
             token' \in Byte,
             status' \in {"Ok", "CorruptData", "NoMemory", "token", "match"},
             \A i \in 1 .. outputOffset' : buffer'[i] \in Byte,
             status' = "Ok" => outputOffset' = expected
      PROVE  DecoderInv'
  BY <1>1, <1>2, <1>3, SameFormat
  DEF DecoderInv, DecompressType, Filled, Decoder!DecompressTypeOK, Decoder!Returned
<1>4. CASE Decoder!DecompressNoMemory
  BY <1>1, <1>3, <1>4 DEF Decoder!DecompressNoMemory, Decoder!Return
<1>5. CASE Decoder!DecompressEnd
  BY <1>1, <1>3, <1>5 DEF Decoder!DecompressEnd, Decoder!Return
<1>6. CASE Decoder!ReadLiterals
  <2> DEFINE t == data[inputOffset + 1]
             half == t \div TokenBase
             run == Decoder!ReadLength(half, inputOffset + 1, 0)
             to == run.next + run.value
             fails == ~run.ok \/ to > Len(data) \/ outputOffset + run.value > expected
             filled == [i \in 1 .. expected |->
                          IF i \in outputOffset + 1 .. outputOffset + run.value
                            THEN data[run.next + i - outputOffset] ELSE buffer[i]]
  <2>1. inputOffset + 1 \in 0 .. Len(data) /\ t \in Byte
    <3>1. inputOffset < Len(data)
      BY <1>6 DEF Decoder!ReadLiterals
    <3> QED
      BY <1>1, <3>1
  <2>2. half \in 0 .. Nibble
    BY <2>1, Halves
  <2>3. CASE fails
    <3>1. status' = "CorruptData" /\ UNCHANGED <<inputOffset, outputOffset, buffer, token>>
      BY <1>6, <2>3 DEF Decoder!ReadLiterals, Decoder!Return
    <3> QED
      BY <1>1, <1>3, <3>1
  <2>4. CASE ~fails
    <3>1. /\ buffer' = filled
          /\ inputOffset' = to
          /\ outputOffset' = outputOffset + run.value
          /\ token' = t
          /\ status' = IF outputOffset' < expected THEN "match"
                       ELSE IF to = Len(data) THEN "Ok" ELSE "CorruptData"
      BY <1>6, <2>4 DEF Decoder!ReadLiterals, Decoder!Return
    <3>2. run.ok /\ run.next + run.value <= Len(data) /\ outputOffset + run.value <= expected
      <4>1. run.ok
        BY <2>4
      <4> QED
        BY <1>1, <2>1, <2>2, <2>4, <4>1, LengthRead
    <3>3. run.next \in 0 .. Len(data) /\ run.value \in Nat
      <4>1. run.next \in inputOffset + 1 .. Len(data) /\ run.value \in Nat
        BY <1>1, <2>1, <2>2, <3>2, LengthRead
      <4> HIDE DEF run
      <4> QED
        BY <1>1, <4>1
    <3> HIDE DEF run, t, half, fails
    <3>4. ASSUME NEW i \in outputOffset + 1 .. outputOffset + run.value
          PROVE  data[run.next + i - outputOffset] \in Byte
      <4>1. run.next + i - outputOffset \in 1 .. Len(data)
        BY <1>1, <3>2, <3>3
      <4> QED
        BY <1>1, <4>1
    <3>5. filled \in [1 .. expected -> Byte \cup {Stale}]
      BY <1>1, <3>4
    <3>6. ASSUME NEW i \in 1 .. outputOffset + run.value PROVE filled[i] \in Byte
      <4>1. i \in 1 .. expected /\ (i \in 1 .. outputOffset \/ i \in outputOffset + 1 .. outputOffset + run.value)
        BY <1>1, <3>2, <3>3
      <4> QED
        BY <1>1, <3>4, <4>1
    <3>7. to \in 0 .. Len(data) /\ outputOffset + run.value \in 0 .. expected
      BY <1>1, <3>2, <3>3
    <3> HIDE DEF filled, to
    <3>8. inputOffset' \in 0 .. Len(data) /\ outputOffset' \in 0 .. expected /\ token' \in Byte
      BY <2>1, <3>1, <3>7
    <3>9. status' = "Ok" => outputOffset' = expected
      BY <1>1, <3>1, <3>8
    <3>10. status' \in {"Ok", "CorruptData", "NoMemory", "token", "match"}
      BY <3>1
    <3> QED
      BY <1>3, <3>1, <3>5, <3>6, <3>8, <3>9, <3>10
  <2> QED
    BY <2>3, <2>4
<1>7. CASE Decoder!ReadMatch
  <2> DEFINE half == token % TokenBase
             run == Decoder!ReadLength(half, inputOffset + 2, kMinMatch)
             offset == Decoder!MatchOffset
             fails == \/ inputOffset + 2 > Len(data)
                      \/ offset = 0 \/ offset > outputOffset
                      \/ ~run.ok
                      \/ outputOffset + run.value > expected
  <2>1. half \in 0 .. Nibble
    BY <1>1, Halves
  <2>2. CASE fails
    <3>1. status' = "CorruptData" /\ UNCHANGED <<inputOffset, outputOffset, buffer, token>>
      BY <1>7, <2>2, SameFormat DEF Decoder!ReadMatch, Decoder!Return
    <3> QED
      BY <1>1, <1>3, <3>1
  <2>3. CASE ~fails
    <3>1. /\ buffer' = Decoder!Copied(offset, run.value)
          /\ inputOffset' = run.next
          /\ outputOffset' = outputOffset + run.value
          /\ token' = token
          /\ status' = "token"
      BY <1>7, <2>3, SameFormat DEF Decoder!ReadMatch, Decoder!Return
    <3>2. inputOffset + 2 \in 0 .. Len(data)
      BY <1>1, <2>3
    <3>3. offset \in 1 .. outputOffset
      <4>1. inputOffset + 1 \in 1 .. Len(data) /\ inputOffset + 2 \in 1 .. Len(data)
        BY <1>1, <3>2
      <4>2. data[inputOffset + 1] \in Nat /\ data[inputOffset + 2] \in Nat
        BY <1>1, <4>1, Bases
      <4>3. offset \in Nat
        <5>1. data[inputOffset + 2] * ByteBase \in Nat
          BY <4>2, Bases, Product
        <5> QED
          BY <4>2, <5>1, SameFormat DEF Decoder!MatchOffset
      <4> HIDE DEF offset
      <4> QED
        BY <1>1, <2>3, <4>3
    <3>4. run.ok /\ outputOffset + run.value <= expected /\ run.next \in inputOffset + 2 .. Len(data)
          /\ run.value \in Nat
      <4>1. run.ok /\ kMinMatch \in Nat
        BY <2>3 DEF kMinMatch
      <4>2. run.next \in inputOffset + 2 .. Len(data) /\ run.value \in Nat
        BY <1>1, <2>1, <3>2, <4>1, LengthRead
      <4> HIDE DEF run
      <4> QED
        BY <1>1, <2>3, <4>1, <4>2
    <3> HIDE DEF run, half, offset, fails
    <3> DEFINE copied == Decoder!Copied(offset, run.value)
               from(i) == outputOffset - offset + 1 + ((i - outputOffset - 1) % offset)
    <3>5. copied = [i \in 1 .. expected |-> IF i \in outputOffset + 1 .. outputOffset + run.value
                                              THEN buffer[from(i)] ELSE buffer[i]]
      BY DEF Decoder!Copied
    <3>6. ASSUME NEW i \in outputOffset + 1 .. outputOffset + run.value PROVE buffer[from(i)] \in Byte
      <4>1. i - outputOffset - 1 \in Nat /\ offset \in Nat \ {0}
        BY <1>1, <3>3, <3>4
      <4>2. (i - outputOffset - 1) % offset \in 0 .. offset - 1
        BY <4>1, Remainder
      <4>3. from(i) \in 1 .. outputOffset
        BY <1>1, <3>3, <4>2
      <4> HIDE DEF from
      <4> QED
        BY <1>1, <4>3
    <3> HIDE DEF copied, from
    <3>7. copied \in [1 .. expected -> Byte \cup {Stale}]
      BY <1>1, <3>5, <3>6
    <3>8. ASSUME NEW i \in 1 .. outputOffset + run.value PROVE copied[i] \in Byte
      <4>1. i \in 1 .. expected /\ (i \in 1 .. outputOffset \/ i \in outputOffset + 1 .. outputOffset + run.value)
        BY <1>1, <3>4
      <4> QED
        BY <1>1, <3>5, <3>6, <4>1
    <3>9. inputOffset' \in 0 .. Len(data) /\ outputOffset' \in 0 .. expected
      BY <1>1, <3>1, <3>4
    <3>10. buffer' = copied /\ outputOffset' = outputOffset + run.value
      BY <3>1 DEF copied
    <3> QED
      BY <1>1, <1>3, <3>1, <3>7, <3>8, <3>9, <3>10
  <2> QED
    BY <2>2, <2>3
<1> QED
  BY <1>4, <1>5, <1>6, <1>7 DEF Decoder!DecompressNext

-----------------------------------------------------------------------------
AtStart == inputOffset = 0 /\ outputOffset = 0 /\ token = 0 /\ status = "token"

Inv ==
  /\ CompressType
  /\ DecoderInv
  /\ stage \in {"compress", "decompress"}
  /\ stage = "compress" => AtStart

(* Ready, or a block that is passed on: the output is resized, not cleared. *)
LEMMA FreshDecoder ==
  ASSUME NEW n \in Nat
  PROVE  Decoder!Resized(n) \in [1 .. n -> Byte \cup {Stale}]
BY DEF Decoder!Resized

LEMMA InitInv == Init => Inv
<1> SUFFICES ASSUME Init PROVE Inv
  OBVIOUS
<1>1. input \in Seq(Byte) /\ windowSize \in Nat /\ hash \in Hashes
      /\ data \in Seq(Byte) /\ expected \in Nat /\ stage \in {"compress", "decompress"}
  <2>1. <<>> \in Seq(Byte) /\ 0 \in Nat
    OBVIOUS
  <2>2. (CHOOSE h \in Hashes : TRUE) \in Hashes
    BY CompressAssumption
  <2>3. 0 .. MaxOutput \subseteq Nat /\ MaxOffset \in Nat
    BY DamagedAssumption, Bases
  <2> QED
    BY <2>1, <2>2, <2>3, CompressAssumption, DamagedAssumption DEF Init
<1>2. Given /\ Size \in Nat
  BY <1>1, SizeIs, CompressAssumption DEF Given
<1>3. CompressType
  <2>1. <<>> \in Seq(Byte) /\ -1 \in -1 .. Size /\ 0 \in 0 .. Size /\ 0 \in 0 .. 0
    BY <1>2
  <2> QED
    BY <1>2, <2>1 DEF Init, Start, CompressType
<1>4. Len(data) \in Nat
  BY <1>1
<1>5. AtStart /\ buffer \in [1 .. expected -> Byte \cup {Stale}]
  BY <1>1, FreshDecoder DEF Init, AtStart, Decoder!Ready, Decoder!NoToken
<1>6. DecoderInv
  <2>1. 0 \in 0 .. Len(data) /\ 0 \in 0 .. expected /\ 0 \in Byte
    BY <1>1, <1>4, Bases
  <2> QED
    BY <1>1, <1>5, <2>1, SameFormat
    DEF AtStart, DecoderInv, DecompressType, Filled, Decoder!DecompressTypeOK
<1> QED
  BY <1>1, <1>3, <1>5, <1>6 DEF Inv

LEMMA NextInv == ASSUME Inv, [Next]_vars PROVE Inv'
<1>1. CASE Compress
  <2>1. CompressType'
    BY <1>1, NextCompressType DEF Compress, Inv
  <2> QED
    BY <1>1, <2>1
    DEF Compress, Inv, decoder, AtStart, DecoderInv, DecompressType, Filled, Decoder!DecompressTypeOK,
        Decoder!Returned, Decoder!Byte, Decoder!ByteMax, Decoder!ByteBase
<1>2. CASE PassOn
  <2>1. CompressType'
    BY <1>2 DEF PassOn, Inv, cvars, given, CompressType, Given, Size
  <2>2. data' \in Seq(Byte) /\ expected' \in Nat /\ Len(data') \in Nat
    <3>1. data' \in Seq(Byte) /\ expected' \in Nat
      BY <1>2, SizeIs DEF PassOn, Inv, CompressType
    <3> QED
      BY <3>1
  <2>3. buffer' \in [1 .. expected' -> Byte \cup {Stale}]
    BY <1>2, <2>2, FreshDecoder DEF PassOn
  <2>4. inputOffset' = 0 /\ outputOffset' = 0 /\ token' = 0 /\ status' = "token"
    BY <1>2 DEF PassOn, Inv, AtStart
  <2>5. DecoderInv'
    <3>1. 0 \in 0 .. Len(data') /\ 0 \in 0 .. expected' /\ 0 \in Byte
      BY <2>2, Bases
    <3> QED
      BY <2>2, <2>3, <2>4, <3>1, SameFormat
      DEF DecoderInv, DecompressType, Filled, Decoder!DecompressTypeOK
  <2> QED
    BY <1>2, <2>1, <2>5 DEF PassOn, Inv
<1>3. CASE Decompress
  <2>1. DecoderInv'
    BY <1>3, NextDecoderInv DEF Decompress, Inv
  <2> QED
    BY <1>3, <2>1 DEF Decompress, Inv, cvars, given, CompressType, Given, Size
<1>4. CASE UNCHANGED vars
  BY <1>4
  DEF vars, cvars, given, decoder, Inv, CompressType, Given, Size, AtStart, DecoderInv, DecompressType,
      Filled, Decoder!DecompressTypeOK, Decoder!Returned, Decoder!Byte, Decoder!ByteMax, Decoder!ByteBase
<1> QED
  BY <1>1, <1>2, <1>3, <1>4 DEF Next

LEMMA Invariance == Spec => []Inv
BY InitInv, NextInv, PTL DEF Spec

(* Neither loop reads or writes outside its buffers, whatever the block,   *)
(* the window and the hash, and whatever bytes the decoder is given.       *)
THEOREM CodecStaysInside == Spec => []TypeOK
<1>1. Inv => TypeOK
  BY DEF Inv, CompressType, DecoderInv, DecompressType, TypeOK
<1> QED
  BY <1>1, Invariance, PTL

(* A block is decoded from nothing but itself: no byte that an earlier     *)
(* block left in the buffer can be reached, whatever the bytes are.        *)
THEOREM DecoderForgets == Spec => []NothingStale
<1>1. Inv => NothingStale
  BY DamagedAssumption DEF Inv, DecoderInv, Filled, NothingStale, Decoder!NothingStale
<1> QED
  BY <1>1, Invariance, PTL

-----------------------------------------------------------------------------
(* The decoder reads back what is emitted. *)

(* A length, from its half of the token and the bytes that follow. *)
LEMMA LengthReadBack ==
  ASSUME data \in Seq(Byte), NEW from \in Nat, NEW v \in Nat, NEW least \in Nat,
         Stands(data, from, PastToken(v))
  PROVE  Decoder!ReadLength(InToken(v), from, least) =
           [ok |-> TRUE, next |-> from + Len(PastToken(v)), value |-> least + v]
<1>1. Len(data) \in Nat /\ Nibble \in Nat
  BY Bases
<1>2. CASE v < Nibble
  <2>1. PastToken(v) = <<>> /\ InToken(v) = v /\ v # Nibble /\ from + Len(<<>>) = from
    BY <1>1, <1>2 DEF PastToken, InToken
  <2> QED
    BY <2>1, SameFormat DEF Decoder!ReadLength
<1>3. CASE ~(v < Nibble)
  <2> DEFINE w == v - Nibble
             bytes == LengthBytes(w)
             full == w \div ByteMax
             b == from + Len(bytes)
  <2>1. PastToken(v) = bytes /\ InToken(v) = Nibble /\ w \in Nat
    BY <1>1, <1>3 DEF PastToken, InToken
  <2>2. /\ bytes \in Seq(Byte) /\ Len(bytes) = full + 1
        /\ \A i \in 1 .. full : bytes[i] = ByteMax
        /\ bytes[full + 1] = w % ByteMax
        /\ full \in Nat /\ w % ByteMax \in 0 .. ByteMax - 1
        /\ w = ByteMax * full + (w % ByteMax)
    BY <2>1, LengthBytesAre
  <2>3. b <= Len(data) /\ \A i \in 1 .. Len(bytes) : data[from + i] = bytes[i]
    BY <2>1 DEF Stands
  <2> HIDE DEF w, bytes, full
  <2>4. b \in Nat /\ from <= b /\ b - from = full + 1
    BY <2>2
  <2>5. \A i \in 1 .. full + 1 : bytes[i] = data[from + i]
    BY <2>2, <2>3
  <2> DEFINE ends == {k \in from + 1 .. Len(data) : data[k] # ByteMax}
             last == CHOOSE k \in ends : \A j \in ends : k <= j
  <2>6. from + full + 1 \in ends
    <3>1. bytes[full + 1] # ByteMax
      BY <2>2, Bases
    <3>2. data[from + (full + 1)] = bytes[full + 1] /\ from + (full + 1) = from + full + 1
      BY <2>2, <2>5
    <3>3. from + full + 1 \in from + 1 .. Len(data)
      BY <1>1, <2>2, <2>3, <2>4
    <3> QED
      BY <3>1, <3>2, <3>3
  <2>7. ASSUME NEW j \in ends PROVE from + full + 1 <= j
    <3> SUFFICES ASSUME j < from + full + 1 PROVE FALSE
      BY <1>1, <2>2
    <3>1. j - from \in 1 .. full /\ from + (j - from) = j
      BY <1>1, <2>2
    <3>2. bytes[j - from] = ByteMax /\ data[from + (j - from)] = bytes[j - from]
      <4>1. j - from \in 1 .. full + 1
        BY <2>2, <3>1
      <4> QED
        BY <2>2, <2>5, <3>1, <4>1
    <3> QED
      BY <3>1, <3>2
  <2>8. last = from + full + 1
    <3>1. \A k \in ends : k \in Nat
      BY <1>1
    <3> HIDE DEF ends
    <3>2. last \in ends /\ \A j \in ends : last <= j
      BY <2>6, <2>7
    <3> HIDE DEF last
    <3>3. last <= from + full + 1 /\ from + full + 1 <= last /\ last \in Nat /\ from + full + 1 \in Nat
      BY <2>2, <2>6, <2>7, <3>1, <3>2
    <3> QED
      BY <3>3
  <2>9. Decoder!ReadLength(InToken(v), from, least) = Decoder!ReadExtendedLength(from, least + Nibble)
    BY <2>1, SameFormat DEF Decoder!ReadLength
  <2>10. Decoder!ReadExtendedLength(from, least + Nibble) =
            IF ends = {} THEN Decoder!Bad
            ELSE [ok |-> TRUE, next |-> last,
                  value |-> (least + Nibble) + ByteMax * (last - from - 1) + data[last]]
    BY SameFormat, Zenon DEF Decoder!ReadExtendedLength
  <2>11. ends # {}
    BY <2>6
  <2> HIDE DEF ends, last
  <2>12. last - from - 1 = full /\ data[last] = w % ByteMax
    <3>1. data[from + (full + 1)] = bytes[full + 1] /\ from + (full + 1) = from + full + 1
      BY <2>2, <2>5
    <3> QED
      BY <2>2, <2>8, <3>1
  <2>13. (least + Nibble) + ByteMax * full + (w % ByteMax) = least + v
    <3>1. ByteMax * full \in Nat /\ w % ByteMax \in Nat
      BY <2>2, Bases, Product
    <3>2. (least + Nibble) + ByteMax * full + (w % ByteMax) = (least + Nibble) + w
      BY <1>1, <2>2, <3>1
    <3> QED
      BY <1>1, <3>2 DEF w
  <2>14. last = from + Len(PastToken(v))
    BY <2>1, <2>2, <2>8
  <2> QED
    BY <2>9, <2>10, <2>11, <2>12, <2>13, <2>14
<1> QED
  BY <1>2, <1>3

(* s after a and t after b end at the same place. *)
EndTogether(a, s, b, t) == a + Len(s) = b + Len(t)

(* A token has a length in its second half, as far as that goes. *)
SecondHalfHas(t, n) == t % TokenBase = InToken(n)

(* The token and the literals of a sequence that stands at a. *)
LEMMA LiteralsReadBack ==
  ASSUME data \in Seq(Byte), NEW a \in Nat,
         NEW literals \in Seq(Byte), NEW offset \in Nat, NEW match \in Nat,
         match = 0 \/ match >= kMinMatch,
         Stands(data, a, EmitSequence(literals, offset, match)),
         NEW next, next = (a + 1) + Len(PastToken(Len(literals)))
  PROVE  /\ a < Len(data)
         /\ SecondHalfHas(data[a + 1], Coded(match))
         /\ Decoder!ReadLength(data[a + 1] \div TokenBase, a + 1, 0) =
              [ok |-> TRUE, next |-> next, value |-> Len(literals)]
         /\ next \in Nat
         /\ Stands(data, next, literals)
         /\ Stands(data, next + Len(literals), MatchPart(offset, match))
         /\ EndTogether(a, EmitSequence(literals, offset, match), next + Len(literals), MatchPart(offset, match))
<1> DEFINE tok == Token(Len(literals), match)
           past == PastToken(Len(literals))
           rest == MatchPart(offset, match)
           emitted == EmitSequence(literals, offset, match)
<1>1. /\ emitted = <<tok>> \o (past \o (literals \o rest))
      /\ Coded(match) \in Nat /\ Len(literals) \in Nat
      /\ tok \in Byte /\ past \in Seq(Byte) /\ rest \in Seq(Byte)
  <2>1. Len(literals) \in Nat
    OBVIOUS
  <2> QED
    BY <2>1, EmissionIs
<1>2. tok \div TokenBase = InToken(Len(literals)) /\ tok % TokenBase = InToken(Coded(match))
  <2>1. InToken(Len(literals)) \in 0 .. TokenBase - 1 /\ InToken(Coded(match)) \in 0 .. TokenBase - 1
        /\ TokenBase \in Nat \ {0}
    BY <1>1, InTokenIs, Bases
  <2> QED
    BY <2>1, TwoDigits DEF Token
<1>3. Stands(data, a, emitted) /\ next = (a + 1) + Len(past)
  OBVIOUS
<1> HIDE DEF tok, past, rest, emitted
<1>4. /\ Stands(data, a, <<tok>>)
      /\ Stands(data, a + 1, past)
      /\ Stands(data, next, literals)
      /\ Stands(data, next + Len(literals), rest)
      /\ a + Len(emitted) = (next + Len(literals)) + Len(rest)
      /\ next \in Nat
  <2> DEFINE first == <<tok>>
             last == literals \o rest
             tail == past \o last
  <2>1. /\ Len(first) = 1
        /\ last = literals \o rest /\ tail = past \o last /\ emitted = first \o tail
    BY <1>1
  <2>types. first \in Seq(Byte) /\ last \in Seq(Byte) /\ tail \in Seq(Byte) /\ past \in Seq(Byte) /\ data \in Seq(Byte)
    BY <1>1
  <2> HIDE DEF first, last, tail
  <2>2. /\ Stands(data, a, first) /\ Stands(data, a + 1, tail)
        /\ a + Len(emitted) = (a + 1) + Len(tail)
    <3>1. Stands(data, a, first \o tail)
      BY <1>3, <2>1
    <3>2. /\ Stands(data, a, first) /\ Stands(data, a + Len(first), tail)
          /\ a + Len(first \o tail) = (a + Len(first)) + Len(tail)
      BY <2>types, <3>1, StandsCut
    <3> QED
      BY <2>1, <3>2
  <2>3. a + 1 \in Nat /\ next \in Nat
    BY <1>1, <1>3
  <2>4. /\ Stands(data, a + 1, past) /\ Stands(data, next, last)
        /\ (a + 1) + Len(tail) = next + Len(last)
    <3>1. Stands(data, a + 1, past \o last)
      BY <2>1, <2>2
    <3>2. /\ Stands(data, a + 1, past) /\ Stands(data, (a + 1) + Len(past), last)
          /\ (a + 1) + Len(past \o last) = ((a + 1) + Len(past)) + Len(last)
      BY <2>types, <2>3, <3>1, StandsCut
    <3> QED
      BY <1>3, <2>1, <3>2
  <2>5. /\ Stands(data, next, literals) /\ Stands(data, next + Len(literals), rest)
        /\ next + Len(last) = (next + Len(literals)) + Len(rest)
    <3>1. Stands(data, next, literals \o rest)
      BY <2>1, <2>4
    <3> QED
      BY <1>1, <2>1, <2>3, <3>1, StandsCut
  <2> QED
    BY <2>2, <2>3, <2>4, <2>5 DEF first
<1>5. a < Len(data) /\ data[a + 1] = tok
  <2>1. Len(<<tok>>) = 1 /\ <<tok>>[1] = tok /\ 1 \in 1 .. 1 /\ Len(data) \in Nat
    OBVIOUS
  <2>2. a + 1 <= Len(data) /\ data[a + 1] = <<tok>>[1]
    BY <1>4, <2>1 DEF Stands
  <2> QED
    BY <2>1, <2>2
<1>6. Decoder!ReadLength(InToken(Len(literals)), a + 1, 0) =
        [ok |-> TRUE, next |-> next, value |-> Len(literals)]
  <2>1. a + 1 \in Nat /\ 0 \in Nat /\ Stands(data, a + 1, PastToken(Len(literals)))
    BY <1>4 DEF past
  <2> DEFINE n == Len(literals)
  <2>2. n \in Nat /\ 0 + n = n /\ Stands(data, a + 1, PastToken(n))
    BY <1>1, <2>1
  <2>3. next = (a + 1) + Len(PastToken(n))
    BY <1>3 DEF past
  <2> HIDE DEF n
  <2>4. Decoder!ReadLength(InToken(n), a + 1, 0) =
          [ok |-> TRUE, next |-> (a + 1) + Len(PastToken(n)), value |-> 0 + n]
    BY <2>1, <2>2, LengthReadBack
  <2>5. Decoder!ReadLength(InToken(n), a + 1, 0) = [ok |-> TRUE, next |-> next, value |-> n]
    BY <2>2, <2>3, <2>4
  <2> QED
    BY <2>5 DEF n
<1> QED
  BY <1>2, <1>4, <1>5, <1>6 DEF rest, emitted, SecondHalfHas, EndTogether

LEMMA MatchPartIs ==
  ASSUME NEW offset \in Nat, NEW match \in Nat, match >= kMinMatch
  PROVE  /\ MatchPart(offset, match) =
              <<offset % ByteBase, (offset \div ByteBase) % ByteBase>> \o PastToken(Coded(match))
         /\ Coded(match) \in Nat /\ kMinMatch + Coded(match) = match
         /\ PastToken(Coded(match)) \in Seq(Byte)
         /\ offset % ByteBase \in Byte /\ (offset \div ByteBase) % ByteBase \in Byte
<1>1. match # 0 /\ Coded(match) \in Nat /\ kMinMatch + Coded(match) = match
  BY DEF Coded, kMinMatch
<1>2. offset % ByteBase \in Byte /\ (offset \div ByteBase) % ByteBase \in Byte
  BY Bases, Quotient, Remainder
<1> QED
  BY <1>1, <1>2, PastTokenIs DEF MatchPart

(* The offset of a match, which two bytes can hold. *)
LEMMA OffsetReadBack ==
  ASSUME NEW offset \in Nat, offset <= MaxOffset
  PROVE  (offset % ByteBase) + ((offset \div ByteBase) % ByteBase) * ByteBase = offset
<1> DEFINE q == offset \div ByteBase
           r == offset % ByteBase
<1>1. ByteBase \in Nat \ {0} /\ offset < ByteBase * ByteBase
  BY Bases
<1>2. q \in Nat /\ offset = ByteBase * q + r /\ q < ByteBase /\ r \in Nat
  <2>1. q \in Nat /\ offset = ByteBase * q + r
    BY <1>1, Quotient
  <2>2. q < ByteBase
    BY <1>1, QuotientBelow
  <2>3. r \in 0 .. ByteBase - 1
    BY <1>1, Remainder
  <2> QED
    BY <1>1, <2>1, <2>2, <2>3
<1>3. q % ByteBase = q
  BY <1>1, <1>2, Below
<1> HIDE DEF q, r
<1>4. q * ByteBase = ByteBase * q /\ ByteBase * q \in Nat
  BY <1>1, <1>2
<1>5. r + q * ByteBase = offset
  BY <1>2, <1>4
<1> QED
  BY <1>3, <1>5 DEF q, r

(* The match of a sequence, which stands behind its literals. *)
LEMMA MatchReadBack ==
  ASSUME data \in Seq(Byte), NEW a \in Nat,
         NEW offset \in Nat, offset <= MaxOffset, NEW match \in Nat, match >= kMinMatch,
         Stands(data, a, MatchPart(offset, match))
  PROVE  /\ a + 2 <= Len(data)
         /\ data[a + 1] + data[a + 2] * ByteBase = offset
         /\ Decoder!ReadLength(InToken(Coded(match)), a + 2, kMinMatch) =
              [ok |-> TRUE, next |-> a + Len(MatchPart(offset, match)), value |-> match]
<1> DEFINE low == offset % ByteBase
           high == (offset \div ByteBase) % ByteBase
           two == <<low, high>>
           past == PastToken(Coded(match))
           rest == MatchPart(offset, match)
<1>1. /\ rest = two \o past
      /\ Coded(match) \in Nat /\ kMinMatch + Coded(match) = match
      /\ low \in Byte /\ high \in Byte
  BY MatchPartIs
<1>2. low + high * ByteBase = offset
  BY OffsetReadBack
<1>3. Stands(data, a, rest)
  OBVIOUS
<1>4. past \in Seq(Byte)
  BY MatchPartIs
<1> HIDE DEF low, high, past, rest
<1>5. two \in Seq(Byte) /\ Len(two) = 2 /\ two[1] = low /\ two[2] = high
  BY <1>1
<1> HIDE DEF two
<1>6. Stands(data, a, two) /\ Stands(data, a + Len(two), past)
      /\ a + Len(two \o past) = (a + Len(two)) + Len(past)
  <2>1. Stands(data, a, two \o past)
    BY <1>1, <1>3
  <2>2. data \in Seq(Byte) /\ two \in Seq(Byte)
    BY <1>5
  <2> QED
    BY <1>4, <2>1, <2>2, StandsCut
<1>7. a + 2 <= Len(data) /\ data[a + 1] = low /\ data[a + 2] = high
  <2>1. 1 \in 1 .. Len(two) /\ 2 \in 1 .. Len(two)
    BY <1>5
  <2> QED
    BY <1>5, <1>6, <2>1 DEF Stands
<1>8. Decoder!ReadLength(InToken(Coded(match)), a + 2, kMinMatch) =
        [ok |-> TRUE, next |-> (a + 2) + Len(past), value |-> kMinMatch + Coded(match)]
  <2>1. a + 2 \in Nat /\ kMinMatch \in Nat /\ Stands(data, a + 2, PastToken(Coded(match)))
    BY <1>5, <1>6 DEF past, kMinMatch
  <2> DEFINE n == Coded(match)
  <2>2. n \in Nat /\ Stands(data, a + 2, PastToken(n)) /\ past = PastToken(n)
    BY <1>1, <2>1 DEF past
  <2> HIDE DEF n
  <2>3. Decoder!ReadLength(InToken(n), a + 2, kMinMatch) =
          [ok |-> TRUE, next |-> (a + 2) + Len(past), value |-> kMinMatch + n]
    BY <2>1, <2>2, LengthReadBack
  <2> QED
    BY <2>3 DEF n
<1>9. a + Len(rest) = (a + 2) + Len(past)
  BY <1>1, <1>5, <1>6
<1> QED
  BY <1>1, <1>2, <1>7, <1>8, <1>9 DEF rest

(* A match that is longer than its offset repeats the last offset bytes. *)
LEMMA Periodic ==
  ASSUME NEW s, NEW made \in Nat, NEW offset \in Nat \ {0}, offset <= made, NEW end \in Nat,
         \A i \in made + 1 .. end : s[i] = s[i - offset]
  PROVE  \A i \in made + 1 .. end : s[i] = s[made - offset + 1 + ((i - made - 1) % offset)]
<1> DEFINE Repeats(i) == s[i] = s[made - offset + 1 + ((i - made - 1) % offset)]
           Fine == {n \in Nat : \A i \in made + 1 .. end : i <= made + n => Repeats(i)}
<1>1. 0 \in Fine
  OBVIOUS
<1>2. ASSUME NEW n \in Nat, n \in Fine PROVE n + 1 \in Fine
  <2> SUFFICES ASSUME NEW i \in made + 1 .. end, i <= made + (n + 1) PROVE Repeats(i)
    OBVIOUS
  <2>1. CASE i <= made + n
    BY <1>2, <2>1
  <2>2. CASE i = made + n + 1
    <3>1. i - made - 1 = n /\ s[i] = s[i - offset]
      BY <2>2
    <3>2. CASE n < offset
      <4>1. n % offset = n /\ made - offset + 1 + n = i - offset
        BY <2>2, <3>2, Below
      <4> QED
        BY <3>1, <4>1
    <3>3. CASE n >= offset
      <4>1. i - offset \in made + 1 .. end /\ i - offset <= made + n /\ (i - offset) - made - 1 = n - offset
        BY <2>2, <3>3
      <4>2. Repeats(i - offset)
        BY <1>2, <4>1
      <4>3. (n - offset) % offset = n % offset
        BY <3>3, Shifted
      <4> QED
        BY <3>1, <4>1, <4>2, <4>3
    <3> QED
      BY <3>2, <3>3
  <2> QED
    BY <2>1, <2>2
<1>3. Nat \subseteq Fine
  <2> HIDE DEF Fine
  <2> QED
    BY <1>1, <1>2, Induction
<1>4. ASSUME NEW i \in made + 1 .. end PROVE Repeats(i)
  <2>1. end \in Fine /\ i <= made + end
    BY <1>3
  <2> QED
    BY <2>1
<1> QED
  BY <1>4

-----------------------------------------------------------------------------
(* A block and what it is compressed to are cut at the same points: so     *)
(* much has been read of the one when so much is made of the other.        *)
Points == [read : Nat, made : Nat]
Origin == [read |-> 0, made |-> 0]

(* A sequence stands in d from x to y: literals of the block up to mid,    *)
(* and what comes offset bytes after the same bytes.                       *)
SequenceFrom(d, x, y, mid, offset) ==
  /\ mid \in x.made .. Size
  /\ y.made \in mid + kMinMatch .. Size
  /\ offset \in 1 .. mid /\ offset <= MaxOffset
  /\ \A i \in mid + 1 .. y.made : input[i] = input[i - offset]
  /\ Stands(d, x.read, EmitSequence(SubSeq(input, x.made + 1, mid), offset, y.made - mid))
  /\ y.read = x.read + Len(EmitSequence(SubSeq(input, x.made + 1, mid), offset, y.made - mid))

Encodes(d, x, y) == \E mid \in Nat, offset \in Nat : SequenceFrom(d, x, y, mid, offset)

(* The last sequence stands in d from x to the end. *)
Finishes(d, x) ==
  /\ x.made <= Size
  /\ Stands(d, x.read, EmitSequence(SubSeq(input, x.made + 1, Size), 0, 0))
  /\ Len(d) = x.read + Len(EmitSequence(SubSeq(input, x.made + 1, Size), 0, 0))

(* From every point of P a sequence leads to another; here, or at the end  *)
(* of the block, they stop.                                                *)
Open(d, P, here) ==
  /\ Origin \in P /\ here \in P
  /\ \A x \in P : x = here \/ \E y \in P : Encodes(d, x, y)

Complete(d, P) ==
  /\ Origin \in P
  /\ \A x \in P : Finishes(d, x) \/ \E y \in P : Encodes(d, x, y)

Here == [read |-> Len(output), made |-> anchor]

CompressedSoFar == \E P \in SUBSET Points : Open(output, P, Here)
Compressed      == \E P \in SUBSET Points : Complete(output, P)

(* What the compressor has emitted, at every pass of its loop. *)
EmittedInv ==
  /\ error = "none" => CompressedSoFar
  /\ error = "Ok" => IF Size = 0 THEN output = <<>> ELSE Compressed

(* What is appended moves nothing. *)
LEMMA EncodesStill ==
  ASSUME Given, NEW d \in Seq(Byte), NEW e \in Seq(Byte), NEW x \in Points, NEW y \in Points,
         Encodes(d, x, y)
  PROVE  Encodes(d \o e, x, y)
<1>1. PICK mid \in Nat, offset \in Nat : SequenceFrom(d, x, y, mid, offset)
  BY DEF Encodes
<1> DEFINE emitted == EmitSequence(SubSeq(input, x.made + 1, mid), offset, y.made - mid)
<1>2. Size \in Nat /\ x.read \in Nat /\ x.made \in Nat /\ y.made \in Nat
  BY SizeIs DEF Points
<1>3. x.made <= mid /\ mid <= Size /\ y.made - mid \in Nat /\ y.made - mid >= kMinMatch
  BY <1>1, <1>2, SMTT(30) DEF SequenceFrom, kMinMatch
<1>4. emitted \in Seq(Byte)
  <2>1. SubSeq(input, x.made + 1, mid) \in Seq(Byte)
    BY <1>2, <1>3, LiteralsAre
  <2> QED
    BY <1>3, <2>1, EmissionIs
<1>5. Stands(d, x.read, emitted)
  BY <1>1 DEF SequenceFrom
<1> HIDE DEF emitted
<1>6. Stands(d \o e, x.read, emitted)
  BY <1>2, <1>4, <1>5, StandsStill
<1>7. SequenceFrom(d \o e, x, y, mid, offset)
  BY <1>1, <1>6 DEF SequenceFrom, emitted
<1> QED
  BY <1>7 DEF Encodes

LEMMA StartEmitted == ASSUME Start, Given PROVE EmittedInv
<1>1. Here = Origin /\ Origin \in Points
  BY DEF Here, Origin, Points, Start
<1>2. Open(output, {Here}, Here)
  BY <1>1 DEF Open
<1>3. {Here} \in SUBSET Points
  BY <1>1
<1> QED
  BY <1>2, <1>3 DEF EmittedInv, CompressedSoFar, Start

LEMMA HereIs == ASSUME CompressType PROVE Here \in Points /\ Len(output) \in Nat /\ anchor \in Nat
<1>1. Len(output) \in Nat /\ anchor \in Nat
  BY SizeIs DEF CompressType
<1> QED
  BY <1>1 DEF Here, Points

(* A step that leaves the block and what is emitted leaves what is known   *)
(* of them.                                                                *)
LEMMA EmittedStill ==
  ASSUME EmittedInv,
         input' = input, Size' = Size, output' = output, anchor' = anchor, error' = error
  PROVE  EmittedInv'
<1>1. \A x, y, mid, offset :
        SequenceFrom(output, x, y, mid, offset) => SequenceFrom(output, x, y, mid, offset)'
  BY DEF SequenceFrom
<1>2. \A x, y : Encodes(output, x, y) => Encodes(output, x, y)'
  BY <1>1 DEF Encodes
<1>3. \A x : Finishes(output, x) => Finishes(output, x)'
  BY DEF Finishes
<1>4. Here' = Here
  BY DEF Here
<1>5. \A P : Open(output, P, Here) => Open(output, P, Here)'
  BY <1>2, <1>4 DEF Open
<1>6. \A P : Complete(output, P) => Complete(output, P)'
  BY <1>2, <1>3 DEF Complete
<1>7. /\ CompressedSoFar => CompressedSoFar'
      /\ Compressed => Compressed'
  BY <1>5, <1>6 DEF CompressedSoFar, Compressed
<1> QED
  BY <1>7 DEF EmittedInv

LEMMA NextEmitted == ASSUME CompressType, EmittedInv, CompressNext PROVE EmittedInv'
<1>1. /\ Size \in Nat /\ index \in Nat /\ anchor \in Nat /\ index <= Size /\ anchor <= index
      /\ Given /\ output \in Seq(Byte) /\ Len(output) \in Nat
  BY SizeIs, HereIs DEF CompressType
<1>2. input' = input /\ Size' = Size
  BY DEF CompressNext, Advance, TakeMatch, CompressTail, CompressNoMemory, given, Size
<1>3. CASE Advance
  <2>1. output' = output /\ anchor' = anchor /\ error' = error
    BY <1>3 DEF Advance
  <2> QED
    BY <1>2, <2>1, EmittedStill
<1>4. CASE TakeMatch
  <2> DEFINE candidate == table[Slot(index)]
             length == MatchLength(candidate)
             offset == index - candidate
             emitted == EmitSequence(Literals, offset, length)
  <2>1. candidate \in -1 .. Size /\ InTriple(index) /\ Usable(candidate)
    BY <1>1, <1>4, SlotIs DEF TakeMatch, CompressType
  <2>2. /\ candidate \in Nat /\ offset \in 1 .. index /\ offset <= MaxOffset
        /\ length \in kMinMatch .. Size - index
        /\ \A k \in 1 .. length : input[candidate + k] = input[index + k]
    BY <2>1, UsableIs
  <2>3. /\ output' = output \o emitted /\ error' = error /\ error = "none"
        /\ anchor' = index + length
    BY <1>4 DEF TakeMatch
  <2>4. Literals = SubSeq(input, anchor + 1, index)
    BY DEF Literals
  <2> DEFINE next == [read |-> Len(output) + Len(emitted), made |-> index + length]
  <2>5. offset \in Nat /\ length \in Nat /\ length >= kMinMatch /\ candidate = index - offset
    BY <1>1, <2>2, SMTT(30) DEF kMinMatch
  <2>6. emitted \in Seq(Byte)
    <3>1. Literals \in Seq(Byte)
      BY <1>1, <2>4, LiteralsAre
    <3> HIDE DEF length, offset
    <3> QED
      BY <2>5, <3>1, EmissionIs
  <2> HIDE DEF candidate, length, offset
  <2>7. SequenceFrom(output \o emitted, Here, next, index, offset)
    <3>1. index \in anchor .. Size /\ index + length \in index + kMinMatch .. Size
          /\ (index + length) - index = length
      BY <1>1, <2>2, <2>5 DEF kMinMatch
    <3>2. ASSUME NEW i \in index + 1 .. index + length PROVE input[i] = input[i - offset]
      <4>1. i - index \in 1 .. length /\ candidate + (i - index) = i - offset /\ index + (i - index) = i
        BY <1>1, <2>2, <2>5
      <4>2. input[candidate + (i - index)] = input[index + (i - index)]
        BY <2>2, <4>1
      <4> QED
        BY <4>1, <4>2
    <3>3. Stands(output \o emitted, Len(output), emitted)
      <4> HIDE DEF emitted
      <4> QED
        BY <1>1, <2>6, StandsLast
    <3>4. emitted = EmitSequence(SubSeq(input, anchor + 1, index), offset, (index + length) - index)
      BY <2>4, <3>1
    <3>5. Here.read = Len(output) /\ Here.made = anchor
          /\ next.read = Len(output) + Len(emitted) /\ next.made = index + length
      BY DEF Here
    <3> HIDE DEF emitted, next
    <3> QED
      BY <2>2, <3>1, <3>2, <3>3, <3>4, <3>5 DEF SequenceFrom
  <2>8. Encodes(output \o emitted, Here, next)
    <3> HIDE DEF emitted, next
    <3> QED
      BY <1>1, <2>5, <2>7 DEF Encodes
  <2> HIDE DEF emitted
  <2>9. next \in Points /\ Here' = next
    <3>1. Len(emitted) \in Nat /\ Len(output \o emitted) = Len(output) + Len(emitted)
      BY <1>1, <2>6
    <3> QED
      BY <1>1, <2>3, <2>5, <3>1 DEF Points, Here
  <2> HIDE DEF next
  <2>10. PICK P \in SUBSET Points : Open(output, P, Here)
    BY <2>3 DEF EmittedInv, CompressedSoFar
  <2>11. Open(output \o emitted, P \cup {next}, next)
    <3>1. ASSUME NEW x \in P PROVE \E y \in P \cup {next} : Encodes(output \o emitted, x, y)
      <4>1. CASE x = Here
        BY <2>8, <4>1
      <4>2. CASE x # Here
        <5>1. PICK y \in P : Encodes(output, x, y)
          BY <2>10, <4>2 DEF Open
        <5>2. Encodes(output \o emitted, x, y)
          BY <1>1, <2>6, <2>10, <5>1, EncodesStill
        <5> QED
          BY <5>2
      <4> QED
        BY <4>1, <4>2
    <3> QED
      BY <2>10, <3>1 DEF Open
  <2>12. PICK Q \in SUBSET Points : Q = P \cup {next}
    BY <2>9, <2>10
  <2>13. Open(output', Q, Here')
    BY <2>3, <2>9, <2>11, <2>12
  <2>14. \A x, y : Encodes(output', x, y) => Encodes(output, x, y)'
    BY <1>2 DEF Encodes, SequenceFrom
  <2>15. Open(output, Q, Here)'
    BY <2>13, <2>14 DEF Open
  <2> QED
    BY <2>3, <2>15 DEF EmittedInv, CompressedSoFar
<1>5. CASE CompressTail
  <2>1. CASE Size = 0
    <3>1. error' = "Ok" /\ output' = <<>>
      BY <1>5, <2>1 DEF CompressTail
    <3> QED
      BY <1>2, <2>1, <3>1 DEF EmittedInv
  <2>2. CASE Size # 0
    <3> DEFINE emitted == EmitSequence(SubSeq(input, anchor + 1, Size), 0, 0)
    <3>1. error = "none" /\ error' = "Ok" /\ output' = output \o emitted
      BY <1>5, <2>2 DEF CompressTail
    <3>2. emitted \in Seq(Byte)
      <4>1. anchor <= Size /\ Size <= Size
        BY <1>1
      <4>2. SubSeq(input, anchor + 1, Size) \in Seq(Byte)
        BY <1>1, <4>1, LiteralsAre
      <4>3. 0 \in Nat /\ (0 = 0 \/ 0 >= kMinMatch)
        OBVIOUS
      <4> QED
        BY <4>2, <4>3, EmissionIs
    <3>3. PICK P \in SUBSET Points : Open(output, P, Here)
      BY <3>1 DEF EmittedInv, CompressedSoFar
    <3>4. Finishes(output \o emitted, Here)
      <4>1. anchor <= Size /\ Here.read = Len(output) /\ Here.made = anchor
        BY <1>1 DEF Here
      <4>2. emitted = EmitSequence(SubSeq(input, Here.made + 1, Size), 0, 0)
        BY <4>1
      <4> HIDE DEF emitted
      <4>3. Stands(output \o emitted, Len(output), emitted)
        BY <1>1, <3>2, StandsLast
      <4>4. Len(output \o emitted) = Len(output) + Len(emitted)
        BY <1>1, <3>2
      <4> QED
        BY <4>1, <4>2, <4>3, <4>4 DEF Finishes
    <3> HIDE DEF emitted
    <3>5. Complete(output', P)
      <4>1. ASSUME NEW x \in P, x # Here PROVE \E y \in P : Encodes(output \o emitted, x, y)
        <5>1. PICK y \in P : Encodes(output, x, y)
          BY <3>3, <4>1 DEF Open
        <5>2. Encodes(output \o emitted, x, y)
          BY <1>1, <3>2, <3>3, <5>1, EncodesStill
        <5> QED
          BY <5>2
      <4> QED
        BY <3>1, <3>3, <3>4, <4>1 DEF Open, Complete
    <3>6. \A x, y : Encodes(output', x, y) => Encodes(output, x, y)'
      BY <1>2 DEF Encodes, SequenceFrom
    <3>7. \A x : Finishes(output', x) => Finishes(output, x)'
      BY <1>2 DEF Finishes
    <3>8. Complete(output, P)'
      BY <3>5, <3>6, <3>7 DEF Complete
    <3> QED
      BY <1>2, <2>2, <3>1, <3>8 DEF EmittedInv, Compressed
  <2> QED
    BY <2>1, <2>2
<1>6. CASE CompressNoMemory
  BY <1>6 DEF CompressNoMemory, EmittedInv
<1> QED
  BY <1>3, <1>4, <1>5, <1>6 DEF CompressNext

-----------------------------------------------------------------------------
(* The decoder goes from point to point, and what it has written is the    *)
(* block.                                                                  *)
Reached == [read |-> inputOffset, made |-> outputOffset]

(* Between the two halves of a sequence: its match stands here, and y is   *)
(* where it ends.                                                          *)
MatchAt(y, offset) ==
  /\ offset \in 1 .. outputOffset /\ offset <= MaxOffset
  /\ y.made \in outputOffset + kMinMatch .. Size
  /\ token % TokenBase = InToken(Coded(y.made - outputOffset))
  /\ Stands(data, inputOffset, MatchPart(offset, y.made - outputOffset))
  /\ y.read = inputOffset + Len(MatchPart(offset, y.made - outputOffset))
  /\ \A i \in outputOffset + 1 .. y.made : input[i] = input[i - offset]

OnTheWay(P) ==
  /\ Complete(data, P)
  /\ status = "token" => Reached \in P
  /\ status = "match" => \E y \in P, offset \in Nat : MatchAt(y, offset)

ReadBack ==
  /\ expected = Size
  /\ status \in {"token", "match", "Ok", "NoMemory"}
  /\ \A i \in 1 .. outputOffset : buffer[i] = input[i]
  /\ IF Size = 0 THEN data = <<>> /\ status # "match"
     ELSE \E P \in SUBSET Points : OnTheWay(P)

(* What stands where the decoder is about to read a token: literals from   *)
(* next on, up to mid of the block, and a match up to y.                   *)
SequenceAt(x, y, mid, offset, next) ==
  /\ x.read < Len(data)
  /\ data[x.read + 1] % TokenBase = InToken(Coded(y.made - mid))
  /\ Decoder!ReadLength(data[x.read + 1] \div TokenBase, x.read + 1, 0) =
       [ok |-> TRUE, next |-> next, value |-> mid - x.made]
  /\ mid \in x.made .. Size
  /\ next + (mid - x.made) <= Len(data)
  /\ \A i \in x.made + 1 .. mid : data[next + (i - x.made)] = input[i]
  /\ offset \in 1 .. mid /\ offset <= MaxOffset
  /\ y.made \in mid + kMinMatch .. Size
  /\ Stands(data, next + (mid - x.made), MatchPart(offset, y.made - mid))
  /\ y.read = (next + (mid - x.made)) + Len(MatchPart(offset, y.made - mid))
  /\ \A i \in mid + 1 .. y.made : input[i] = input[i - offset]

LEMMA SequenceIs ==
  ASSUME Given, data \in Seq(Byte), NEW x \in Points, NEW y \in Points, Encodes(data, x, y)
  PROVE  \E mid \in Nat, offset \in Nat, next \in Nat : SequenceAt(x, y, mid, offset, next)
<1>1. PICK mid \in Nat, offset \in Nat : SequenceFrom(data, x, y, mid, offset)
  BY DEF Encodes
<1> DEFINE literals == SubSeq(input, x.made + 1, mid)
           match == y.made - mid
           next == (x.read + 1) + Len(PastToken(Len(literals)))
<1>2. Size \in Nat /\ x.read \in Nat /\ x.made \in Nat /\ y.made \in Nat
  BY SizeIs DEF Points
<1>3. x.made <= mid /\ mid <= Size /\ match \in Nat /\ match >= kMinMatch
  BY <1>1, <1>2, SMTT(30) DEF SequenceFrom, kMinMatch
<1>4. literals \in Seq(Byte) /\ Len(literals) = mid - x.made
  BY <1>2, <1>3, LiteralsAre
<1>5. \A i \in 1 .. mid - x.made : literals[i] = input[x.made + i]
  BY <1>2, <1>3, SliceIs, SMTT(30) DEF Given, Size
<1>6. /\ Stands(data, x.read, EmitSequence(literals, offset, match))
      /\ y.read = x.read + Len(EmitSequence(literals, offset, match))
  BY <1>1 DEF SequenceFrom
<1> HIDE DEF literals, match
<1>types. data \in Seq(Byte) /\ next = (x.read + 1) + Len(PastToken(Len(literals)))
  OBVIOUS
<1> HIDE DEF next
<1>7. /\ x.read < Len(data)
      /\ data[x.read + 1] % TokenBase = InToken(Coded(match))
      /\ Decoder!ReadLength(data[x.read + 1] \div TokenBase, x.read + 1, 0) =
           [ok |-> TRUE, next |-> next, value |-> Len(literals)]
      /\ next \in Nat
      /\ Stands(data, next, literals)
      /\ Stands(data, next + Len(literals), MatchPart(offset, match))
      /\ x.read + Len(EmitSequence(literals, offset, match)) =
           (next + Len(literals)) + Len(MatchPart(offset, match))
  <2> DEFINE a == x.read
  <2>1. /\ data \in Seq(Byte) /\ a \in Nat /\ literals \in Seq(Byte)
        /\ match \in Nat /\ offset \in Nat
        /\ match = 0 \/ match >= kMinMatch
        /\ Stands(data, a, EmitSequence(literals, offset, match))
        /\ next = (a + 1) + Len(PastToken(Len(literals)))
    BY <1>2, <1>3, <1>4, <1>6, <1>types
  <2> HIDE DEF a
  <2>2. /\ a < Len(data)
        /\ SecondHalfHas(data[a + 1], Coded(match))
        /\ Decoder!ReadLength(data[a + 1] \div TokenBase, a + 1, 0) =
             [ok |-> TRUE, next |-> next, value |-> Len(literals)]
        /\ next \in Nat
        /\ Stands(data, next, literals)
        /\ Stands(data, next + Len(literals), MatchPart(offset, match))
        /\ EndTogether(a, EmitSequence(literals, offset, match), next + Len(literals), MatchPart(offset, match))
    BY <2>1, LiteralsReadBack
  <2> QED
    BY <2>2 DEF a, SecondHalfHas, EndTogether
<1>8. next + (mid - x.made) <= Len(data)
  BY <1>4, <1>7 DEF Stands
<1>9. ASSUME NEW i \in x.made + 1 .. mid PROVE data[next + (i - x.made)] = input[i]
  <2>1. i - x.made \in 1 .. mid - x.made /\ x.made + (i - x.made) = i
    BY <1>2
  <2>2. data[next + (i - x.made)] = literals[i - x.made]
    BY <1>4, <1>7, <2>1 DEF Stands
  <2>3. literals[i - x.made] = input[x.made + (i - x.made)]
    BY <1>5, <2>1
  <2> QED
    BY <2>1, <2>2, <2>3
<1> next \in Nat
  BY <1>7
<1> WITNESS mid \in Nat, offset \in Nat, next \in Nat
<1>11. /\ data[x.read + 1] % TokenBase = InToken(Coded(y.made - mid))
       /\ Stands(data, next + (mid - x.made), MatchPart(offset, y.made - mid))
       /\ y.read = (next + (mid - x.made)) + Len(MatchPart(offset, y.made - mid))
  BY <1>4, <1>6, <1>7 DEF match
<1>12. /\ Decoder!ReadLength(data[x.read + 1] \div TokenBase, x.read + 1, 0) =
            [ok |-> TRUE, next |-> next, value |-> mid - x.made]
       /\ mid \in x.made .. Size
  BY <1>2, <1>3, <1>4, <1>7
<1>13. /\ offset \in 1 .. mid /\ offset <= MaxOffset
       /\ y.made \in mid + kMinMatch .. Size
       /\ \A i \in mid + 1 .. y.made : input[i] = input[i - offset]
  BY <1>1 DEF SequenceFrom
<1> QED
  BY <1>7, <1>8, <1>9, <1>11, <1>12, <1>13 DEF SequenceAt

LEMMA LastSequenceIs ==
  ASSUME Given, data \in Seq(Byte), NEW x \in Points, Finishes(data, x)
  PROVE  \E next \in Nat :
           /\ x.read < Len(data) /\ x.made <= Size
           /\ Decoder!ReadLength(data[x.read + 1] \div TokenBase, x.read + 1, 0) =
                [ok |-> TRUE, next |-> next, value |-> Size - x.made]
           /\ next + (Size - x.made) = Len(data)
           /\ \A i \in x.made + 1 .. Size : data[next + (i - x.made)] = input[i]
<1> DEFINE literals == SubSeq(input, x.made + 1, Size)
           next == (x.read + 1) + Len(PastToken(Len(literals)))
<1>1. Size \in Nat /\ x.read \in Nat /\ x.made \in Nat /\ x.made <= Size /\ Size <= Size
  BY SizeIs DEF Points, Finishes
<1>2. literals \in Seq(Byte) /\ Len(literals) = Size - x.made
  BY <1>1, LiteralsAre
<1>3. \A i \in 1 .. Size - x.made : literals[i] = input[x.made + i]
  <2>1. Size = Len(input) /\ input \in Seq(Byte)
    BY DEF Given, Size
  <2> QED
    BY <1>1, <2>1, SliceIs
<1>4. /\ Stands(data, x.read, EmitSequence(literals, 0, 0))
      /\ Len(data) = x.read + Len(EmitSequence(literals, 0, 0))
      /\ 0 \in Nat /\ (0 = 0 \/ 0 >= kMinMatch)
  BY DEF Finishes
<1> HIDE DEF literals
<1>types. data \in Seq(Byte) /\ next = (x.read + 1) + Len(PastToken(Len(literals)))
  OBVIOUS
<1> HIDE DEF next
<1>5. /\ x.read < Len(data)
      /\ Decoder!ReadLength(data[x.read + 1] \div TokenBase, x.read + 1, 0) =
           [ok |-> TRUE, next |-> next, value |-> Len(literals)]
      /\ next \in Nat
      /\ Stands(data, next, literals)
      /\ x.read + Len(EmitSequence(literals, 0, 0)) = (next + Len(literals)) + Len(MatchPart(0, 0))
  <2> DEFINE a == x.read
  <2>1. /\ data \in Seq(Byte) /\ a \in Nat /\ literals \in Seq(Byte)
        /\ Stands(data, a, EmitSequence(literals, 0, 0))
        /\ next = (a + 1) + Len(PastToken(Len(literals)))
    BY <1>1, <1>2, <1>4, <1>types
  <2> HIDE DEF a
  <2>2. /\ a < Len(data)
        /\ Decoder!ReadLength(data[a + 1] \div TokenBase, a + 1, 0) =
             [ok |-> TRUE, next |-> next, value |-> Len(literals)]
        /\ next \in Nat
        /\ Stands(data, next, literals)
        /\ EndTogether(a, EmitSequence(literals, 0, 0), next + Len(literals), MatchPart(0, 0))
    BY <1>4, <2>1, LiteralsReadBack
  <2> QED
    BY <2>2 DEF a, SecondHalfHas, EndTogether
<1>6. Len(MatchPart(0, 0)) = 0
  BY DEF MatchPart
<1>7. next + (Size - x.made) = Len(data)
  BY <1>1, <1>2, <1>4, <1>5, <1>6
<1>8. ASSUME NEW i \in x.made + 1 .. Size PROVE data[next + (i - x.made)] = input[i]
  <2>1. i - x.made \in 1 .. Size - x.made /\ x.made + (i - x.made) = i
    BY <1>1
  <2>2. data[next + (i - x.made)] = literals[i - x.made]
    BY <1>2, <1>5, <2>1 DEF Stands
  <2>3. literals[i - x.made] = input[x.made + (i - x.made)]
    BY <1>3, <2>1
  <2> QED
    BY <2>1, <2>2, <2>3
<1> next \in Nat
  BY <1>5
<1> WITNESS next \in Nat
<1> QED
  BY <1>1, <1>2, <1>5, <1>7, <1>8

LEMMA NextReadBack ==
  ASSUME Given, DecoderInv, ReadBack, Decoder!DecompressNext, input' = input
  PROVE  ReadBack'
<1>1. /\ data \in Seq(Byte) /\ Len(data) \in Nat /\ expected = Size /\ Size \in Nat
      /\ inputOffset \in 0 .. Len(data) /\ outputOffset \in 0 .. Size
      /\ buffer \in [1 .. Size -> Byte \cup {Stale}]
      /\ \A i \in 1 .. outputOffset : buffer[i] = input[i]
      /\ Reached \in Points /\ Reached.read = inputOffset /\ Reached.made = outputOffset
  <2>1. data \in Seq(Byte) /\ expected = Size /\ Size \in Nat
    BY SizeIs DEF DecoderInv, DecompressType, ReadBack
  <2>2. Len(data) \in Nat
    BY <2>1
  <2>3. inputOffset \in 0 .. Len(data) /\ outputOffset \in 0 .. Size
        /\ buffer \in [1 .. Size -> Byte \cup {Stale}]
    BY <2>1, SameFormat DEF DecoderInv, DecompressType, Decoder!DecompressTypeOK
  <2> QED
    BY <2>1, <2>2, <2>3 DEF ReadBack, Reached, Points
<1>2. data' = data /\ expected' = expected /\ Size' = Size
  BY DEF Decoder!DecompressNext, Decoder!DecompressNoMemory, Decoder!DecompressEnd,
         Decoder!ReadLiterals, Decoder!ReadMatch, Decoder!block, Size
<1>3. \A P : Complete(data, P) => Complete(data, P)'
  <2>1. \A x, y : Encodes(data, x, y) => Encodes(data, x, y)'
    BY <1>2 DEF Encodes, SequenceFrom
  <2>2. \A x : Finishes(data, x) => Finishes(data, x)'
    BY <1>2 DEF Finishes
  <2> QED
    BY <2>1, <2>2 DEF Complete
<1>4. CASE Size = 0
  <2>1. data = <<>> /\ Len(data) = 0 /\ status # "match" /\ inputOffset = 0 /\ outputOffset = 0
    BY <1>1, <1>4 DEF ReadBack
  <2>2. CASE Decoder!DecompressNoMemory
    BY <1>2, <1>4, <2>1, <2>2 DEF ReadBack, Decoder!DecompressNoMemory, Decoder!Return
  <2>3. CASE Decoder!DecompressEnd
    BY <1>1, <1>2, <1>4, <2>1, <2>3 DEF ReadBack, Decoder!DecompressEnd, Decoder!Return
  <2> QED
    BY <2>1, <2>2, <2>3 DEF Decoder!DecompressNext, Decoder!ReadLiterals, Decoder!ReadMatch
<1>5. CASE Size # 0
  <2>1. PICK P \in SUBSET Points : OnTheWay(P)
    BY <1>5 DEF ReadBack
  <2>2. Complete(data, P) /\ Complete(data, P)'
    BY <1>3, <2>1 DEF OnTheWay
  <2>3. ASSUME status' \in {"token", "match", "Ok", "NoMemory"},
               \A i \in 1 .. outputOffset' : buffer'[i] = input[i],
               OnTheWay(P)'
        PROVE  ReadBack'
    BY <1>1, <1>2, <1>5, <2>3 DEF ReadBack
  <2>4. CASE Decoder!DecompressNoMemory
    <3>1. status' = "NoMemory" /\ buffer' = buffer /\ outputOffset' = outputOffset
      BY <2>4 DEF Decoder!DecompressNoMemory, Decoder!Return
    <3>2. OnTheWay(P)'
      BY <2>2, <3>1 DEF OnTheWay
    <3> QED
      BY <1>1, <2>3, <3>1, <3>2
  <2>5. ASSUME status = "token"
        PROVE  \/ /\ Finishes(data, Reached)
               \/ \E y \in P : Encodes(data, Reached, y)
    BY <2>1, <2>5 DEF OnTheWay, Complete
  <2>6. CASE Decoder!DecompressEnd
    <3>1. status = "token" /\ ~(inputOffset < Len(data))
      BY <1>1, <2>6 DEF Decoder!DecompressEnd
    <3>2. inputOffset < Len(data)
      <4>1. CASE Finishes(data, Reached)
        BY <1>1, <4>1, LastSequenceIs
      <4>2. ASSUME NEW y \in P, Encodes(data, Reached, y) PROVE inputOffset < Len(data)
        BY <1>1, <4>2, SequenceIs DEF SequenceAt
      <4> QED
        BY <2>5, <3>1, <4>1, <4>2
    <3> QED
      BY <3>1, <3>2
  <2>7. CASE Decoder!ReadLiterals
    <3> DEFINE t == data[inputOffset + 1]
               run == Decoder!ReadLength(t \div TokenBase, inputOffset + 1, 0)
    <3>1. status = "token" /\ inputOffset < Len(data)
      BY <2>7 DEF Decoder!ReadLiterals
    <3>2. ASSUME NEW next \in Nat, NEW n \in Nat,
                 run = [ok |-> TRUE, next |-> next, value |-> n],
                 next + n <= Len(data), outputOffset + n <= Size,
                 \A i \in outputOffset + 1 .. outputOffset + n : data[next + (i - outputOffset)] = input[i]
          PROVE  /\ inputOffset' = next + n /\ outputOffset' = outputOffset + n /\ token' = t
                 /\ status' = IF outputOffset + n < Size THEN "match"
                              ELSE IF next + n = Len(data) THEN "Ok" ELSE "CorruptData"
                 /\ \A i \in 1 .. outputOffset' : buffer'[i] = input[i]
      <4> DEFINE filled == [i \in 1 .. Size |->
                              IF i \in outputOffset + 1 .. outputOffset + n
                                THEN data[next + i - outputOffset] ELSE buffer[i]]
      <4>1. run.ok /\ run.next = next /\ run.value = n
        BY <3>2
      <4> HIDE DEF run
      <4>2. ~(~run.ok \/ run.next + run.value > Len(data) \/ outputOffset + run.value > expected)
        BY <1>1, <3>2, <4>1
      <4>3. /\ buffer' = filled
            /\ inputOffset' = next + n
            /\ outputOffset' = outputOffset + n
            /\ token' = t
            /\ status' = IF outputOffset + n < Size THEN "match"
                         ELSE IF next + n = Len(data) THEN "Ok" ELSE "CorruptData"
        BY <1>1, <2>7, <4>1, <4>2 DEF Decoder!ReadLiterals, Decoder!Return, run
      <4>4. ASSUME NEW i \in 1 .. outputOffset + n PROVE filled[i] = input[i]
        <5>1. i \in 1 .. Size
          BY <1>1, <3>2
        <5>2. CASE i \in 1 .. outputOffset
          BY <1>1, <5>1, <5>2
        <5>3. CASE i \notin 1 .. outputOffset
          <6>1. i \in outputOffset + 1 .. outputOffset + n
            BY <1>1, <5>3
          <6>2. next + i - outputOffset = next + (i - outputOffset)
            BY <1>1
          <6>3. filled[i] = data[next + (i - outputOffset)]
            BY <5>1, <6>1, <6>2
          <6> QED
            BY <3>2, <6>1, <6>3
        <5> QED
          BY <5>2, <5>3
      <4> HIDE DEF filled
      <4> QED
        BY <4>3, <4>4
    <3> HIDE DEF run, t
    <3>3. CASE Finishes(data, Reached)
      <4>1. PICK next \in Nat :
              /\ run = [ok |-> TRUE, next |-> next, value |-> Size - outputOffset]
              /\ next + (Size - outputOffset) = Len(data)
              /\ \A i \in outputOffset + 1 .. Size : data[next + (i - outputOffset)] = input[i]
        BY <1>1, <3>3, LastSequenceIs DEF run, t
      <4> DEFINE n == Size - outputOffset
      <4>2. n \in Nat /\ outputOffset + n = Size /\ next + n = Len(data) /\ Size <= Size /\ Len(data) <= Len(data)
        BY <1>1, <4>1
      <4>3. run = [ok |-> TRUE, next |-> next, value |-> n]
        BY <4>1
      <4> HIDE DEF n
      <4>4. /\ status' = IF Size < Size THEN "match" ELSE IF Len(data) = Len(data) THEN "Ok" ELSE "CorruptData"
            /\ \A i \in 1 .. outputOffset' : buffer'[i] = input[i]
        BY <3>2, <4>1, <4>2, <4>3
      <4>5. status' = "Ok"
        BY <1>1, <4>4
      <4>6. OnTheWay(P)'
        BY <2>2, <4>5 DEF OnTheWay
      <4> QED
        BY <2>3, <4>4, <4>5, <4>6
    <3>4. ASSUME NEW y \in P, Encodes(data, Reached, y) PROVE ReadBack'
      <4>0. PICK mid \in Nat, offset \in Nat, next \in Nat : SequenceAt(Reached, y, mid, offset, next)
        BY <1>1, <3>4, SequenceIs
      <4>1. /\ t % TokenBase = InToken(Coded(y.made - mid))
            /\ run = [ok |-> TRUE, next |-> next, value |-> mid - outputOffset]
            /\ mid \in outputOffset .. Size
            /\ next + (mid - outputOffset) <= Len(data)
            /\ \A i \in outputOffset + 1 .. mid : data[next + (i - outputOffset)] = input[i]
            /\ offset \in 1 .. mid /\ offset <= MaxOffset
            /\ y.made \in mid + kMinMatch .. Size
            /\ Stands(data, next + (mid - outputOffset), MatchPart(offset, y.made - mid))
            /\ y.read = (next + (mid - outputOffset)) + Len(MatchPart(offset, y.made - mid))
            /\ \A i \in mid + 1 .. y.made : input[i] = input[i - offset]
        BY <1>1, <4>0 DEF SequenceAt, run, t
      <4> DEFINE n == mid - outputOffset
      <4>2. n \in Nat /\ outputOffset + n = mid /\ mid <= Size /\ mid < Size
        BY <1>1, <4>1, SMTT(30) DEF kMinMatch
      <4>3. run = [ok |-> TRUE, next |-> next, value |-> n] /\ next + n <= Len(data)
        BY <4>1
      <4> HIDE DEF n
      <4>4. /\ inputOffset' = next + n /\ outputOffset' = mid /\ token' = t
            /\ status' = IF mid < Size THEN "match" ELSE IF next + n = Len(data) THEN "Ok" ELSE "CorruptData"
            /\ \A i \in 1 .. outputOffset' : buffer'[i] = input[i]
        BY <3>2, <4>1, <4>2, <4>3
      <4>5. status' = "match"
        BY <4>2, <4>4
      <4>6. MatchAt(y, offset)'
        BY <1>2, <4>1, <4>4 DEF MatchAt, n
      <4>7. OnTheWay(P)'
        BY <2>2, <4>5, <4>6 DEF OnTheWay
      <4> QED
        BY <2>3, <4>4, <4>5, <4>7
    <3> QED
      BY <2>5, <3>1, <3>3, <3>4
  <2>8. CASE Decoder!ReadMatch
    <3>1. PICK y \in P, offset \in Nat : MatchAt(y, offset)
      BY <2>1, <2>8 DEF OnTheWay, Decoder!ReadMatch
    <3> DEFINE match == y.made - outputOffset
               run == Decoder!ReadLength(token % TokenBase, inputOffset + 2, kMinMatch)
               copied == Decoder!Copied(offset, match)
               from(i) == outputOffset - offset + 1 + ((i - outputOffset - 1) % offset)
    <3>2. /\ match \in Nat /\ match >= kMinMatch /\ outputOffset + match = y.made
          /\ y.made \in Nat /\ y.made <= Size /\ outputOffset \in Nat /\ inputOffset \in Nat
          /\ offset \in Nat \ {0} /\ offset <= outputOffset /\ offset <= MaxOffset
      <4>1. outputOffset \in Nat /\ inputOffset \in Nat /\ outputOffset <= Size
        BY <1>1
      <4>2. y.made \in outputOffset + kMinMatch .. Size /\ offset \in 1 .. outputOffset /\ offset <= MaxOffset
        BY <3>1 DEF MatchAt
      <4> DEFINE made == y.made
      <4>3. made \in Nat /\ made >= outputOffset + kMinMatch /\ made <= Size
        BY <1>1, <4>1, <4>2 DEF kMinMatch
      <4> HIDE DEF made
      <4>4. made - outputOffset \in Nat /\ made - outputOffset >= kMinMatch
            /\ outputOffset + (made - outputOffset) = made
        BY <4>1, <4>3 DEF kMinMatch
      <4> QED
        BY <4>1, <4>2, <4>3, <4>4 DEF made
    <3>3. /\ token % TokenBase = InToken(Coded(match))
          /\ Stands(data, inputOffset, MatchPart(offset, match))
          /\ y.read = inputOffset + Len(MatchPart(offset, match))
          /\ \A i \in outputOffset + 1 .. y.made : input[i] = input[i - offset]
      BY <3>1 DEF MatchAt
    <3> HIDE DEF match
    <3>4. /\ inputOffset + 2 <= Len(data)
          /\ data[inputOffset + 1] + data[inputOffset + 2] * ByteBase = offset
          /\ Decoder!ReadLength(InToken(Coded(match)), inputOffset + 2, kMinMatch) =
               [ok |-> TRUE, next |-> inputOffset + Len(MatchPart(offset, match)), value |-> match]
      BY <1>1, <3>2, <3>3, MatchReadBack
    <3>5. Decoder!MatchOffset = offset
      BY <3>4, SameFormat DEF Decoder!MatchOffset
    <3>6. run = [ok |-> TRUE, next |-> y.read, value |-> match]
      BY <3>3, <3>4
    <3>7. run.ok /\ run.next = y.read /\ run.value = match
      BY <3>6
    <3> HIDE DEF run
    <3>8. ~(\/ inputOffset + 2 > Len(data)
            \/ Decoder!MatchOffset = 0 \/ Decoder!MatchOffset > outputOffset
            \/ ~run.ok
            \/ outputOffset + run.value > expected)
      BY <1>1, <3>2, <3>4, <3>5, <3>7
    <3>9. /\ buffer' = copied
          /\ inputOffset' = y.read
          /\ outputOffset' = y.made
          /\ status' = "token"
      BY <2>8, <3>2, <3>5, <3>7, <3>8, SameFormat DEF Decoder!ReadMatch, Decoder!Return, run
    <3>10. copied = [i \in 1 .. Size |-> IF i \in outputOffset + 1 .. y.made THEN buffer[from(i)] ELSE buffer[i]]
      BY <1>1, <3>2 DEF Decoder!Copied
    <3>11. \A i \in outputOffset + 1 .. y.made : input[i] = input[from(i)]
      <4> DEFINE made == y.made
      <4>1. made \in Nat /\ \A i \in outputOffset + 1 .. made : input[i] = input[i - offset]
        BY <3>2, <3>3
      <4>2. outputOffset \in Nat /\ offset \in Nat \ {0} /\ offset <= outputOffset
        BY <3>2
      <4> HIDE DEF made
      <4>3. \A i \in outputOffset + 1 .. made : input[i] = input[outputOffset - offset + 1 + ((i - outputOffset - 1) % offset)]
        BY <4>1, <4>2, Periodic
      <4> QED
        BY <4>3 DEF made
    <3>12. ASSUME NEW i \in outputOffset + 1 .. y.made PROVE from(i) \in 1 .. outputOffset
      <4>1. i - outputOffset - 1 \in Nat
        BY <3>2
      <4>2. (i - outputOffset - 1) % offset \in 0 .. offset - 1
        BY <3>2, <4>1, Remainder
      <4> QED
        BY <3>2, <4>2
    <3> HIDE DEF copied, from
    <3>13. ASSUME NEW i \in 1 .. y.made PROVE copied[i] = input[i]
      <4>1. i \in 1 .. Size /\ (i \in 1 .. outputOffset \/ i \in outputOffset + 1 .. y.made)
        <5> DEFINE made == y.made
        <5>1. made \in Nat /\ made <= Size /\ i \in 1 .. made
          BY <3>2
        <5> HIDE DEF made
        <5>2. i \in 1 .. Size /\ (i \in 1 .. outputOffset \/ i \in outputOffset + 1 .. made)
          BY <1>1, <3>2, <5>1
        <5> QED
          BY <5>2 DEF made
      <4>2. CASE i \in 1 .. outputOffset
        <5>1. i \notin outputOffset + 1 .. y.made
          BY <3>2, <4>2
        <5> QED
          BY <1>1, <3>10, <4>1, <4>2, <5>1
      <4>3. CASE i \in outputOffset + 1 .. y.made
        <5>1. copied[i] = buffer[from(i)] /\ buffer[from(i)] = input[from(i)]
          BY <1>1, <3>10, <3>12, <4>1, <4>3
        <5> QED
          BY <3>11, <4>3, <5>1
      <4> QED
        BY <4>1, <4>2, <4>3
    <3>14. Reached' = y
      BY <2>1, <3>1, <3>9 DEF Reached, Points
    <3>15. OnTheWay(P)'
      BY <2>2, <3>9, <3>14 DEF OnTheWay
    <3> QED
      BY <2>3, <3>9, <3>13, <3>15
  <2> QED
    BY <2>4, <2>6, <2>7, <2>8 DEF Decoder!DecompressNext
<1> QED
  BY <1>4, <1>5

-----------------------------------------------------------------------------
(* A block and its decoding, at every step of both loops. *)
RoundTripInv ==
  /\ Inv
  /\ EmittedInv
  /\ stage = "decompress" /\ error = "Ok" => ReadBack

LEMMA InitRoundTrip == Init => RoundTripInv
<1> SUFFICES ASSUME Init PROVE RoundTripInv
  OBVIOUS
<1>1. Inv
  BY InitInv
<1>2. EmittedInv
  BY <1>1, StartEmitted DEF Inv, CompressType, Init
<1>3. error = "none"
  BY DEF Init, Start
<1> QED
  BY <1>1, <1>2, <1>3 DEF RoundTripInv

(* What is passed on is the whole of what was compressed. *)
LEMMA PassOnReadsBack == ASSUME RoundTripInv, PassOn PROVE ReadBack'
<1>1. /\ input' = input /\ Size' = Size /\ data' = output /\ expected' = Size
      /\ inputOffset' = 0 /\ outputOffset' = 0 /\ status' = "token"
      /\ error = "Ok"
  BY DEF PassOn, cvars, given, RoundTripInv, Inv, AtStart, Size
<1>2. Reached' = Origin
  BY <1>1 DEF Reached, Origin
<1>3. \A i \in 1 .. outputOffset' : buffer'[i] = input'[i]
  BY <1>1
<1>4. CASE Size = 0
  BY <1>1, <1>3, <1>4 DEF RoundTripInv, EmittedInv, ReadBack
<1>5. CASE Size # 0
  <2>1. PICK P \in SUBSET Points : Complete(output, P)
    BY <1>1, <1>5 DEF RoundTripInv, EmittedInv, Compressed
  <2>2. \A x, y : Encodes(output, x, y) => Encodes(data, x, y)'
    BY <1>1 DEF Encodes, SequenceFrom
  <2>3. \A x : Finishes(output, x) => Finishes(data, x)'
    BY <1>1 DEF Finishes
  <2>4. Complete(data, P)'
    BY <2>1, <2>2, <2>3 DEF Complete
  <2>5. Origin \in P
    BY <2>1 DEF Complete
  <2>6. OnTheWay(P)'
    BY <1>1, <1>2, <2>4, <2>5 DEF OnTheWay
  <2> QED
    BY <1>1, <1>3, <1>5, <2>6 DEF ReadBack
<1> QED
  BY <1>4, <1>5

LEMMA ReadBackStill ==
  ASSUME ReadBack,
         input' = input, Size' = Size, data' = data, expected' = expected, status' = status,
         inputOffset' = inputOffset, outputOffset' = outputOffset, buffer' = buffer, token' = token
  PROVE  ReadBack'
<1>1. \A x, y, mid, offset :
        SequenceFrom(data, x, y, mid, offset) => SequenceFrom(data, x, y, mid, offset)'
  BY DEF SequenceFrom
<1>2. \A x, y : Encodes(data, x, y) => Encodes(data, x, y)'
  BY <1>1 DEF Encodes
<1>3. \A x : Finishes(data, x) => Finishes(data, x)'
  BY DEF Finishes
<1>4. \A P : Complete(data, P) => Complete(data, P)'
  BY <1>2, <1>3 DEF Complete
<1>5. \A y, offset : MatchAt(y, offset) => MatchAt(y, offset)'
  BY DEF MatchAt
<1>6. Reached' = Reached
  BY DEF Reached
<1>7. \A P : OnTheWay(P) => OnTheWay(P)'
  BY <1>4, <1>5, <1>6 DEF OnTheWay
<1> QED
  BY <1>7 DEF ReadBack

LEMMA NextRoundTrip == ASSUME RoundTripInv, [Next]_vars PROVE RoundTripInv'
<1>1. Inv'
  BY NextInv DEF RoundTripInv
<1>2. Given
  BY DEF RoundTripInv, Inv, CompressType
<1>3. ASSUME UNCHANGED cvars PROVE EmittedInv'
  <2>1. input' = input /\ output' = output /\ anchor' = anchor /\ error' = error /\ Size' = Size
    BY <1>3 DEF cvars, given, Size
  <2> QED
    BY <2>1, EmittedStill DEF RoundTripInv
<1>4. CASE Compress
  <2>1. EmittedInv'
    BY <1>4, NextEmitted DEF Compress, RoundTripInv, Inv
  <2>2. stage' # "decompress"
    BY <1>4 DEF Compress
  <2> QED
    BY <1>1, <2>1, <2>2 DEF RoundTripInv
<1>5. CASE PassOn
  <2>1. EmittedInv'
    BY <1>3, <1>5 DEF PassOn
  <2> QED
    BY <1>1, <1>5, <2>1, PassOnReadsBack DEF RoundTripInv
<1>6. CASE Decompress
  <2>1. EmittedInv' /\ stage = "decompress" /\ error' = error /\ input' = input
    BY <1>3, <1>6 DEF Decompress, cvars, given
  <2>2. ASSUME error = "Ok" PROVE ReadBack'
    BY <1>2, <1>6, <2>1, <2>2, NextReadBack DEF Decompress, RoundTripInv, Inv
  <2> QED
    BY <1>1, <2>1, <2>2 DEF RoundTripInv
<1>7. CASE UNCHANGED vars
  <2>1. EmittedInv'
    BY <1>3, <1>7 DEF vars
  <2>2. /\ stage' = stage /\ error' = error /\ input' = input /\ Size' = Size /\ data' = data
        /\ expected' = expected /\ inputOffset' = inputOffset /\ outputOffset' = outputOffset
        /\ buffer' = buffer /\ token' = token /\ status' = status
    BY <1>7 DEF vars, cvars, given, decoder, Size
  <2>3. ReadBack => ReadBack'
    BY <2>2, ReadBackStill
  <2> QED
    BY <1>1, <2>1, <2>2, <2>3 DEF RoundTripInv
<1> QED
  BY <1>4, <1>5, <1>6, <1>7 DEF Next

(* Every block decodes to itself, whatever its bytes, the window and the   *)
(* collisions of the hash: the decoder refuses nothing that the compressor *)
(* made.                                                                   *)
THEOREM BlocksDecodeToThemselves == Spec => []RoundTrip
<1>1. Spec => []RoundTripInv
  BY InitRoundTrip, NextRoundTrip, PTL DEF Spec
<1>2. RoundTripInv => RoundTrip
  <2> SUFFICES ASSUME RoundTripInv, stage = "decompress", error = "Ok"
               PROVE  /\ status \in Decoder!Returned => status \in {"Ok", "NoMemory"}
                      /\ status = "Ok" => buffer = input
    BY DEF RoundTrip
  <2>1. /\ status \in {"token", "match", "Ok", "NoMemory"}
        /\ expected = Size /\ \A i \in 1 .. outputOffset : buffer[i] = input[i]
    BY DEF RoundTripInv, ReadBack
  <2>2. status \in Decoder!Returned => status \in {"Ok", "NoMemory"}
    BY <2>1 DEF Decoder!Returned
  <2>3. ASSUME status = "Ok" PROVE buffer = input
    <3>1. outputOffset = Size /\ buffer \in [1 .. Size -> Byte \cup {Stale}] /\ input \in Seq(Byte)
      BY <2>1, <2>3, SameFormat
      DEF RoundTripInv, Inv, DecoderInv, DecompressType, Decoder!DecompressTypeOK, CompressType, Given
    <3>2. input \in [1 .. Size -> Byte]
      BY <3>1, LenProperties DEF Size
    <3>3. buffer = [i \in 1 .. Size |-> buffer[i]] /\ input = [i \in 1 .. Size |-> input[i]]
      BY <3>1, <3>2
    <3>4. \A i \in 1 .. Size : buffer[i] = input[i]
      BY <2>1, <3>1
    <3> QED
      BY <3>3, <3>4
  <2> QED
    BY <2>2, <2>3
<1> QED
  BY <1>1, <1>2, PTL

-----------------------------------------------------------------------------
(* What the decoder accepts is an emission: the converse of reading back.  *)

(* A length that was read is the one that is written in those bytes. *)
LEMMA LengthIsEmitted ==
  ASSUME data \in Seq(Byte), NEW half \in 0 .. Nibble, NEW from \in 0 .. Len(data), NEW least \in Nat,
         Decoder!ReadLength(half, from, least).ok
  PROVE  \E v \in Nat :
           /\ InToken(v) = half
           /\ Stands(data, from, PastToken(v))
           /\ Decoder!ReadLength(half, from, least) =
                [ok |-> TRUE, next |-> from + Len(PastToken(v)), value |-> least + v]
<1>1. Len(data) \in Nat /\ Nibble \in Nat /\ half \in Nat /\ from \in Nat /\ half <= Nibble
  BY Bases
<1>2. CASE half # Nibble
  <2>1. half < Nibble /\ InToken(half) = half /\ PastToken(half) = <<>>
    BY <1>1, <1>2 DEF InToken, PastToken
  <2>2. Stands(data, from, <<>>) /\ from + Len(<<>>) = from
    BY <1>1 DEF Stands
  <2>3. Decoder!ReadLength(half, from, least) = [ok |-> TRUE, next |-> from, value |-> least + half]
    BY <1>2, SameFormat DEF Decoder!ReadLength
  <2> QED
    BY <1>1, <2>1, <2>2, <2>3
<1>3. CASE half = Nibble
  <2> DEFINE ends == {k \in from + 1 .. Len(data) : data[k] # ByteMax}
             last == CHOOSE k \in ends : \A j \in ends : k <= j
             m == last - from - 1
             w == ByteMax * m + data[last]
             v == Nibble + w
             bytes == LengthBytes(w)
  <2>1. Decoder!ReadLength(half, from, least) = Decoder!ReadExtendedLength(from, least + Nibble)
    BY <1>3, SameFormat DEF Decoder!ReadLength
  <2>2. Decoder!ReadExtendedLength(from, least + Nibble) =
          IF ends = {} THEN Decoder!Bad
          ELSE [ok |-> TRUE, next |-> last, value |-> (least + Nibble) + ByteMax * m + data[last]]
    BY SameFormat, Zenon DEF Decoder!ReadExtendedLength
  <2>3. ends # {}
    BY <2>1, <2>2 DEF Decoder!Bad
  <2>4. last \in ends /\ \A j \in ends : last <= j
    <3>1. ends \subseteq Nat
      BY <1>1
    <3> HIDE DEF ends
    <3>2. \E k \in ends : \A j \in ends : k <= j
      BY <2>3, <3>1, LeastElement
    <3> QED
      BY <3>2
  <2>5. last \in from + 1 .. Len(data) /\ data[last] # ByteMax
    BY <2>4
  <2>6. \A i \in 1 .. last - from - 1 : data[from + i] = ByteMax
    <3> SUFFICES ASSUME NEW i \in 1 .. last - from - 1, data[from + i] # ByteMax PROVE FALSE
      OBVIOUS
    <3>1. from + i \in from + 1 .. Len(data) /\ from + i < last
      BY <1>1, <2>5
    <3>2. from + i \in ends
      BY <3>1
    <3> HIDE DEF ends, last
    <3> QED
      BY <1>1, <2>4, <2>5, <3>1, <3>2
  <2> HIDE DEF ends, last
  <2>7. m \in Nat /\ last = from + (m + 1) /\ data[last] \in 0 .. ByteMax - 1
    BY <1>1, <2>5, Bases
  <2>8. w \in Nat /\ w \div ByteMax = m /\ w % ByteMax = data[last]
    <3> DEFINE r == data[last]
    <3>1. ByteMax \in Nat \ {0} /\ m \in Nat /\ r \in 0 .. ByteMax - 1
      BY <2>7, Bases
    <3> HIDE DEF m, r
    <3>2. ByteMax * m + r \in Nat /\ (ByteMax * m + r) \div ByteMax = m /\ (ByteMax * m + r) % ByteMax = r
      BY <3>1, QuotientOf
    <3> QED
      BY <3>2 DEF r
  <2> HIDE DEF m, w
  <2>9. /\ bytes \in Seq(Byte) /\ Len(bytes) = m + 1
        /\ \A i \in 1 .. m : bytes[i] = ByteMax
        /\ bytes[m + 1] = data[last]
    BY <2>8, LengthBytesAre
  <2> HIDE DEF bytes
  <2>10. v \in Nat /\ ~(v < Nibble) /\ v - Nibble = w
    BY <1>1, <2>8
  <2>11. InToken(v) = half /\ PastToken(v) = bytes
    BY <1>3, <2>10 DEF InToken, PastToken, bytes
  <2>12. Stands(data, from, bytes)
    <3>1. ASSUME NEW i \in 1 .. m + 1 PROVE data[from + i] = bytes[i]
      <4>1. CASE i = m + 1
        BY <2>7, <2>9, <4>1
      <4>2. CASE i # m + 1
        <5>1. i \in 1 .. m
          BY <2>7, <4>2
        <5> QED
          BY <2>6, <2>9, <5>1 DEF m
      <4> QED
        BY <4>1, <4>2
    <3>2. from + (m + 1) <= Len(data)
      BY <2>5, <2>7
    <3> QED
      BY <2>9, <3>1, <3>2 DEF Stands
  <2>13. (least + Nibble) + ByteMax * m + data[last] = least + v
    <3>1. ByteMax * m \in Nat /\ data[last] \in Nat
      BY <2>7, Bases, Product
    <3> QED
      BY <1>1, <3>1 DEF w
  <2>14. last = from + Len(bytes)
    BY <2>7, <2>9
  <2> HIDE DEF v
  <2>15. Decoder!ReadLength(half, from, least) = [ok |-> TRUE, next |-> last, value |-> least + v]
    BY <2>1, <2>2, <2>3, <2>13
  <2> QED
    BY <2>10, <2>11, <2>12, <2>14, <2>15
<1> QED
  BY <1>2, <1>3

(* The sequences the decoder takes its bytes for, and their emission. *)
Parses == {p \in [literals : Seq(Byte), offset : Nat, match : Nat] : p.match = 0 \/ p.match >= kMinMatch}

Emission(p)  == EmitSequence(p.literals, p.offset, p.match)
Emissions(s) == [k \in 1 .. Len(s) |-> Emission(s[k])]
Emitted(s)   == FlattenSeq(Emissions(s))

LEMMA EmissionType ==
  ASSUME NEW p \in Parses
  PROVE  /\ Emission(p) \in Seq(Byte)
         /\ Len(Emission(p)) \in Nat
<1>1. p.literals \in Seq(Byte) /\ p.offset \in Nat /\ p.match \in Nat /\ (p.match = 0 \/ p.match >= kMinMatch)
  BY DEF Parses
<1>2. EmitSequence(p.literals, p.offset, p.match) \in Seq(Byte)
  BY <1>1, EmissionIs
<1> QED
  BY <1>2 DEF Emission

LEMMA EmissionsType ==
  ASSUME NEW s \in Seq(Parses)
  PROVE  /\ Emissions(s) \in Seq(Seq(Byte))
         /\ Len(Emissions(s)) = Len(s)
         /\ \A k \in 1 .. Len(s) : Emissions(s)[k] = Emission(s[k])
<1>1. Len(s) \in Nat /\ \A k \in 1 .. Len(s) : s[k] \in Parses
  OBVIOUS
<1>2. \A k \in 1 .. Len(s) : Emission(s[k]) \in Seq(Byte)
  BY <1>1, EmissionType
<1> QED
  BY <1>1, <1>2 DEF Emissions

LEMMA EmittedAppend ==
  ASSUME NEW s \in Seq(Parses), NEW p \in Parses
  PROVE  /\ Emitted(s) \in Seq(Byte)
         /\ Emitted(Append(s, p)) = Emitted(s) \o Emission(p)
<1> DEFINE n == Len(s)
           t == Append(s, p)
<1>1. n \in Nat /\ t \in Seq(Parses) /\ Len(t) = n + 1 /\ t[n + 1] = p /\ \A k \in 1 .. n : t[k] = s[k]
  OBVIOUS
<1>3. Emission(p) \in Seq(Byte)
  BY EmissionType
<1>4. /\ Emissions(s) \in Seq(Seq(Byte)) /\ Len(Emissions(s)) = n
      /\ \A k \in 1 .. n : Emissions(s)[k] = Emission(s[k])
  BY EmissionsType
<1>typed. /\ Emissions(t) \in Seq(Seq(Byte)) /\ Len(Emissions(t)) = n + 1
      /\ \A k \in 1 .. n + 1 : Emissions(t)[k] = Emission(t[k])
  BY <1>1, EmissionsType
<1>5. Emissions(t) = Append(Emissions(s), Emission(p))
  <2> DEFINE e == Emissions(s)
             x == Emission(p)
             f == Emissions(t)
  <2>1. /\ e \in Seq(Seq(Byte)) /\ Len(e) = n /\ x \in Seq(Byte) /\ n \in Nat
        /\ \A k \in 1 .. n : e[k] = Emission(s[k])
    BY <1>1, <1>3, <1>4
  <2>2. \A k \in 1 .. n + 1 : f[k] = IF k = n + 1 THEN x ELSE e[k]
    <3> SUFFICES ASSUME NEW k \in 1 .. n + 1 PROVE f[k] = IF k = n + 1 THEN x ELSE e[k]
      OBVIOUS
    <3>1. f[k] = Emission(t[k])
      BY <1>typed
    <3>2. CASE k = n + 1
      BY <1>1, <3>1, <3>2
    <3>3. CASE k # n + 1
      <4>1. k \in 1 .. n
        BY <1>1, <3>3
      <4> QED
        BY <1>1, <2>1, <3>1, <3>3, <4>1
    <3> QED
      BY <3>2, <3>3
  <2>3. Len(f) = n + 1 /\ f \in Seq(Seq(Byte))
    BY <1>typed
  <2> HIDE DEF e, x, f, n
  <2>5. /\ Append(e, x) \in Seq(Seq(Byte)) /\ Len(Append(e, x)) = n + 1
        /\ \A k \in 1 .. n : Append(e, x)[k] = e[k]
        /\ Append(e, x)[n + 1] = x
    BY <2>1, AppendProperties
  <2>6. \A k \in 1 .. n + 1 : k # n + 1 => k \in 1 .. n
    BY <2>1
  <2>7. \A k \in 1 .. n + 1 : f[k] = Append(e, x)[k]
    BY <2>2, <2>5, <2>6
  <2>8. f = Append(e, x)
    BY <2>3, <2>5, <2>7, SeqEqual
  <2> QED
    BY <2>8 DEF e, x, f
<1> HIDE DEF t, n
<1>6. FlattenSeq(Append(Emissions(s), Emission(p))) = FlattenSeq(Emissions(s)) \o Emission(p)
  BY <1>3, <1>4, FlattenAppend
<1>7. Emitted(s) \in Seq(Byte)
  BY <1>4, FlattenType DEF Emitted
<1> QED
  BY <1>5, <1>6, <1>7 DEF Emitted, t

LEMMA EmittedNothing == Emitted(<<>>) = <<>>
<1>1. Emissions(<<>>) = <<>>
  BY DEF Emissions
<1> QED
  BY <1>1, FlattenEmpty DEF Emitted

(* The bytes up to a position are the emission of s. *)
ReadUpTo(s, d, to) == Len(Emitted(s)) = to /\ Stands(d, 0, Emitted(s))

(* They are that of front, and then the token and the literals of p.  The  *)
(* second half of the token stays open.                                    *)
LiteralsUpTo(front, p, d, from, to, t) ==
  /\ p.offset = 0 /\ p.match = 0
  /\ ReadUpTo(front, d, from)
  /\ from < Len(d) /\ d[from + 1] = t
  /\ t \div TokenBase = InToken(Len(p.literals))
  /\ Stands(d, from + 1, PastToken(Len(p.literals)) \o p.literals)
  /\ to = (from + 1) + Len(PastToken(Len(p.literals)) \o p.literals)

HalfReadUpTo(s, d, to, t) ==
  \E front \in Seq(Parses), p \in Parses, from \in Nat :
    s = Append(front, p) /\ LiteralsUpTo(front, p, d, from, to, t)

ParsedInv ==
  /\ parsed \in Seq(Parses)
  /\ status = "token" => ReadUpTo(parsed, data, inputOffset)
  /\ status = "match" => HalfReadUpTo(parsed, data, inputOffset, token)
  /\ status = "Ok" => ReadUpTo(parsed, data, Len(data)) \/ HalfReadUpTo(parsed, data, Len(data), token)

LEMMA NothingRead ==
  ASSUME data \in Seq(Byte), parsed = <<>>, inputOffset = 0, status = "token"
  PROVE  ParsedInv
<1>1. Emitted(parsed) = <<>> /\ parsed \in Seq(Parses) /\ Len(<<>>) = 0 /\ Len(data) \in Nat
  BY EmittedNothing
<1> QED
  BY <1>1 DEF ParsedInv, ReadUpTo, Stands

(* Two that stand one behind the other stand as one. *)
LEMMA StandsJoined ==
  ASSUME NEW S, NEW d \in Seq(S), NEW a \in Nat, NEW s \in Seq(S), NEW t \in Seq(S),
         Stands(d, a, s), Stands(d, a + Len(s), t)
  PROVE  Stands(d, a, s \o t) /\ a + Len(s \o t) = (a + Len(s)) + Len(t)
<1>1. Len(s) \in Nat /\ Len(t) \in Nat /\ Len(d) \in Nat /\ Len(s \o t) = Len(s) + Len(t)
  OBVIOUS
<1>2. ASSUME NEW i \in 1 .. Len(s \o t) PROVE d[a + i] = (s \o t)[i]
  <2>1. CASE i <= Len(s)
    <3>1. i \in 1 .. Len(s) /\ (s \o t)[i] = s[i]
      BY <1>1, <2>1
    <3> QED
      BY <3>1 DEF Stands
  <2>2. CASE ~(i <= Len(s))
    <3>1. i - Len(s) \in 1 .. Len(t) /\ (s \o t)[i] = t[i - Len(s)] /\ (a + Len(s)) + (i - Len(s)) = a + i
      BY <1>1, <2>2
    <3> QED
      BY <3>1 DEF Stands
  <2> QED
    BY <2>1, <2>2
<1>3. a + Len(s \o t) = (a + Len(s)) + Len(t) /\ a + Len(s \o t) <= Len(d)
  BY <1>1 DEF Stands
<1> QED
  BY <1>2, <1>3 DEF Stands

(* A token and its literals are read: they are what they were taken for. *)
LEMMA LiteralsAreParsed ==
  ASSUME DecoderInv, DecoderInv', ParsedInv, Decoder!ReadLiterals
  PROVE  ParsedInv'
<1> DEFINE t == data[inputOffset + 1]
           half == t \div TokenBase
           run == Decoder!ReadLength(half, inputOffset + 1, 0)
           to == run.next + run.value
           fails == ~run.ok \/ to > Len(data) \/ outputOffset + run.value > expected
           literals == SubSeq(data, run.next + 1, to)
           p == [literals |-> literals, offset |-> 0, match |-> 0]
<1>1. /\ data \in Seq(Byte) /\ Len(data) \in Nat /\ inputOffset \in 0 .. Len(data)
      /\ outputOffset \in Nat /\ expected \in Nat
      /\ inputOffset < Len(data) /\ status = "token" /\ data' = data
      /\ parsed \in Seq(Parses) /\ ReadUpTo(parsed, data, inputOffset)
  <2>1. data \in Seq(Byte) /\ expected \in Nat
    BY DEF DecoderInv, DecompressType
  <2>2. Len(data) \in Nat
    BY <2>1
  <2> QED
    BY <2>1, <2>2 DEF DecoderInv, DecompressType, Decoder!DecompressTypeOK, Decoder!ReadLiterals, Decoder!block, ParsedInv
<1>2. inputOffset + 1 \in 0 .. Len(data) /\ t \in Byte
  BY <1>1
<1>3. half \in 0 .. Nibble
  BY <1>2, Halves
<1>4. CASE fails
  <2>1. status' = "CorruptData" /\ parsed' = parsed
    BY <1>4 DEF Decoder!ReadLiterals, Decoder!Return
  <2> QED
    BY <1>1, <2>1 DEF ParsedInv
<1>5. CASE ~fails
  <2>1. /\ inputOffset' = to
        /\ token' = t
        /\ parsed' = Append(parsed, p)
        /\ status' \in {"match", "Ok", "CorruptData"}
        /\ status' = "Ok" => to = Len(data)
    BY <1>5 DEF Decoder!ReadLiterals, Decoder!Return
  <2>2. run.ok /\ to <= Len(data)
    <3>1. run.ok
      BY <1>5
    <3>2. run.next \in 0 .. Len(data) /\ run.value \in Nat
      BY <1>1, <1>2, <1>3, <3>1, LengthRead
    <3> QED
      BY <1>1, <1>5, <3>1, <3>2
  <2>3. PICK v \in Nat : /\ InToken(v) = half
                         /\ Stands(data, inputOffset + 1, PastToken(v))
                         /\ run = [ok |-> TRUE, next |-> (inputOffset + 1) + Len(PastToken(v)), value |-> 0 + v]
    <3> DEFINE from == inputOffset + 1
    <3> HIDE DEF half, from
    <3>1. \E v \in Nat :
             /\ InToken(v) = half
             /\ Stands(data, from, PastToken(v))
             /\ Decoder!ReadLength(half, from, 0) = [ok |-> TRUE, next |-> from + Len(PastToken(v)), value |-> 0 + v]
      <4>1. from \in 0 .. Len(data) /\ 0 \in Nat /\ Decoder!ReadLength(half, from, 0).ok
        BY <1>2, <2>2 DEF from
      <4> QED
        BY <1>1, <1>3, <4>1, LengthIsEmitted
    <3> QED
      BY <3>1 DEF from
  <2> DEFINE past == PastToken(v)
             a == (inputOffset + 1) + Len(past)
  <2>4. past \in Seq(Byte) /\ Len(past) \in Nat /\ a \in Nat
    <3>1. past \in Seq(Byte)
      BY PastTokenIs
    <3> QED
      BY <1>1, <3>1
  <2>5. run.next = a /\ run.value = v /\ to = a + v /\ literals = SubSeq(data, a + 1, to)
    <3> HIDE DEF run, a
    <3>1. run.next = a /\ run.value = v
      BY <2>3 DEF a
    <3> QED
      BY <3>1
  <2> HIDE DEF run, a, past, half, t
  <2>6. to \in Nat /\ a <= to /\ to <= Len(data) /\ to - a = v
    BY <1>1, <2>2, <2>4, <2>5
  <2> HIDE DEF to
  <2>7. literals \in Seq(Byte) /\ Len(literals) = v /\ \A i \in 1 .. v : literals[i] = data[a + i]
    BY <1>1, <2>4, <2>5, <2>6, SliceIs
  <2> HIDE DEF literals
  <2>8. Stands(data, a, literals)
    BY <2>4, <2>6, <2>7 DEF Stands
  <2>9. Stands(data, inputOffset + 1, past \o literals) /\ (inputOffset + 1) + Len(past \o literals) = to
    <3>1. inputOffset + 1 \in Nat /\ Stands(data, inputOffset + 1, past) /\ Stands(data, (inputOffset + 1) + Len(past), literals)
      BY <1>1, <2>3, <2>8 DEF past, a
    <3> DEFINE b == inputOffset + 1
    <3> HIDE DEF b
    <3>2. Stands(data, b, past \o literals) /\ b + Len(past \o literals) = (b + Len(past)) + Len(literals)
      <4>1. b \in Nat /\ Stands(data, b, past) /\ Stands(data, b + Len(past), literals)
        BY <3>1 DEF b
      <4>2. data \in Seq(Byte) /\ past \in Seq(Byte) /\ literals \in Seq(Byte)
        BY <1>1, <2>4, <2>7
      <4> HIDE DEF p
      <4> QED
        BY <4>1, <4>2, StandsJoined
    <3> QED
      BY <2>4, <2>6, <2>7, <3>2 DEF a, b
  <2>10. p \in Parses /\ p.offset = 0 /\ p.match = 0 /\ p.literals = literals
    BY <2>7 DEF Parses
  <2>11. LiteralsUpTo(parsed, p, data, inputOffset, to, t)
    BY <1>1, <2>3, <2>7, <2>9, <2>10 DEF LiteralsUpTo, t, half, past
  <2>12. HalfReadUpTo(Append(parsed, p), data, to, t)
    BY <1>1, <2>10, <2>11 DEF HalfReadUpTo
  <2>13. Append(parsed, p) \in Seq(Parses)
    BY <1>1, <2>10
  <2> HIDE DEF p
  <2> QED
    BY <1>1, <2>1, <2>12, <2>13 DEF ParsedInv
<1> QED
  BY <1>4, <1>5

(* The token, the literals and the match of p stand in d after from. *)
LEMMA EmissionStands ==
  ASSUME NEW d \in Seq(Byte), NEW from \in Nat, NEW p \in Parses, NEW middle \in Nat,
         from < Len(d),
         d[from + 1] = Token(Len(p.literals), p.match),
         Stands(d, from + 1, PastToken(Len(p.literals)) \o p.literals),
         middle = (from + 1) + Len(PastToken(Len(p.literals)) \o p.literals),
         Stands(d, middle, MatchPart(p.offset, p.match))
  PROVE  /\ Stands(d, from, Emission(p))
         /\ from + Len(Emission(p)) = middle + Len(MatchPart(p.offset, p.match))
<1> DEFINE tok == Token(Len(p.literals), p.match)
           head == <<tok>>
           past == PastToken(Len(p.literals))
           l == p.literals
           rest == MatchPart(p.offset, p.match)
           body == past \o l
           tail == body \o rest
<1>1. p.literals \in Seq(Byte) /\ p.offset \in Nat /\ p.match \in Nat /\ (p.match = 0 \/ p.match >= kMinMatch)
  BY DEF Parses
<1>2. /\ Emission(p) = head \o (past \o (l \o rest))
      /\ tok \in Byte /\ past \in Seq(Byte) /\ rest \in Seq(Byte) /\ l \in Seq(Byte)
  BY <1>1, EmissionIs, ZenonT(40) DEF Emission
<1>3. head \in Seq(Byte) /\ Len(head) = 1 /\ head[1] = tok
  BY <1>2
<1>4. d[from + 1] = tok /\ Stands(d, from + 1, body) /\ middle = (from + 1) + Len(body) /\ Stands(d, middle, rest)
  OBVIOUS
<1> HIDE DEF tok, head, past, l, rest
<1>5. body \in Seq(Byte) /\ past \o (l \o rest) = tail
  <2>0. past \in Seq(Byte) /\ l \in Seq(Byte) /\ rest \in Seq(Byte)
    BY <1>2
  <2>1. (past \o l) \o rest = past \o (l \o rest)
    BY <2>0, SMTT(30)
  <2> QED
    BY <1>2, <2>1
<1> HIDE DEF body
<1>6. tail \in Seq(Byte)
  BY <1>2, <1>5
<1>7. Stands(d, from + 1, tail) /\ (from + 1) + Len(tail) = middle + Len(rest)
  <2> DEFINE b == from + 1
  <2>1. b \in Nat /\ Stands(d, b, body) /\ Stands(d, b + Len(body), rest) /\ middle = b + Len(body)
    <3>0. b \in Nat
      OBVIOUS
    <3>1. Stands(d, b, body) /\ middle = b + Len(body)
      BY <1>4, Zenon
    <3> HIDE DEF b, tail
    <3>2. Stands(d, b + Len(body), rest)
      BY <1>4, <3>1
    <3> QED
      BY <3>0, <3>1, <3>2
  <2> HIDE DEF b, tail
  <2>2. Stands(d, b, body \o rest) /\ b + Len(body \o rest) = (b + Len(body)) + Len(rest)
    BY <1>2, <1>5, <2>1, StandsJoined
  <2> QED
    BY <2>1, <2>2 DEF b, tail
<1> HIDE DEF tail
<1>8. Stands(d, from, head)
  BY <1>3, <1>4 DEF Stands
<1>9. Stands(d, from, head \o tail) /\ from + Len(head \o tail) = (from + Len(head)) + Len(tail)
  <2>1. head \in Seq(Byte) /\ tail \in Seq(Byte) /\ Stands(d, from, head) /\ Stands(d, from + Len(head), tail)
    BY <1>3, <1>6, <1>7, <1>8
  <2> QED
    BY <2>1, StandsJoined
<1>10. Emission(p) = head \o tail /\ Len(head) = 1
  BY <1>2, <1>3, <1>5
<1> QED
  BY <1>7, <1>9, <1>10 DEF rest

(* Then all that is emitted stands at the beginning. *)
LEMMA ReadOn ==
  ASSUME NEW d \in Seq(Byte), NEW s \in Seq(Parses), NEW p \in Parses, NEW from \in Nat, NEW to \in Nat,
         ReadUpTo(s, d, from), Stands(d, from, Emission(p)), from + Len(Emission(p)) = to
  PROVE  ReadUpTo(Append(s, p), d, to)
<1> DEFINE e == Emitted(s)
           x == Emission(p)
<1>1. e \in Seq(Byte) /\ Emitted(Append(s, p)) = e \o x
  BY EmittedAppend
<1>2. x \in Seq(Byte)
  BY EmissionType
<1>3. Len(e) = from /\ Stands(d, 0, e) /\ 0 + Len(e) = from /\ Stands(d, from, x) /\ from + Len(x) = to
  BY DEF ReadUpTo
<1> HIDE DEF e, x
<1>4. Stands(d, 0, e \o x) /\ 0 + Len(e \o x) = (0 + Len(e)) + Len(x)
  <2>1. 0 \in Nat /\ Stands(d, 0 + Len(e), x)
    BY <1>3
  <2> QED
    BY <1>1, <1>2, <1>3, <2>1, StandsJoined
<1>5. Len(e \o x) = to
  <2>1. Len(e \o x) \in Nat /\ Len(e) \in Nat /\ Len(x) \in Nat
    BY <1>1, <1>2
  <2> QED
    BY <1>3, <1>4, <2>1
<1> QED
  BY <1>1, <1>4, <1>5 DEF ReadUpTo

LEMMA OffsetBytes ==
  ASSUME NEW low \in Byte, NEW high \in Byte
  PROVE  /\ (low + high * ByteBase) % ByteBase = low
         /\ ((low + high * ByteBase) \div ByteBase) % ByteBase = high
         /\ low + high * ByteBase \in Nat
<1>1. ByteBase \in Nat \ {0} /\ low \in 0 .. ByteBase - 1 /\ high \in 0 .. ByteBase - 1 /\ high \in Nat /\ high < ByteBase
  BY Bases
<1>2. high * ByteBase + low \in Nat /\ (high * ByteBase + low) \div ByteBase = high
      /\ (high * ByteBase + low) % ByteBase = low
  BY <1>1, TwoDigits
<1>3. high % ByteBase = high
  BY <1>1, Below
<1>4. low + high * ByteBase = high * ByteBase + low
  BY <1>1, Product
<1> QED
  BY <1>2, <1>3, <1>4

LEMMA LastReplaced ==
  ASSUME NEW S, NEW s \in Seq(S), NEW p \in S, NEW q \in S, NEW n, n = Len(Append(s, p))
  PROVE  [Append(s, p) EXCEPT ![n] = q] = Append(s, q)
<1> DEFINE t == Append(s, p)
           u == Append(s, q)
           r == [t EXCEPT ![n] = q]
<1>1. /\ t \in Seq(S) /\ Len(t) = n /\ n = Len(s) + 1 /\ \A i \in 1 .. Len(s) : t[i] = s[i]
      /\ u \in Seq(S) /\ Len(u) = n /\ u[n] = q /\ \A i \in 1 .. Len(s) : u[i] = s[i]
      /\ Len(s) \in Nat
  BY AppendProperties
<1> HIDE DEF t, u
<1>2. r \in Seq(S) /\ Len(r) = n /\ r[n] = q /\ \A i \in 1 .. n : i # n => r[i] = t[i]
  BY <1>1
<1> HIDE DEF r
<1>3. \A i \in 1 .. n : r[i] = u[i]
  BY <1>1, <1>2
<1>4. r = u
  BY <1>1, <1>2, <1>3, SeqEqual
<1> QED
  BY <1>4 DEF r, t, u

LEMMA Completed ==
  ASSUME NEW p \in Parses, NEW o \in Nat, NEW m \in Nat
  PROVE  [[p EXCEPT !.offset = o] EXCEPT !.match = m] = [literals |-> p.literals, offset |-> o, match |-> m]
<1> DEFINE r == [p EXCEPT !.offset = o]
<1>1. p \in [literals : Seq(Byte), offset : Nat, match : Nat]
  BY DEF Parses
<1>2. r = [literals |-> p.literals, offset |-> o, match |-> p.match]
  BY <1>1
<1> HIDE DEF r
<1>3. [r EXCEPT !.match = m] = [literals |-> p.literals, offset |-> o, match |-> m]
  BY <1>2
<1> QED
  BY <1>3 DEF r

(* A match is read: with it the last sequence is whole. *)
LEMMA MatchIsParsed ==
  ASSUME DecoderInv, DecoderInv', ParsedInv, Decoder!ReadMatch
  PROVE  ParsedInv'
<1> DEFINE half == token % TokenBase
           at == inputOffset + 2
           run == Decoder!ReadLength(half, at, kMinMatch)
           off == Decoder!MatchOffset
           fails == \/ inputOffset + 2 > Len(data)
                    \/ off = 0 \/ off > outputOffset
                    \/ ~run.ok
                    \/ outputOffset + run.value > expected
<1>1. /\ data \in Seq(Byte) /\ Len(data) \in Nat /\ inputOffset \in 0 .. Len(data)
      /\ outputOffset \in Nat /\ expected \in Nat /\ token \in Byte
      /\ status = "match" /\ data' = data
      /\ parsed \in Seq(Parses) /\ HalfReadUpTo(parsed, data, inputOffset, token)
  <2>1. data \in Seq(Byte) /\ expected \in Nat
    BY DEF DecoderInv, DecompressType
  <2>2. Len(data) \in Nat
    BY <2>1
  <2> QED
    BY <2>1, <2>2, SameFormat
    DEF DecoderInv, DecompressType, Decoder!DecompressTypeOK, Decoder!ReadMatch, Decoder!block, ParsedInv
<1>2. half \in 0 .. Nibble
  BY <1>1, Halves
<1>3. CASE fails
  <2>1. status' = "CorruptData" /\ parsed' = parsed
    BY <1>3, SameFormat DEF Decoder!ReadMatch, Decoder!Return
  <2> QED
    BY <1>1, <2>1 DEF ParsedInv
<1>4. CASE ~fails
  <2>1. /\ inputOffset' = run.next
        /\ parsed' = [parsed EXCEPT ![Len(parsed)].offset = off, ![Len(parsed)].match = run.value]
        /\ status' = "token"
    BY <1>4, SameFormat DEF Decoder!ReadMatch, Decoder!Return
  <2>2. at <= Len(data) /\ run.ok /\ at \in 0 .. Len(data)
    BY <1>1, <1>4
  <2>3. PICK v \in Nat : /\ InToken(v) = half
                         /\ Stands(data, at, PastToken(v))
                         /\ run = [ok |-> TRUE, next |-> at + Len(PastToken(v)), value |-> kMinMatch + v]
    <3> HIDE DEF half, at
    <3>1. kMinMatch \in Nat
      BY DEF kMinMatch
    <3> QED
      BY <1>1, <1>2, <2>2, <3>1, LengthIsEmitted
  <2>4. run.next = at + Len(PastToken(v)) /\ run.value = kMinMatch + v
    <3> HIDE DEF run, at
    <3> QED
      BY <2>3
  <2> DEFINE low == data[inputOffset + 1]
             high == data[inputOffset + 2]
             m == kMinMatch + v
             two == <<low, high>>
             past == PastToken(v)
  <2>5. low \in Byte /\ high \in Byte /\ off = low + high * ByteBase
    BY <1>1, <2>2, SameFormat DEF Decoder!MatchOffset
  <2>6. past \in Seq(Byte) /\ two \in Seq(Byte) /\ Len(two) = 2 /\ two[1] = low /\ two[2] = high /\ m \in Nat
        /\ m >= kMinMatch /\ m # 0 /\ Coded(m) = v
    BY <2>5, PastTokenIs DEF kMinMatch, Coded
  <2> HIDE DEF run, off, m, half
  <2>7. off % ByteBase = low /\ (off \div ByteBase) % ByteBase = high /\ off \in Nat
    BY <2>5, OffsetBytes
  <2>8. MatchPart(off, m) = two \o past
    BY <2>6, <2>7 DEF MatchPart
  <2>9. /\ Stands(data, inputOffset, MatchPart(off, m))
        /\ inputOffset + Len(MatchPart(off, m)) = at + Len(past)
    <3>1. Stands(data, inputOffset, two)
      <4>1. \A i \in 1 .. 2 : i = 1 \/ i = 2
        OBVIOUS
      <4> HIDE DEF two
      <4> QED
        BY <1>1, <2>2, <2>6, <4>1 DEF Stands
    <3>2. Stands(data, inputOffset + Len(two), past) /\ inputOffset + Len(two) = at
      BY <2>3, <2>6
    <3>3. inputOffset \in Nat
      BY <1>1
    <3> HIDE DEF two, past
    <3>4. Stands(data, inputOffset, two \o past) /\ inputOffset + Len(two \o past) = (inputOffset + Len(two)) + Len(past)
      <4>1. data \in Seq(Byte) /\ two \in Seq(Byte) /\ past \in Seq(Byte)
        BY <1>1, <2>6
      <4> QED
        BY <3>1, <3>2, <3>3, <4>1, StandsJoined
    <3> QED
      BY <2>8, <3>2, <3>4
  <2>10. PICK front \in Seq(Parses), p \in Parses, from \in Nat :
           parsed = Append(front, p) /\ LiteralsUpTo(front, p, data, from, inputOffset, token)
    BY <1>1 DEF HalfReadUpTo
  <2> DEFINE q == [literals |-> p.literals, offset |-> off, match |-> m]
  <2>11. p.literals \in Seq(Byte)
    BY DEF Parses
  <2>12. q \in Parses /\ q.literals = p.literals /\ q.offset = off /\ q.match = m
    BY <2>6, <2>7, <2>11 DEF Parses
  <2>13. parsed' = Append(front, q)
    <3> DEFINE n == Len(parsed)
               r == [[p EXCEPT !.offset = off] EXCEPT !.match = m]
    <3>1. n = Len(front) + 1 /\ n \in Nat /\ parsed[n] = p /\ n \in DOMAIN parsed
      BY <2>10
    <3>2. parsed' = [parsed EXCEPT ![n].offset = off, ![n].match = m]
      BY <2>1, <2>4, Zenon DEF m
    <3> HIDE DEF n
    <3>3. parsed' = [parsed EXCEPT ![n] = r]
      BY <3>1, <3>2
    <3>4. r = q
      BY <2>6, <2>7, Completed
    <3> HIDE DEF q, r
    <3>5. front \in Seq(Parses) /\ p \in Parses /\ q \in Parses /\ n = Len(Append(front, p))
      BY <2>10, <2>12 DEF n
    <3>6. [Append(front, p) EXCEPT ![n] = q] = Append(front, q)
      BY <3>5, LastReplaced
    <3> QED
      BY <2>10, <3>3, <3>4, <3>6
  <2>14. Token(Len(p.literals), m) = token
    <3>1. token \div TokenBase = InToken(Len(p.literals)) /\ token % TokenBase = InToken(v)
      BY <2>3, <2>10 DEF LiteralsUpTo, half
    <3>2. token \in Nat /\ TokenBase \in Nat \ {0}
      BY <1>1, Bases
    <3>3. token = TokenBase * (token \div TokenBase) + (token % TokenBase) /\ token \div TokenBase \in Nat
      BY <3>2, Quotient
    <3>4. TokenBase * (token \div TokenBase) = (token \div TokenBase) * TokenBase
      BY <3>2, <3>3
    <3> QED
      BY <2>6, <3>1, <3>3, <3>4 DEF Token
  <2> HIDE DEF q
  <2>15. Stands(data, from, Emission(q)) /\ from + Len(Emission(q)) = inputOffset + Len(MatchPart(off, m))
    <3>1. /\ from < Len(data) /\ data[from + 1] = Token(Len(q.literals), q.match)
          /\ Stands(data, from + 1, PastToken(Len(q.literals)) \o q.literals)
          /\ inputOffset = (from + 1) + Len(PastToken(Len(q.literals)) \o q.literals)
      BY <2>10, <2>12, <2>14 DEF LiteralsUpTo
    <3>2. Stands(data, inputOffset, MatchPart(q.offset, q.match)) /\ inputOffset \in Nat
      BY <1>1, <2>9, <2>12
    <3>3. Stands(data, from, Emission(q))
          /\ from + Len(Emission(q)) = inputOffset + Len(MatchPart(q.offset, q.match))
      <4>1. data \in Seq(Byte) /\ q \in Parses
        BY <1>1, <2>12
      <4> HIDE DEF at
      <4> QED
        BY <3>1, <3>2, <4>1, EmissionStands
    <3> QED
      BY <2>12, <3>3
  <2>16. inputOffset' = from + Len(Emission(q)) /\ inputOffset' \in Nat
    <3>1. inputOffset' = from + Len(Emission(q))
      BY <2>1, <2>4, <2>9, <2>15
    <3>2. Len(Emission(q)) \in Nat
      BY <2>12, EmissionType
    <3> QED
      BY <3>1, <3>2
  <2>17. ReadUpTo(Append(front, q), data, inputOffset')
    <3>1. ReadUpTo(front, data, from)
      BY <2>10 DEF LiteralsUpTo
    <3>2. data \in Seq(Byte)
      BY <1>1
    <3> QED
      BY <2>10, <2>12, <2>15, <2>16, <3>1, <3>2, ReadOn
  <2>18. Append(front, q) \in Seq(Parses)
    BY <2>10, <2>12
  <2> QED
    BY <1>1, <2>1, <2>13, <2>17, <2>18 DEF ParsedInv
<1> QED
  BY <1>3, <1>4

ParsingInv ==
  /\ Inv
  /\ ParsedInv
  /\ stage = "compress" => parsed = <<>>

LEMMA InitParsing == Init => ParsingInv
<1> SUFFICES ASSUME Init PROVE ParsingInv
  OBVIOUS
<1>1. Inv
  BY InitInv
<1>2. data \in Seq(Byte) /\ parsed = <<>> /\ inputOffset = 0 /\ status = "token"
  BY <1>1 DEF Inv, DecoderInv, DecompressType, Init, Decoder!Ready
<1> QED
  BY <1>1, <1>2, NothingRead DEF ParsingInv

LEMMA NextParsed ==
  ASSUME DecoderInv, DecoderInv', ParsedInv, Decoder!DecompressNext
  PROVE  ParsedInv'
<1>1. CASE Decoder!DecompressNoMemory
  BY <1>1 DEF Decoder!DecompressNoMemory, Decoder!Return, Decoder!block, ParsedInv
<1>2. CASE Decoder!DecompressEnd
  <2>1. /\ parsed' = parsed /\ data' = data /\ inputOffset = Len(data) /\ status = "token"
        /\ status' \in {"Ok", "CorruptData"}
    BY <1>2 DEF Decoder!DecompressEnd, Decoder!Return, Decoder!block
  <2>2. parsed \in Seq(Parses) /\ ReadUpTo(parsed, data, Len(data))
    BY <2>1 DEF ParsedInv
  <2> QED
    BY <2>1, <2>2 DEF ParsedInv
<1> QED
  BY <1>1, <1>2, LiteralsAreParsed, MatchIsParsed DEF Decoder!DecompressNext

LEMMA ParsedStill ==
  ASSUME ParsedInv, parsed' = parsed, data' = data, inputOffset' = inputOffset,
         token' = token, status' = status
  PROVE  ParsedInv'
BY DEF ParsedInv

LEMMA NextParsing == ASSUME ParsingInv, [Next]_vars PROVE ParsingInv'
<1>1. Inv'
  BY NextInv DEF ParsingInv
<1>2. CASE Compress
  <2>1. ParsedInv'
    BY <1>2, ParsedStill DEF Compress, decoder, ParsingInv
  <2> QED
    BY <1>1, <1>2, <2>1 DEF Compress, decoder, ParsingInv
<1>3. CASE PassOn
  <2>1. data' \in Seq(Byte) /\ parsed' = <<>> /\ inputOffset' = 0 /\ status' = "token" /\ stage' = "decompress"
    BY <1>1, <1>3 DEF PassOn, ParsingInv, Inv, AtStart, DecoderInv, DecompressType
  <2>2. ParsedInv'
    <3>1. Emitted(<<>>) = <<>> /\ <<>> \in Seq(Parses) /\ Len(<<>>) = 0 /\ Len(data') \in Nat
      BY <2>1, EmittedNothing
    <3> QED
      BY <2>1, <3>1 DEF ParsedInv, ReadUpTo, Stands
  <2> QED
    BY <1>1, <2>1, <2>2 DEF ParsingInv
<1>4. CASE Decompress
  <2>1. ParsedInv'
    BY <1>1, <1>4, NextParsed DEF Decompress, ParsingInv, Inv
  <2> QED
    BY <1>1, <1>4, <2>1 DEF Decompress, ParsingInv
<1>5. CASE UNCHANGED vars
  <2>1. ParsedInv'
    BY <1>5, ParsedStill DEF vars, decoder, ParsingInv
  <2> QED
    BY <1>1, <1>5, <2>1 DEF vars, decoder, ParsingInv
<1> QED
  BY <1>2, <1>3, <1>4, <1>5 DEF Next

LEMMA ParsingInvariance == Spec => []ParsingInv
BY InitParsing, NextParsing, PTL DEF Spec

LEMMA SameEmission ==
  /\ \A l, o, m : Decoder!EmitSequence(l, o, m) = EmitSequence(l, o, m)
  /\ \A b : Decoder!FlattenSeq(b) = FlattenSeq(b)
  /\ \A s : Decoder!Last(s) = s[Len(s)]
<1>1. \A n : Decoder!PastToken(n) = PastToken(n) /\ Decoder!InToken(n) = InToken(n)
  BY SameFormat DEF Decoder!PastToken, PastToken, Decoder!InToken, InToken, Decoder!LengthBytes, LengthBytes
<1>2. \A l, o, m : Decoder!EmitSequence(l, o, m) = EmitSequence(l, o, m)
  BY <1>1, SameFormat, Zenon DEF Decoder!EmitSequence, EmitSequence
<1>3. \A b : Decoder!FlattenSeq(b) = FlattenSeq(b)
  BY Zenon DEF Decoder!FlattenSeq, FlattenSeq
<1>4. \A s : Decoder!Last(s) = s[Len(s)]
  BY Zenon DEF Decoder!Last
<1> QED
  BY <1>2, <1>3, <1>4

(* The last sequence, where it has no match, but for the second half of    *)
(* its token.                                                              *)
LEMMA HalfRead ==
  ASSUME data \in Seq(Byte), NEW t \in Byte, HalfReadUpTo(parsed, data, Len(data), t)
  PROVE  /\ Len(Emitted(parsed)) = Len(data)
         /\ parsed[Len(parsed)].match = 0
         /\ \A k \in 1 .. Len(data) :
              \/ Emitted(parsed)[k] = data[k]
              \/ /\ k = 1 + Len(data) - Len(Emission(parsed[Len(parsed)]))
                 /\ Emitted(parsed)[k] \div TokenBase = data[k] \div TokenBase
<1>1. PICK front \in Seq(Parses), p \in Parses, from \in Nat :
        parsed = Append(front, p) /\ LiteralsUpTo(front, p, data, from, Len(data), t)
  BY DEF HalfReadUpTo
<1> DEFINE n == Len(p.literals)
           past == PastToken(n)
           l == p.literals
           body == past \o l
           tok == Token(n, 0)
           e == Emitted(front)
           x == Emission(p)
<1>2. p.match = 0 /\ p.offset = 0 /\ l \in Seq(Byte) /\ n \in Nat /\ past \in Seq(Byte) /\ body \in Seq(Byte)
  <2>1. p.match = 0 /\ p.offset = 0 /\ l \in Seq(Byte)
    BY <1>1 DEF LiteralsUpTo, Parses
  <2>2. n \in Nat
    BY <2>1
  <2>3. past \in Seq(Byte)
    BY <2>2, PastTokenIs
  <2> QED
    BY <2>1, <2>2, <2>3
<1>3. x = <<tok>> \o body
  <2>1. 0 \in Nat /\ l \in Seq(Byte)
    BY <1>2
  <2>2. EmitSequence(l, 0, 0) = <<Token(Len(l), 0)>> \o (PastToken(Len(l)) \o (l \o MatchPart(0, 0)))
    BY <2>1, EmissionIs
  <2>3. MatchPart(0, 0) = <<>> /\ l \o <<>> = l
    BY <1>2 DEF MatchPart
  <2> QED
    BY <1>2, <2>2, <2>3 DEF Emission
<1>4. tok \in Nat /\ tok \div TokenBase = InToken(n) /\ tok \in Byte
  <2>1. InToken(n) \in 0 .. TokenBase - 1 /\ InToken(0) \in 0 .. TokenBase - 1 /\ TokenBase \in Nat \ {0}
    BY <1>2, InTokenIs, Bases
  <2>2. tok = InToken(n) * TokenBase + InToken(0)
    BY DEF Token, Coded
  <2> DEFINE a == InToken(n)
             b == InToken(0)
  <2> HIDE DEF a, b, tok
  <2>3. a * TokenBase + b \in 0 .. TokenBase * TokenBase - 1 /\ (a * TokenBase + b) \div TokenBase = a
    BY <2>1, TwoDigits DEF a, b
  <2>4. tok \in Byte /\ tok \div TokenBase = a
    BY <2>2, <2>3, Bases DEF a, b
  <2> QED
    BY <2>4, Bases DEF a
<1>5. Emitted(parsed) = e \o x /\ e \in Seq(Byte)
  BY <1>1, EmittedAppend
<1>6. /\ Len(e) = from /\ Stands(data, 0, e)
      /\ data[from + 1] = t /\ t \div TokenBase = InToken(n)
      /\ Stands(data, from + 1, body)
      /\ Len(data) = (from + 1) + Len(body)
  BY <1>1 DEF LiteralsUpTo, ReadUpTo
<1>7. Len(parsed) = Len(front) + 1 /\ parsed[Len(parsed)] = p
  BY <1>1
<1> HIDE DEF n, past, l, body, tok, e, x
<1>8. x \in Seq(Byte) /\ Len(body) \in Nat /\ Len(x) = 1 + Len(body) /\ x[1] = tok
      /\ \A i \in 1 .. Len(body) : x[1 + i] = body[i]
  BY <1>2, <1>3, <1>4
<1>types. e \in Seq(Byte) /\ x \in Seq(Byte) /\ Len(e) \in Nat /\ Len(x) \in Nat /\ Len(body) \in Nat
  BY <1>5, <1>8
<1>joined. /\ Len(e \o x) = Len(e) + Len(x)
           /\ \A k \in 1 .. Len(e) + Len(x) : (e \o x)[k] = IF k <= Len(e) THEN e[k] ELSE x[k - Len(e)]
  BY <1>types, ConcatProperties
<1>9. Len(e \o x) = Len(data) /\ 1 + Len(data) - Len(x) = from + 1 /\ Len(e) + Len(x) = Len(data)
  BY <1>6, <1>8, <1>types, <1>joined
<1>10. ASSUME NEW k \in 1 .. Len(data)
       PROVE  (e \o x)[k] = data[k] \/ (k = from + 1 /\ (e \o x)[k] \div TokenBase = data[k] \div TokenBase)
  <2>1. (e \o x)[k] = IF k <= from THEN e[k] ELSE x[k - from]
    BY <1>6, <1>9, <1>joined
  <2>0. k \in Nat /\ (k <= from \/ k = from + 1 \/ k > from + 1)
    OBVIOUS
  <2>2. CASE k <= from
    BY <1>6, <2>1, <2>2 DEF Stands
  <2>3. CASE k = from + 1
    BY <1>4, <1>6, <1>8, <2>1, <2>3
  <2>4. CASE k > from + 1
    <3> DEFINE i == k - from - 1
    <3>1. i \in 1 .. Len(body) /\ k - from = 1 + i /\ (from + 1) + i = k /\ ~(k <= from)
      BY <1>6, <1>8, <2>4
    <3> HIDE DEF i
    <3>2. data[(from + 1) + i] = body[i]
      BY <1>6, <3>1 DEF Stands
    <3> QED
      BY <1>8, <2>1, <3>1, <3>2
  <2> QED
    BY <2>0, <2>2, <2>3, <2>4
<1> QED
  BY <1>2, <1>5, <1>7, <1>9, <1>10 DEF x

(* The decoder reads what emitSequence writes: whatever the bytes are that *)
(* decompressLzLiteBlock accepts, they are the emission of the sequences   *)
(* it took them for.                                                       *)
THEOREM OnlyEmissionsAreRead == Spec => []ReadsWhatIsEmitted
<1>1. ParsingInv => ReadsWhatIsEmitted
  <2> SUFFICES ASSUME ParsingInv, status = "Ok", parsed # <<>>
               PROVE  LET final == parsed[Len(parsed)]
                          start == 1 + Len(data) - Len(Emission(final))
                      IN /\ Len(Emitted(parsed)) = Len(data)
                         /\ \A k \in 1 .. Len(data) :
                              \/ Emitted(parsed)[k] = data[k]
                              \/ /\ k = start /\ final.match = 0
                                 /\ Emitted(parsed)[k] \div TokenBase = data[k] \div TokenBase
    <3>1. Decoder!FlattenSeq([k \in 1 .. Len(parsed) |->
             Decoder!EmitSequence(parsed[k].literals, parsed[k].offset, parsed[k].match)]) = Emitted(parsed)
      BY SameEmission DEF Emitted, Emissions, Emission
    <3> QED
      BY <3>1, SameEmission DEF ReadsWhatIsEmitted, Decoder!ReadsWhatIsEmitted, Emission
  <2>1. data \in Seq(Byte) /\ token \in Byte
    BY SameFormat DEF ParsingInv, Inv, DecoderInv, DecompressType, Decoder!DecompressTypeOK
  <2>2. CASE ReadUpTo(parsed, data, Len(data))
    <3>1. \A k \in 1 .. Len(data) : data[0 + k] = Emitted(parsed)[k]
      BY <2>2 DEF ReadUpTo, Stands
    <3>2. \A k \in 1 .. Len(data) : 0 + k = k
      OBVIOUS
    <3> QED
      BY <2>2, <3>1, <3>2 DEF ReadUpTo
  <2>3. CASE HalfReadUpTo(parsed, data, Len(data), token)
    BY <2>1, <2>3, HalfRead
  <2> QED
    BY <2>2, <2>3 DEF ParsingInv, ParsedInv
<1> QED
  BY <1>1, ParsingInvariance, PTL
=============================================================================
