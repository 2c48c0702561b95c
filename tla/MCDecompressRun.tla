-------------------------- MODULE MCDecompressRun ---------------------------
EXTENDS DamagedArchive

(* Headers: right for the archives below, wrong in size, in block size or  *)
(* in a checked field.                                                     *)
GoodHeaders == {HeaderItem("Ok", TRUE, n, 2) : n \in {2, 3}} \cup {HeaderItem("Ok", FALSE, 0, 2)}
BadHeaders  == {HeaderItem(c, FALSE, 0, 2) :
                  c \in {"CorruptData", "UnsupportedVersion", "UnsupportedAlgorithm"}}
               \cup {HeaderItem("Ok", FALSE, 0, 0), HeaderItem("Ok", FALSE, 0, 1)}

(* Every block header over small sizes, with a payload (right, damaged or  *)
(* too short) when it stores one; a raw payload is as long as it is stored. *)
Crc(n) == IF n = 0 THEN <<>> ELSE IF n = 1 THEN <<1>> ELSE <<1, 2>>
Payloads == {<<1>>, <<9>>, <<1, 2>>}
AnyBlock ==
  {<<BlockItem(f, r, o, 0, Crc(o))>> : f \in BOOLEAN, r \in BOOLEAN, o \in 0 .. 3} \cup
  UNION {{<<BlockItem(f, r, o, s, Crc(o)), DataItem(p, s)>> :
            p \in {q \in Payloads : r => Len(q) = s}} :
           f \in BOOLEAN, r \in BOOLEAN, o \in 0 .. 3, s \in 1 .. 3}
GoodBlock(f) == <<BlockItem(f, FALSE, 2, 1, <<1, 2>>), DataItem(<<1, 2>>, 1)>>

Bodies == {GoodBlock(FALSE) \o y : y \in AnyBlock} \cup {x \o GoodBlock(TRUE) : x \in AnyBlock}

(* Whole archives, and cut ones. *)
AnyArchives ==
  {<<h>> \o b : h \in GoodHeaders, b \in Bodies} \cup
  {<<h>> \o GoodBlock(TRUE) : h \in BadHeaders} \cup
  {SubSeq(<<h>> \o GoodBlock(FALSE) \o GoodBlock(TRUE), 1, n) : h \in GoodHeaders, n \in 0 .. 4}

MCArchives == AnyArchives \cup AllArchives

(* Every change of one byte, and bursts over two and four.                 *)
MCHeaderChanges ==
  {<<Byte(x)>> : x \in 1 .. 255} \cup
  {<<Byte(128)>> \o y \o <<Byte(x)>> : y \in {<<>>, <<Byte(255), Byte(165)>>}, x \in {1, 131}}
=============================================================================
