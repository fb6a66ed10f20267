--------------------------- MODULE MavlinkLogProofs ---------------------------
(***************************************************************************)
(* Theorems about MavlinkLog, for every stream of messages and other       *)
(* pieces, whatever those look like and however the stream is cut, but for *)
(* checksums that are right by accident.  Everything rests on the reader:  *)
(* it holds places in the order sent, behind every message that was        *)
(* parsed, and the pieces of a message that came so far stand in it one    *)
(* behind the other.                                                       *)
(***************************************************************************)
EXTENDS MavlinkLog, SequenceTheorems, TLAPS

(* The messages that were parsed.                                            *)
Parsed == Range(log) \cup Range(frames) \cup dropped

(* The reader holds pieces that came, in the order sent, and all of them     *)
(* behind the messages that were parsed.                                     *)
ReaderOK ==
    /\ \A i \in 1..Len(reader) : reader[i] \notin lost
    /\ \A i, j \in 1..Len(reader) :
          i < j /\ reader[i] # Pad /\ reader[j] # Pad => reader[i] < reader[j]
    /\ \A m \in Parsed, i \in 1..Len(reader) :
          reader[i] # Pad => Final[m] < reader[i]

(* The log, and the frames behind it, are in the order sent.                 *)
OrderOK ==
    /\ \A i, j \in 1..Len(log) : i < j => log[i] < log[j]
    /\ \A i, j \in 1..Len(frames) : i < j => frames[i] < frames[j]
    /\ \A i \in 1..Len(log), j \in 1..Len(frames) : log[i] < frames[j]

ParsedReceived == \A m \in Parsed : Received(m)

(* What came of m stands in the reader from i on: the whole of it, or its    *)
(* beginning at the very end.                                                *)
HeldAt(m, i) ==
    \/ Final[m] < next /\ Intact(reader, i, m)
    \/ /\ next <= Final[m]
       /\ Len(reader) = i + next - First[m] - 1
       /\ \A j \in i..Len(reader) : reader[j] = First[m] + j - i

Begun(m) == First[m] < next /\ \A p \in Pieces(m) : p \notin lost

(* A message of which nothing was lost so far is parsed, cut, or held.       *)
NothingMissed ==
    \A m \in Msg \ Bad :
        Begun(m) => m \in Parsed \cup cut \/ \E i \in 1..Len(reader) : HeldAt(m, i)

IInv ==
    /\ TypeOK
    /\ ReaderOK
    /\ OrderOK
    /\ ParsedReceived
    /\ NothingMissed
    /\ PromptOnCleanLine

-----------------------------------------------------------------------------
(* Facts about messages, and about the reader as it is used up and filled.   *)

(* Messages do not overlap: the one that begins first ends before the other. *)
LEMMA MessageOrder ==
    ASSUME NEW m \in Msg, NEW n \in Msg
    PROVE  /\ First[m] \in 1..Length /\ Final[m] \in 1..Length
           /\ First[m] <= Final[m]
           /\ m \in Nat /\ n \in Nat
           /\ First[m] < First[n] => Final[m] < First[n]
           /\ Final[m] < First[n] => m < n
           /\ First[n] \in Pieces(m) => m = n
<1>1. /\ m \in Nat /\ n \in Nat /\ Length \in Nat
      /\ First[m] \in 1..Length /\ Final[m] \in 1..Length
      /\ First[n] \in 1..Length /\ Final[n] \in 1..Length
      /\ First[m] <= Final[m] /\ First[n] <= Final[n]
      /\ m < n => Final[m] < First[n]
      /\ n < m => Final[n] < First[m]
  BY ConstantsAssumption
<1>2. m < n \/ m = n \/ n < m
  BY <1>1
<1> QED
  BY <1>1, <1>2 DEF Pieces

(* What the reader and the other variables hold, and where.                  *)
LEMMA ReaderType ==
    ASSUME TypeOK
    PROVE  /\ Len(reader) \in Nat /\ next \in Nat /\ Length \in Nat
           /\ \A i \in 1..Len(reader) :
                 reader[i] \in Nat /\ (reader[i] = Pad \/ reader[i] \in 1..(next - 1))
  BY ConstantsAssumption DEF TypeOK, Pad

(* What is left of a sequence without its first k elements.                  *)
LEMMA Rest ==
    ASSUME NEW S, NEW s \in Seq(S), NEW k \in 0..Len(s)
    PROVE  /\ SubSeq(s, k + 1, Len(s)) \in Seq(S)
           /\ Len(SubSeq(s, k + 1, Len(s))) = Len(s) - k
           /\ \A i \in 1..(Len(s) - k) :
                 i + k \in 1..Len(s) /\ SubSeq(s, k + 1, Len(s))[i] = s[i + k]
<1>1. Len(s) \in Nat /\ k + 1 \in Int /\ Len(s) \in Int
  OBVIOUS
<1>2. \A i \in (k + 1)..Len(s) : s[i] \in S
  OBVIOUS
<1>3. /\ SubSeq(s, k + 1, Len(s)) \in Seq(S)
      /\ Len(SubSeq(s, k + 1, Len(s)))
            = IF k + 1 <= Len(s) THEN Len(s) - (k + 1) + 1 ELSE 0
      /\ \A i \in 1..(Len(s) - (k + 1) + 1) :
            SubSeq(s, k + 1, Len(s))[i] = s[k + 1 + i - 1]
  BY <1>1, <1>2, SubSeqProperties
<1> QED
  BY <1>1, <1>3

(* One sequence behind another.                                              *)
LEMMA Behind ==
    ASSUME NEW S, NEW s \in Seq(S), NEW t \in Seq(S)
    PROVE  /\ s \o t \in Seq(S)
           /\ Len(s \o t) = Len(s) + Len(t)
           /\ \A i \in 1..Len(s) : (s \o t)[i] = s[i]
           /\ \A i \in 1..Len(t) : (s \o t)[Len(s) + i] = t[i]
  OBVIOUS

(* Using up k pieces leaves the others, k places earlier.                    *)
LEMMA UsedUp ==
    ASSUME TypeOK, NEW k \in 0..Len(reader), UseUpTo(k)
    PROVE  /\ reader' \in Seq({Pad} \cup 1..(next - 1))
           /\ Len(reader') = Len(reader) - k
           /\ \A i \in 1..Len(reader') :
                 i + k \in 1..Len(reader) /\ reader'[i] = reader[i + k]
  BY Rest DEF TypeOK, UseUpTo

(* The bytes of a call: k pieces, behind a pad if they came in a datagram.   *)
LEMMA HandedOver ==
    ASSUME NEW k \in Nat \ {0}, next \in Nat \ {0}, padded \in BOOLEAN
    PROVE  \E d \in {0, 1} :
              /\ d = 0 <=> ~padded
              /\ Handed(k) \in Seq({Pad} \cup 1..(next + k - 1))
              /\ Len(Handed(k)) = d + k
              /\ d = 1 => Handed(k)[1] = Pad
              /\ \A i \in 1..k : Handed(k)[d + i] = next + i - 1
<1> DEFINE S == {Pad} \cup 1..(next + k - 1)
<1>1. /\ Chunk(k) \in Seq(S) /\ Len(Chunk(k)) = k
      /\ \A i \in 1..k : Chunk(k)[i] = next + i - 1
  <2>1. \A i \in 1..k : next + i - 1 \in S
    OBVIOUS
  <2> HIDE DEF S
  <2> QED
    BY <2>1 DEF Chunk
<1>2. <<Pad>> \in Seq(S) /\ Len(<<Pad>>) = 1 /\ <<Pad>>[1] = Pad
  OBVIOUS
<1>3. PICK c, p, B :
      /\ B = S
      /\ c \in Seq(B) /\ Len(c) = k
      /\ \A i \in 1..k : c[i] = next + i - 1
      /\ p \in Seq(B) /\ Len(p) = 1 /\ p[1] = Pad
      /\ Handed(k) = IF padded THEN p \o c ELSE c
  BY <1>1, <1>2 DEF Handed
<1> HIDE DEF S
<1>4. CASE padded
  <2>1. p \o c \in Seq(B) /\ Len(p \o c) = 1 + k /\ (p \o c)[1] = Pad
        /\ \A i \in 1..k : (p \o c)[1 + i] = c[i]
    <3>1. p \in Seq(B) /\ c \in Seq(B)
      BY <1>3
    <3>2. /\ p \o c \in Seq(B)
          /\ Len(p \o c) = Len(p) + Len(c)
          /\ \A i \in 1..Len(p) : (p \o c)[i] = p[i]
          /\ \A i \in 1..Len(c) : (p \o c)[Len(p) + i] = c[i]
      BY <3>1, Behind
    <3> QED
      BY <1>3, <3>2
  <2>2. Handed(k) = p \o c
    BY <1>3, <1>4
  <2> QED
    BY <1>3, <1>4, <2>1, <2>2 DEF S
<1>5. CASE ~padded
  <2>1. Handed(k) = c
    BY <1>3, <1>5
  <2> QED
    BY <1>3, <1>5, <2>1 DEF S
<1> QED
  BY <1>4, <1>5

(* A call puts them at the end of the reader.                                *)
LEMMA Filled ==
    ASSUME TypeOK, NEW k \in Nat \ {0}, reader' = reader \o Handed(k), next' = next + k
    PROVE  \E d \in {0, 1} :
              /\ d = 0 <=> ~padded
              /\ reader' \in Seq({Pad} \cup 1..(next' - 1))
              /\ Len(reader') = Len(reader) + d + k
              /\ \A i \in 1..Len(reader) : reader'[i] = reader[i]
              /\ d = 1 => reader'[Len(reader) + 1] = Pad
              /\ \A i \in 1..k : reader'[Len(reader) + d + i] = next + i - 1
<1> DEFINE S == {Pad} \cup 1..(next + k - 1)
           h == Handed(k)
<1>1. next \in Nat \ {0} /\ padded \in BOOLEAN /\ Len(reader) \in Nat
  BY ConstantsAssumption DEF TypeOK
<1>2. PICK d \in {0, 1} :
          /\ d = 0 <=> ~padded
          /\ h \in Seq(S)
          /\ Len(h) = d + k
          /\ d = 1 => h[1] = Pad
          /\ \A i \in 1..k : h[d + i] = next + i - 1
  BY <1>1, HandedOver
<1>3. reader \in Seq(S)
  <2>1. {Pad} \cup 1..(next - 1) \subseteq S
    BY <1>1
  <2> QED
    BY <2>1 DEF TypeOK
<1>4. PICK B, r, g : B = S /\ r = reader /\ g = h
  OBVIOUS
<1> HIDE DEF S, h
<1>5. /\ r \in Seq(B) /\ g \in Seq(B)
  BY <1>2, <1>3, <1>4
<1>6. /\ r \o g \in Seq(B)
      /\ Len(r \o g) = Len(r) + Len(g)
      /\ \A i \in 1..Len(r) : (r \o g)[i] = r[i]
      /\ \A i \in 1..Len(g) : (r \o g)[Len(r) + i] = g[i]
  BY <1>5, Behind
<1>7. /\ reader \o h \in Seq(S)
      /\ Len(reader \o h) = Len(reader) + Len(h)
      /\ \A i \in 1..Len(reader) : (reader \o h)[i] = reader[i]
      /\ \A i \in 1..Len(h) : (reader \o h)[Len(reader) + i] = h[i]
  BY <1>4, <1>6
<1>8. reader' = reader \o h
  BY DEF h
<1>9. d = 1 => reader'[Len(reader) + 1] = Pad
  BY <1>2, <1>7, <1>8
<1>10. ASSUME NEW i \in 1..k
      PROVE  reader'[Len(reader) + d + i] = next + i - 1
  <2>1. d + i \in 1..Len(h) /\ Len(reader) + (d + i) = Len(reader) + d + i
    BY <1>1, <1>2
  <2> QED
    BY <1>2, <1>7, <1>8, <2>1
<1>11. Len(reader') = Len(reader) + d + k
  BY <1>1, <1>2, <1>7, <1>8
<1>12. reader' \in Seq({Pad} \cup 1..(next' - 1))
  <2>0. next' - 1 = next + k - 1
    BY <1>1
  <2>1. S = {Pad} \cup 1..(next' - 1)
    BY <2>0 DEF S
  <2> QED
    BY <1>7, <1>8, <2>1
<1>13. \A i \in 1..Len(reader) : reader'[i] = reader[i]
  BY <1>7, <1>8
<1> QED
  BY <1>2, <1>9, <1>10, <1>11, <1>12, <1>13

-----------------------------------------------------------------------------
(* Facts about the messages parsed, held and in the log.                     *)

(* The range of a sequence that grows or shrinks by one.                     *)
LEMMA Ranges ==
    ASSUME NEW S, NEW s \in Seq(S)
    PROVE  /\ Range(s) = {s[i] : i \in 1..Len(s)} /\ Range(s) \subseteq S
           /\ Range(<<>>) = {}
           /\ \A e : Range(Append(s, e)) = Range(s) \cup {e}
           /\ s # <<>> => Range(s) = {Head(s)} \cup Range(Tail(s))
<1>1. \A t : Range(t) = {t[i] : i \in DOMAIN t}
  BY DEF Range
<1>2. DOMAIN s = 1..Len(s) /\ Len(s) \in Nat /\ \A i \in 1..Len(s) : s[i] \in S
  OBVIOUS
<1>3. Range(s) = {s[i] : i \in 1..Len(s)} /\ Range(s) \subseteq S
  BY <1>1, <1>2
<1>4. Range(<<>>) = {}
  BY <1>1
<1>5. ASSUME NEW e
      PROVE  Range(Append(s, e)) = Range(s) \cup {e}
  <2> DEFINE t == Append(s, e)
  <2>1. /\ DOMAIN t = 1..(Len(s) + 1) /\ t[Len(s) + 1] = e
        /\ \A i \in 1..Len(s) : t[i] = s[i]
    OBVIOUS
  <2> HIDE DEF t
  <2>2. Range(t) = {t[i] : i \in 1..(Len(s) + 1)}
    BY <1>1, <2>1
  <2>3. Range(t) \subseteq Range(s) \cup {e}
    BY <1>2, <1>3, <2>1, <2>2
  <2>4. Range(s) \cup {e} \subseteq Range(t)
    BY <1>2, <1>3, <2>1, <2>2
  <2> QED
    BY <2>3, <2>4 DEF t
<1>6. ASSUME s # <<>>
      PROVE  Range(s) = {Head(s)} \cup Range(Tail(s))
  <2> DEFINE t == Tail(s)
  <2>1. /\ Len(s) \in Nat \ {0} /\ Head(s) = s[1]
        /\ t \in Seq(S) /\ DOMAIN t = 1..(Len(s) - 1)
        /\ \A i \in 1..(Len(s) - 1) : t[i] = s[i + 1]
    BY <1>6
  <2> HIDE DEF t
  <2>2. Range(t) = {t[i] : i \in 1..(Len(s) - 1)}
    BY <1>1, <2>1
  <2>3. ASSUME NEW i \in 1..Len(s)
        PROVE  s[i] \in {Head(s)} \cup Range(t)
    <3>1. i = 1 \/ (i - 1 \in 1..(Len(s) - 1) /\ i - 1 + 1 = i)
      BY <2>1
    <3> QED
      BY <2>1, <2>2, <3>1
  <2>4. \A i \in 1..(Len(s) - 1) : i + 1 \in 1..Len(s)
    BY <2>1
  <2> QED
    BY <1>3, <2>1, <2>2, <2>3, <2>4 DEF t
<1> QED
  BY <1>3, <1>4, <1>5, <1>6

(* What was parsed are messages that parse.                                  *)
LEMMA ParsedType ==
    ASSUME TypeOK
    PROVE  Parsed \subseteq Msg \ Bad
  BY Ranges DEF Parsed, TypeOK

(* Where a message begins the reader looks for as many pieces as it has, so  *)
(* it is unfinished there when it does not end in the reader.                *)
LEMMA StartClaims ==
    ASSUME NEW n \in Msg, NEW i \in Nat, reader[i] = First[n], Len(reader) \in Nat
    PROVE  Unfinished(reader, i) <=> Ending(i, n) > Len(reader)
<1>1. /\ First[n] \in Nat \ {0} /\ Final[n] \in Nat /\ First[n] <= Final[n]
      /\ Claim[First[n]] = Final[n] - First[n] + 1
  BY MessageOrder, ConstantsAssumption
<1>2. Claimed(reader[i]) = Final[n] - First[n] + 1
  BY <1>1 DEF Claimed, Pad
<1> QED
  BY <1>1, <1>2 DEF Unfinished, Ending

(* A message that is held stops the search where it begins.                  *)
LEMMA HeldIsStop ==
    ASSUME TypeOK, NEW n \in Msg, First[n] < next,
           NEW i \in 1..Len(reader), HeldAt(n, i)
    PROVE  i \in Stops /\ reader[i] = First[n]
<1>1. /\ First[n] \in 1..Length /\ Final[n] \in 1..Length /\ First[n] <= Final[n]
      /\ Len(reader) \in Nat /\ next \in Nat /\ Length \in Nat
  BY MessageOrder, ReaderType
<1>2. CASE Final[n] < next /\ Intact(reader, i, n)
  <2>1. i \in i..Ending(i, n) /\ First[n] + i - i = First[n]
    BY <1>1 DEF Ending
  <2>2. reader[i] = First[n]
    BY <1>2, <2>1 DEF Intact
  <2> QED
    BY <1>2, <2>2 DEF Stops
<1>3. CASE /\ next <= Final[n]
           /\ Len(reader) = i + next - First[n] - 1
           /\ \A j \in i..Len(reader) : reader[j] = First[n] + j - i
  <2>1. reader[i] = First[n]
    <3>1. i \in i..Len(reader) /\ First[n] + i - i = First[n]
      BY <1>1
    <3> QED
      BY <1>3, <3>1
  <2>2. Ending(i, n) > Len(reader)
    BY <1>1, <1>3 DEF Ending
  <2> QED
    BY <1>1, <2>1, <2>2, StartClaims DEF Stops
<1> QED
  BY <1>2, <1>3 DEF HeldAt

(* A message held beyond what is used up is held still, that much earlier.   *)
LEMMA StillHeld ==
    ASSUME TypeOK, next' = next, NEW k \in 0..Len(reader), UseUpTo(k),
           NEW n \in Msg, First[n] < next,
           NEW i \in 1..Len(reader), HeldAt(n, i), k < i
    PROVE  i - k \in 1..Len(reader') /\ HeldAt(n, i - k)'
<1>1. /\ First[n] \in 1..Length /\ Final[n] \in 1..Length /\ First[n] <= Final[n]
      /\ Len(reader) \in Nat /\ next \in Nat /\ Length \in Nat
  BY MessageOrder, ReaderType
<1>2. /\ Len(reader') = Len(reader) - k
      /\ \A j \in 1..Len(reader') :
            j + k \in 1..Len(reader) /\ reader'[j] = reader[j + k]
  BY UsedUp
<1>3. i - k \in 1..Len(reader')
  BY <1>1, <1>2
<1>4. CASE Final[n] < next /\ Intact(reader, i, n)
  <2>1. Ending(i - k, n) = Ending(i, n) - k /\ Ending(i, n) <= Len(reader)
        /\ Ending(i, n) \in Int
    BY <1>1, <1>4 DEF Ending, Intact
  <2>2. ASSUME NEW j \in (i - k)..Ending(i - k, n)
        PROVE  reader'[j] = First[n] + j - (i - k)
    <3>1. j \in 1..Len(reader') /\ j + k \in i..Ending(i, n)
      BY <1>1, <1>2, <2>1
    <3>2. reader'[j] = First[n] + (j + k) - i
      BY <1>2, <1>4, <3>1 DEF Intact
    <3> QED
      BY <1>1, <3>2
  <2>3. Ending(i - k, n) <= Len(reader')
    BY <1>1, <1>2, <2>1
  <2>4. Intact(reader', i - k, n)
    BY <2>2, <2>3 DEF Intact
  <2> QED
    BY <1>3, <1>4, <2>4 DEF HeldAt
<1>5. CASE /\ next <= Final[n]
           /\ Len(reader) = i + next - First[n] - 1
           /\ \A j \in i..Len(reader) : reader[j] = First[n] + j - i
  <2>1. ASSUME NEW j \in (i - k)..Len(reader')
        PROVE  reader'[j] = First[n] + j - (i - k)
    <3>1. j \in 1..Len(reader') /\ j + k \in i..Len(reader)
      BY <1>1, <1>2
    <3>2. reader'[j] = First[n] + (j + k) - i
      BY <1>2, <1>5, <3>1
    <3> QED
      BY <1>1, <3>2
  <2>2. Len(reader') = (i - k) + next - First[n] - 1
    BY <1>1, <1>2, <1>5
  <2> QED
    BY <1>3, <1>5, <2>1, <2>2 DEF HeldAt
<1> QED
  BY <1>4, <1>5 DEF HeldAt

(* The reader that is left is in order and behind what was parsed before.    *)
LEMMA StillOrdered ==
    ASSUME TypeOK, ReaderOK, lost' = lost,
           NEW k \in 0..Len(reader), UseUpTo(k)
    PROVE  /\ \A i \in 1..Len(reader') : reader'[i] \notin lost'
           /\ \A i, j \in 1..Len(reader') :
                 i < j /\ reader'[i] # Pad /\ reader'[j] # Pad => reader'[i] < reader'[j]
           /\ \A m \in Parsed, i \in 1..Len(reader') :
                 reader'[i] # Pad => Final[m] < reader'[i]
<1>1. /\ Len(reader) \in Nat /\ Len(reader') = Len(reader) - k
      /\ \A i \in 1..Len(reader') :
            i + k \in 1..Len(reader) /\ reader'[i] = reader[i + k]
  BY ReaderType, UsedUp
<1>2. \A i, j \in 1..Len(reader') : i < j => i + k < j + k
  BY <1>1
<1> QED
  BY <1>1, <1>2 DEF ReaderOK

-----------------------------------------------------------------------------
(* The invariant: initially, and one lemma per action.                       *)

LEMMA InitOK == Init => IInv
<1> SUFFICES ASSUME Init PROVE IInv
  OBVIOUS
<1>1. /\ Len(reader) = 0 /\ Len(log) = 0 /\ Len(frames) = 0
      /\ padded \in BOOLEAN /\ next = 1 /\ Length \in Nat
  BY ConstantsAssumption DEF Init
<1>2. TypeOK
  BY <1>1 DEF Init, TypeOK
<1>3. Parsed = {}
  <2>1. Range(<<>>) = {}
    BY DEF Range
  <2> QED
    BY <2>1 DEF Parsed, Init
<1>4. ReaderOK /\ OrderOK /\ ParsedReceived
  BY <1>1, <1>3 DEF ReaderOK, OrderOK, ParsedReceived
<1>5. NothingMissed
  <2>1. \A m \in Msg : ~(First[m] < next)
    BY <1>1, MessageOrder
  <2> QED
    BY <2>1 DEF NothingMissed, Begun
<1>6. PromptOnCleanLine
  BY <1>1 DEF PromptOnCleanLine, Waiting
<1> QED
  BY <1>2, <1>4, <1>5, <1>6 DEF IInv

(* Pieces at the end of the reader: a message that came whole stays where it *)
(* is, one that was under way goes on, or is cut by the pad, and one that    *)
(* begins in them is held there.                                             *)
LEMMA DeliverOK ==
    ASSUME IInv, NEW k \in 1..MaxChunk, next + k - 1 <= Length, Deliver(k)
    PROVE  IInv'
<1>1. /\ Len(reader) \in Nat /\ next \in Nat \ {0} /\ Length \in Nat
      /\ k \in Nat \ {0} /\ next' = next + k /\ padded \in BOOLEAN
      /\ \A i \in 1..Len(reader) :
            reader[i] \in Nat /\ (reader[i] = Pad \/ reader[i] \in 1..(next - 1))
  BY ConstantsAssumption, ReaderType DEF IInv, TypeOK, Deliver
<1>2. PICK d \in {0, 1} :
          /\ d = 0 <=> ~padded
          /\ reader' \in Seq({Pad} \cup 1..(next' - 1))
          /\ Len(reader') = Len(reader) + d + k
          /\ \A i \in 1..Len(reader) : reader'[i] = reader[i]
          /\ d = 1 => reader'[Len(reader) + 1] = Pad
          /\ \A i \in 1..k : reader'[Len(reader) + d + i] = next + i - 1
  BY <1>1, Filled DEF IInv, Deliver, Buffered
<1>3. /\ \A i \in 1..Len(reader') :
            \/ i \in 1..Len(reader) /\ reader'[i] = reader[i]
            \/ reader'[i] = Pad
            \/ i > Len(reader) /\ reader'[i] = next + i - Len(reader) - d - 1
                               /\ reader'[i] >= next
      /\ \A i \in (Len(reader) + d + 1)..Len(reader') :
            reader'[i] = next + i - Len(reader) - d - 1
  <2>1. ASSUME NEW i \in (Len(reader) + d + 1)..Len(reader')
        PROVE  reader'[i] = next + i - Len(reader) - d - 1
    <3>1. /\ i - Len(reader) - d \in 1..k
          /\ Len(reader) + d + (i - Len(reader) - d) = i
      BY <1>1, <1>2
    <3>2. reader'[Len(reader) + d + (i - Len(reader) - d)]
             = next + (i - Len(reader) - d) - 1
      BY <1>2, <3>1
    <3> QED
      BY <1>1, <3>1, <3>2
  <2>2. ASSUME NEW i \in 1..Len(reader')
        PROVE  \/ i \in 1..Len(reader) /\ reader'[i] = reader[i]
               \/ reader'[i] = Pad
               \/ i > Len(reader) /\ reader'[i] = next + i - Len(reader) - d - 1
                                  /\ reader'[i] >= next
    <3>1. \/ i \in 1..Len(reader)
          \/ d = 1 /\ i = Len(reader) + 1
          \/ i \in (Len(reader) + d + 1)..Len(reader')
      BY <1>1, <1>2
    <3>2. i \in (Len(reader) + d + 1)..Len(reader') =>
             i > Len(reader) /\ next + i - Len(reader) - d - 1 >= next
      BY <1>1, <1>2
    <3> QED
      BY <1>2, <2>1, <3>1, <3>2
  <2> QED
    BY <2>1, <2>2
<1>4. Parsed' = Parsed /\ lost' = lost
  BY DEF Deliver, Parsed
<1>5. TypeOK'
  <2>1. next' \in 1..(Length + 1) /\ 1..(next - 1) \subseteq 1..(next' - 1)
    BY <1>1
  <2> QED
    BY <1>2, <2>1 DEF IInv, TypeOK, Deliver, MidMessage
<1>6. ReaderOK'
  <2>1. \A i \in 1..Len(reader') : reader'[i] \notin lost'
    <3>1. \A p \in lost : p \in Nat /\ p # Pad /\ p < next
      BY <1>1 DEF IInv, TypeOK, Pad
    <3>2. \A i \in 1..Len(reader) : reader[i] \notin lost
      BY DEF IInv, ReaderOK
    <3> QED
      BY <1>1, <1>3, <1>4, <3>1, <3>2
  <2>2. ASSUME NEW i \in 1..Len(reader'), NEW j \in 1..Len(reader'),
               i < j, reader'[i] # Pad, reader'[j] # Pad
        PROVE  reader'[i] < reader'[j]
    <3>1. CASE j \in 1..Len(reader) /\ reader'[j] = reader[j]
      <4>1. i \in 1..Len(reader) /\ reader'[i] = reader[i]
        BY <1>1, <1>2, <2>2, <3>1
      <4> QED
        BY <2>2, <3>1, <4>1 DEF IInv, ReaderOK
    <3>2. CASE /\ j > Len(reader) /\ reader'[j] >= next
               /\ reader'[j] = next + j - Len(reader) - d - 1
      <4>1. CASE i \in 1..Len(reader) /\ reader'[i] = reader[i]
        BY <1>1, <2>2, <3>2, <4>1
      <4>2. CASE i > Len(reader) /\ reader'[i] = next + i - Len(reader) - d - 1
        BY <1>1, <2>2, <3>2, <4>2
      <4> QED
        BY <1>3, <2>2, <4>1, <4>2
    <3> QED
      BY <1>3, <2>2, <3>1, <3>2
  <2>3. ASSUME NEW m \in Parsed, NEW i \in 1..Len(reader'), reader'[i] # Pad
        PROVE  Final[m] < reader'[i]
    <3>1. Final[m] \in Nat /\ Final[m] < next
      <4>1. m \in Msg
        BY ParsedType DEF IInv
      <4>2. Final[m] \in Pieces(m) /\ Final[m] \in Nat
        BY <1>1, <4>1, MessageOrder DEF Pieces
      <4> QED
        BY <4>1, <4>2 DEF IInv, ParsedReceived, Received
    <3>2. \A j \in 1..Len(reader) : reader[j] # Pad => Final[m] < reader[j]
      BY <2>3 DEF IInv, ReaderOK
    <3> QED
      BY <1>1, <1>3, <2>3, <3>1, <3>2
  <2> QED
    BY <1>4, <2>1, <2>2, <2>3 DEF ReaderOK
<1>7. OrderOK'
  BY DEF IInv, OrderOK, Deliver
<1>8. ParsedReceived'
  <2>1. \A m \in Parsed : m \in Msg /\ \A p \in Pieces(m) : p \in Nat
    BY <1>1, ParsedType, MessageOrder DEF IInv, Pieces
  <2> QED
    BY <1>1, <1>4, <2>1 DEF IInv, ParsedReceived, Received
<1>9. NothingMissed'
  <2> SUFFICES ASSUME NEW n \in Msg \ Bad, Begun(n)'
               PROVE  n \in (Parsed \cup cut)' \/ \E i \in 1..Len(reader') : HeldAt(n, i)'
    BY DEF NothingMissed
  <2>1. /\ First[n] \in Nat \ {0} /\ Final[n] \in Nat /\ First[n] <= Final[n]
        /\ First[n] < next'
    BY <1>1, MessageOrder DEF Begun
  <2>2. cut \subseteq cut' /\ (padded => MidMessage \subseteq cut')
    BY DEF Deliver
  (* A run of pieces of n up to the end of the reader. *)
  <2>3. ASSUME NEW i \in 1..Len(reader'), Len(reader') = i + next' - First[n] - 1,
               \A j \in i..Len(reader') : reader'[j] = First[n] + j - i
        PROVE  HeldAt(n, i)'
    <3>1. CASE next' <= Final[n]
      BY <2>3, <3>1 DEF HeldAt
    <3>2. CASE Final[n] < next'
      <4>0. /\ i \in Int /\ Len(reader') \in Int /\ next' \in Int
            /\ First[n] \in Int /\ Final[n] \in Int
        BY <1>1, <1>2, <2>1
      <4>1. Ending(i, n) <= Len(reader') /\ Ending(i, n) \in Int
        BY <2>3, <3>2, <4>0 DEF Ending
      <4>2. Intact(reader', i, n)
        BY <1>1, <1>2, <2>3, <4>1 DEF Intact
      <4> QED
        BY <3>2, <4>2 DEF HeldAt
    <3> QED
      BY <1>1, <2>1, <3>1, <3>2
  <2>4. CASE First[n] < next
    <3>1. Begun(n)
      BY <1>4, <2>4 DEF Begun
    <3>2. CASE n \in Parsed \cup cut
      BY <1>4, <2>2, <3>2
    <3>3. ASSUME NEW i \in 1..Len(reader), Final[n] < next, Intact(reader, i, n)
          PROVE  \E e \in 1..Len(reader') : HeldAt(n, e)'
      <4>1. Ending(i, n) <= Len(reader) /\ Ending(i, n) \in Int
        BY <2>1, <3>3 DEF Ending, Intact
      <4>2. \A j \in i..Ending(i, n) : j \in 1..Len(reader) /\ reader'[j] = First[n] + j - i
        BY <1>1, <1>2, <3>3, <4>1 DEF Intact
      <4>3. Ending(i, n) <= Len(reader') /\ i \in 1..Len(reader') /\ Final[n] < next'
        BY <1>1, <1>2, <2>1, <3>3, <4>1
      <4>4. Intact(reader', i, n)
        BY <4>2, <4>3 DEF Intact
      <4> QED
        BY <4>3, <4>4 DEF HeldAt
    <3>4. ASSUME NEW i \in 1..Len(reader), next <= Final[n],
                 Len(reader) = i + next - First[n] - 1,
                 \A j \in i..Len(reader) : reader[j] = First[n] + j - i
          PROVE  n \in cut' \/ \E e \in 1..Len(reader') : HeldAt(n, e)'
      <4>1. CASE padded
        BY <2>2, <2>4, <3>4, <4>1 DEF MidMessage
      <4>2. CASE ~padded
        <5>1. d = 0
          BY <1>2, <4>2
        <5>2. i \in 1..Len(reader') /\ Len(reader') = i + next' - First[n] - 1
          <6>1. /\ First[n] \in Int /\ Len(reader) \in Int /\ next \in Int
                /\ i \in Int /\ 1 <= i /\ i <= Len(reader) /\ k \in Nat
                /\ Len(reader') = Len(reader) + k /\ next' = next + k
            BY <1>1, <1>2, <2>1, <5>1
          <6> QED
            BY <3>4, <6>1
        <5>3. ASSUME NEW j \in i..Len(reader')
              PROVE  reader'[j] = First[n] + j - i
          <6>1. CASE j \in i..Len(reader)
            <7>1. j \in 1..Len(reader)
              BY <1>1, <6>1
            <7> QED
              BY <1>2, <3>4, <6>1, <7>1
          <6>2. CASE j \in (Len(reader) + d + 1)..Len(reader')
            <7>1. reader'[j] = next + j - Len(reader) - d - 1 /\ j \in Int
              BY <1>3, <6>2
            <7> DEFINE len == Len(reader)  f == First[n]
            <7>2. len = i + next - f - 1
              BY <3>4
            <7>3. i \in Int /\ j \in Int /\ next \in Int /\ f \in Int /\ len \in Int
              BY <1>1, <2>1, <7>1
            <7> HIDE DEF len, f
            <7>4. next + j - len - 1 = f + j - i
              BY <7>2, <7>3
            <7> USE DEF len, f
            <7> QED
              BY <5>1, <7>1, <7>3, <7>4
          <6> QED
            BY <1>1, <1>2, <5>1, <6>1, <6>2
        <5> QED
          BY <2>3, <5>2, <5>3
      <4> QED
        BY <1>1, <4>1, <4>2
    <3>5. CASE \E i \in 1..Len(reader) : HeldAt(n, i)
      BY <3>3, <3>4, <3>5 DEF HeldAt
    <3> QED
      BY <3>1, <3>2, <3>5 DEF IInv, NothingMissed
  <2>5. CASE ~(First[n] < next)
    <3> DEFINE i == Len(reader) + d + First[n] - next + 1
    <3>1. /\ Len(reader) \in Nat /\ next \in Nat /\ First[n] \in Nat /\ d \in Nat
          /\ First[n] >= next /\ First[n] < next + k
          /\ Len(reader') = Len(reader) + d + k /\ next' = next + k
      BY <1>1, <1>2, <2>1, <2>5
    <3>2. /\ i \in (Len(reader) + d + 1)..Len(reader') /\ i \in 1..Len(reader')
          /\ Len(reader') = i + next' - First[n] - 1
      BY <3>1
    <3>3. ASSUME NEW j \in i..Len(reader')
          PROVE  reader'[j] = First[n] + j - i
      <4>1. j \in (Len(reader) + d + 1)..Len(reader') /\ j \in Int
        BY <3>1, <3>2
      <4>2. reader'[j] = next + j - Len(reader) - d - 1
        BY <1>3, <4>1
      <4> QED
        BY <3>1, <4>1, <4>2
    <3> HIDE DEF i
    <3> QED
      BY <2>3, <3>2, <3>3
  <2> QED
    BY <2>4, <2>5
<1>10. PromptOnCleanLine'
  BY DEF Deliver, PromptOnCleanLine
<1> QED
  BY <1>5, <1>6, <1>7, <1>8, <1>9, <1>10 DEF IInv

(* A message is read: what is held begins behind it, or is that message.     *)
LEMMA ReadMessageOK ==
    ASSUME IInv, NEW i \in Stops, NEW m \in Msg, ReadMessage(i, m)
    PROVE  IInv'
<1> DEFINE k == Ending(i, m)
<1>1. /\ Len(reader) \in Nat /\ next \in Nat /\ Length \in Nat
      /\ i \in 1..Len(reader) /\ Intact(reader, i, m) /\ UseUpTo(k)
      /\ First[m] \in 1..Length /\ Final[m] \in 1..Length /\ First[m] <= Final[m]
      /\ lost' = lost /\ next' = next /\ log' = log /\ dropped' = dropped /\ cut' = cut
  BY ReaderType, MessageOrder DEF IInv, ReadMessage, Stops
<1>2. k \in i..Len(reader) /\ k \in 0..Len(reader) /\ k = i + Final[m] - First[m]
  BY <1>1 DEF Intact, Ending
<1>3. /\ \A j \in i..k : j \in 1..Len(reader) /\ reader[j] = First[m] + j - i
      /\ reader[i] = First[m] /\ reader[k] = Final[m]
  BY <1>1, <1>2 DEF Intact
<1> HIDE DEF k
<1>4. Received(m)
  <2> SUFFICES ASSUME NEW p \in Pieces(m) PROVE p < next /\ p \notin lost
    BY DEF Received
  <2>1. /\ p \in Nat \ {0} /\ i + p - First[m] \in i..k
        /\ First[m] + (i + p - First[m]) - i = p
    BY <1>1, <1>2 DEF Pieces
  <2>2. i + p - First[m] \in 1..Len(reader) /\ reader[i + p - First[m]] = p
    BY <1>3, <2>1
  <2>3. p \in 1..(next - 1)
    BY <2>1, <2>2, ReaderType DEF IInv, Pad
  <2>4. p \notin lost
    BY <2>2 DEF IInv, ReaderOK
  <2> QED
    BY <1>1, <2>3, <2>4
<1>5. \/ m \in Bad /\ phase' = "log" /\ frames' = frames
      \/ m \in Msg \ Bad /\ phase' = "parse" /\ frames' = Append(frames, m)
  BY DEF ReadMessage, EndsCall
<1>6. /\ Parsed' \subseteq Parsed \cup {m} /\ Parsed \subseteq Parsed'
      /\ m \notin Bad => m \in Parsed'
  <2>1. CASE m \in Bad /\ frames' = frames
    BY <1>1, <2>1 DEF Parsed
  <2>2. CASE m \in Msg \ Bad /\ frames' = Append(frames, m)
    <3>1. Range(frames') = Range(frames) \cup {m}
      BY <2>2, Ranges DEF IInv, TypeOK
    <3> QED
      BY <1>1, <3>1 DEF Parsed
  <2> QED
    BY <1>5, <2>1, <2>2
<1>7. \A x \in Parsed : x \in Msg /\ Final[x] < First[m] /\ x < m
  <2>1. reader[i] # Pad /\ reader[i] = First[m] /\ i \in 1..Len(reader)
    BY <1>1, <1>3 DEF Pad
  <2>2. \A x \in Parsed : x \in Msg /\ Final[x] < First[m]
    BY <2>1, ParsedType DEF IInv, ReaderOK
  <2> QED
    BY <2>2, MessageOrder
<1>8. TypeOK'
  <2>1. reader' \in Seq({Pad} \cup 1..(next - 1))
    BY <1>1, <1>2, UsedUp DEF IInv
  <2>2. frames' \in Seq(Msg \ Bad)
    <3>1. frames \in Seq(Msg \ Bad)
      BY DEF IInv, TypeOK
    <3> QED
      BY <1>5, <3>1
  <2>3. phase' \in {"idle", "parse", "log"}
    BY <1>5
  <2> QED
    BY <1>1, <2>1, <2>2, <2>3 DEF IInv, TypeOK, ReadMessage
<1>9. ReaderOK'
  <2>1. /\ \A j \in 1..Len(reader') : reader'[j] \notin lost'
        /\ \A j, l \in 1..Len(reader') :
              j < l /\ reader'[j] # Pad /\ reader'[l] # Pad => reader'[j] < reader'[l]
        /\ \A x \in Parsed, j \in 1..Len(reader') :
              reader'[j] # Pad => Final[x] < reader'[j]
    BY <1>1, <1>2, StillOrdered DEF IInv
  <2>2. ASSUME NEW j \in 1..Len(reader'), reader'[j] # Pad
        PROVE  Final[m] < reader'[j]
    <3>1. /\ Len(reader') = Len(reader) - k
          /\ j + k \in 1..Len(reader) /\ reader'[j] = reader[j + k]
      BY <1>1, <1>2, UsedUp DEF IInv
    <3>2. k < j + k /\ k \in 1..Len(reader) /\ reader[k] # Pad
      <4>1. k \in Nat \ {0} /\ j \in Nat \ {0}
        BY <1>1, <1>2
      <4>2. reader[k] # Pad
        BY <1>1, <1>3 DEF Pad
      <4> QED
        BY <1>2, <4>1, <4>2
    <3>3. reader[k] < reader[j + k]
      BY <2>2, <3>1, <3>2 DEF IInv, ReaderOK
    <3> QED
      BY <1>3, <3>1, <3>3
  <2> QED
    BY <1>6, <2>1, <2>2 DEF ReaderOK
<1>10. OrderOK'
  <2>1. CASE frames' = frames
    BY <1>1, <2>1 DEF IInv, OrderOK
  <2>2. CASE m \in Msg \ Bad /\ frames' = Append(frames, m)
    <3>1. /\ Len(frames) \in Nat /\ Len(frames') = Len(frames) + 1
          /\ \A j \in 1..Len(frames) : frames'[j] = frames[j]
          /\ frames'[Len(frames) + 1] = m
      BY <2>2 DEF IInv, TypeOK
    <3>2. /\ \A j \in 1..Len(frames) : frames[j] < m
          /\ \A j \in 1..Len(log) : log[j] < m
      <4>1. /\ \A j \in 1..Len(frames) : frames[j] \in Parsed
            /\ \A j \in 1..Len(log) : log[j] \in Parsed
        BY Ranges DEF IInv, TypeOK, Parsed
      <4> QED
        BY <1>7, <4>1
    <3>3. ASSUME NEW j \in 1..Len(frames'), NEW l \in 1..Len(frames'), j < l
          PROVE  frames'[j] < frames'[l]
      <4>1. j \in 1..Len(frames) /\ (l \in 1..Len(frames) \/ l = Len(frames) + 1)
        BY <3>1, <3>3
      <4> QED
        BY <3>1, <3>2, <3>3, <4>1 DEF IInv, OrderOK
    <3>4. ASSUME NEW j \in 1..Len(log), NEW l \in 1..Len(frames')
          PROVE  log[j] < frames'[l]
      <4>1. l \in 1..Len(frames) \/ l = Len(frames) + 1
        BY <3>1
      <4> QED
        BY <3>1, <3>2, <4>1 DEF IInv, OrderOK
    <3> QED
      BY <1>1, <3>3, <3>4 DEF IInv, OrderOK
  <2> QED
    BY <1>5, <2>1, <2>2
<1>11. ParsedReceived'
  BY <1>1, <1>4, <1>6 DEF IInv, ParsedReceived, Received
<1>12. NothingMissed'
  <2> SUFFICES ASSUME NEW n \in Msg \ Bad, Begun(n)'
               PROVE  n \in (Parsed \cup cut)' \/ \E j \in 1..Len(reader') : HeldAt(n, j)'
    BY DEF NothingMissed
  <2>1. Begun(n)
    BY <1>1 DEF Begun
  <2>2. ASSUME NEW j \in 1..Len(reader), HeldAt(n, j)
        PROVE  n \in Parsed' \/ \E l \in 1..Len(reader') : HeldAt(n, l)'
    <3>1. j \in Stops /\ reader[j] = First[n]
      BY <2>1, <2>2, HeldIsStop DEF IInv, Begun
    <3>2. i <= j
      BY <3>1 DEF ReadMessage, FirstStop
    <3>3. CASE j <= k
      <4>1. j \in i..k /\ First[n] = First[m] + j - i
        BY <1>1, <1>2, <1>3, <3>1, <3>2, <3>3
      <4>2. First[n] \in Pieces(m)
        BY <1>1, <1>2, <4>1 DEF Pieces
      <4>3. n = m
        BY <4>2, MessageOrder
      <4> QED
        BY <1>6, <4>3
    <3>4. CASE k < j
      BY <1>1, <1>2, <2>1, <2>2, <3>4, StillHeld DEF IInv, Begun
    <3> QED
      BY <1>1, <1>2, <3>3, <3>4
  <2> QED
    BY <1>1, <1>6, <2>1, <2>2 DEF IInv, NothingMissed
<1>13. PromptOnCleanLine'
  BY <1>1, <1>4, <1>5 DEF PromptOnCleanLine, Received
<1> QED
  BY <1>8, <1>9, <1>10, <1>11, <1>12, <1>13 DEF IInv

(* No message is read: nothing is held in what is skipped.  On a clean line  *)
(* nothing waits behind it either: what seems incomplete would be a piece of *)
(* a message that came whole, and then that is held where it begins.         *)
LEMMA ReadNothingOK ==
    ASSUME IInv, ReadNothing
    PROVE  IInv'
<1>1. /\ lost' = lost /\ next' = next /\ log' = log /\ frames' = frames
      /\ dropped' = dropped /\ cut' = cut /\ Parsed' = Parsed
      /\ Len(reader) \in Nat /\ next \in Nat /\ Length \in Nat
  BY ReaderType DEF IInv, ReadNothing, Parsed
<1>2. OrderOK' /\ ParsedReceived'
  BY <1>1 DEF IInv, OrderOK, ParsedReceived, Received
<1>3. CASE Stops = {} /\ reader' = <<>>
  <2>1. Len(reader') = 0
    BY <1>3
  <2>2. TypeOK'
    BY <1>1, <1>3 DEF IInv, TypeOK, ReadNothing
  <2>3. ReaderOK'
    BY <2>1 DEF ReaderOK
  <2>4. NothingMissed'
    <3> SUFFICES ASSUME NEW n \in Msg \ Bad, Begun(n)'
                 PROVE  n \in (Parsed \cup cut)'
      BY DEF NothingMissed
    <3>1. Begun(n)
      BY <1>1 DEF Begun
    <3>2. \A i \in 1..Len(reader) : ~HeldAt(n, i)
      BY <1>3, <3>1, HeldIsStop DEF IInv, Begun
    <3> QED
      BY <1>1, <3>1, <3>2 DEF IInv, NothingMissed
  <2>5. PromptOnCleanLine'
    BY <2>1 DEF PromptOnCleanLine, Waiting
  <2> QED
    BY <1>2, <2>2, <2>3, <2>4, <2>5 DEF IInv
<1>4. ASSUME NEW i \in Stops,
             FirstStop(i), Unfinished(reader, i), UseUpTo(i - 1)
      PROVE  IInv'
  <2> DEFINE k == i - 1
  <2>1. /\ i \in 1..Len(reader) /\ k \in 0..Len(reader) /\ UseUpTo(k) /\ k = i - 1
        /\ reader[i] \in Place /\ reader[i] < next /\ reader[i] # Pad
        /\ reader[i] \in Int
        /\ Claim[reader[i]] # 0 /\ Unfinished(reader, i)
    <3>1. i \in 1..Len(reader) /\ Claimed(reader[i]) > 0
      BY <1>4 DEF Stops, Unfinished
    <3>2. reader[i] # Pad /\ Claim[reader[i]] # 0
      BY <3>1 DEF Claimed
    <3>3. reader[i] \in 1..(next - 1) /\ next \in 1..(Length + 1)
      BY <3>1, <3>2, ReaderType DEF IInv, TypeOK
    <3> QED
      BY <1>1, <1>4, <3>1, <3>2, <3>3 DEF Place
  <2> HIDE DEF k
  <2>2. /\ Len(reader') = Len(reader) - k
        /\ reader' \in Seq({Pad} \cup 1..(next - 1))
        /\ \A j \in 1..Len(reader') :
              j + k \in 1..Len(reader) /\ reader'[j] = reader[j + k]
    BY <2>1, UsedUp DEF IInv
  <2>3. TypeOK'
    BY <1>1, <2>2 DEF IInv, TypeOK, ReadNothing
  <2>4. ReaderOK'
    BY <1>1, <2>1, StillOrdered DEF IInv, ReaderOK
  <2>5. NothingMissed'
    <3> SUFFICES ASSUME NEW n \in Msg \ Bad, Begun(n)'
                 PROVE  n \in (Parsed \cup cut)' \/ \E j \in 1..Len(reader') : HeldAt(n, j)'
      BY DEF NothingMissed
    <3>1. Begun(n)
      BY <1>1 DEF Begun
    <3>2. ASSUME NEW j \in 1..Len(reader), HeldAt(n, j)
          PROVE  \E l \in 1..Len(reader') : HeldAt(n, l)'
      <4>1. j \in Stops
        BY <3>1, <3>2, HeldIsStop DEF IInv, Begun
      <4>2. k < j
        BY <1>4, <2>1, <4>1 DEF FirstStop
      <4> QED
        BY <1>1, <2>1, <3>1, <3>2, <4>2, StillHeld DEF IInv, Begun
    <3> QED
      BY <1>1, <3>1, <3>2 DEF IInv, NothingMissed
  <2>6. PromptOnCleanLine'
    <3> SUFFICES ASSUME lost = {}, cut = {}, NoFalseStart,
                        ~(\E n \in Bad : Received(n)),
                        NEW x \in Msg, NEW y \in 1..Len(reader'), Intact(reader', y, x)
                 PROVE  FALSE
      BY <1>1 DEF PromptOnCleanLine, Waiting, Received, NoFalseStart
    <3> DEFINE j == y + k
    <3>1. j \in 1..Len(reader) /\ j >= i /\ reader[j] = First[x]
      <4>1. y \in y..Ending(y, x) /\ First[x] + y - y = First[x]
        BY MessageOrder DEF Ending
      <4>2. reader'[y] = First[x]
        BY <4>1 DEF Intact
      <4> QED
        BY <1>1, <2>1, <2>2, <4>2
    <3>2. Ending(j, x) <= Len(reader)
      <4>1. Ending(y, x) + k = Ending(j, x) /\ Ending(y, x) \in Int
        BY <2>1, MessageOrder DEF Ending
      <4> QED
        BY <1>1, <2>1, <2>2, <4>1 DEF Intact
    <3> HIDE DEF j
    <3>3. j # i
      <4>1. ASSUME j = i PROVE Ending(j, x) > Len(reader)
        BY <2>1, <3>1, <4>1, StartClaims
      <4> QED
        BY <1>1, <3>1, <3>2, <4>1, MessageOrder DEF Ending
    <3>4. reader[i] < First[x] /\ First[x] < next
      <4>1. reader[j] # Pad /\ reader[j] \in 1..(next - 1)
        BY <3>1, ReaderType, MessageOrder DEF IInv, Pad
      <4>2. i < j
        BY <1>1, <2>1, <3>1, <3>3
      <4> QED
        BY <1>1, <2>1, <3>1, <4>1, <4>2 DEF IInv, ReaderOK
    <3>5. PICK m \in Msg : reader[i] \in Pieces(m)
      BY <2>1 DEF NoFalseStart
    <3>6. /\ First[m] \in Nat /\ Final[m] \in Nat /\ First[m] \in Pieces(m)
          /\ First[m] <= reader[i] /\ reader[i] <= Final[m] /\ First[m] # Pad
      BY <3>5, MessageOrder DEF Pieces, Pad
    <3>7. Final[m] < next
      <4>1. First[m] < First[x] /\ First[x] \in Nat
        <5>1. First[x] \in Nat
          BY MessageOrder
        <5> QED
          BY <2>1, <3>4, <3>6, <5>1
      <4>2. Final[m] < First[x]
        BY <4>1, MessageOrder
      <4> QED
        BY <1>1, <3>4, <3>6, <4>1, <4>2
    <3>8. Received(m) /\ Begun(m)
      BY <1>1, <3>6, <3>7 DEF Received, Begun, Pieces
    <3>9. m \notin Parsed
      <4>1. ~(Final[m] < reader[i])
        BY <2>1, <3>6
      <4> QED
        BY <2>1, <4>1 DEF IInv, ReaderOK
    <3>10. PICK l \in 1..Len(reader) : HeldAt(m, l)
      BY <3>8, <3>9 DEF IInv, NothingMissed
    <3>11. l \in Stops /\ reader[l] = First[m] /\ Intact(reader, l, m)
      <4>1. l \in Stops /\ reader[l] = First[m]
        BY <3>8, <3>10, HeldIsStop DEF IInv, Begun
      <4>2. ~(next <= Final[m])
        BY <1>1, <3>6, <3>7
      <4> QED
        BY <3>10, <4>1, <4>2 DEF HeldAt
    <3>12. l = i
      <4>1. i <= l
        BY <1>4, <3>11 DEF FirstStop
      <4>2. ~(i < l)
        <5>1. ~(reader[i] < reader[l]) /\ reader[l] # Pad
          BY <2>1, <3>6, <3>11
        <5> QED
          BY <2>1, <5>1 DEF IInv, ReaderOK
      <4> QED
        BY <1>1, <2>1, <4>1, <4>2
    <3>13. Ending(i, m) > Len(reader)
      BY <2>1, <3>11, <3>12, StartClaims
    <3>14. Ending(i, m) <= Len(reader) /\ Ending(i, m) \in Int
      BY <2>1, <3>6, <3>11, <3>12 DEF Intact, Ending
    <3> QED
      BY <1>1, <3>13, <3>14
  <2> QED
    BY <1>2, <2>3, <2>4, <2>5, <2>6 DEF IInv
<1> QED
  BY <1>3, <1>4 DEF ReadNothing

(* What leaves the reader and the link alone: only the order of log and      *)
(* frames, and what was parsed, are left to check.                           *)
LEMMA ReaderAlone ==
    ASSUME IInv, TypeOK', phase' # "parse" => phase # "parse",
           UNCHANGED <<next, lost, reader, cut>>, OrderOK', Parsed' = Parsed
    PROVE  IInv'
<1>1. ReaderOK'
  BY DEF IInv, ReaderOK
<1>2. ParsedReceived'
  BY DEF IInv, ParsedReceived, Received
<1>3. NothingMissed'
  BY DEF IInv, NothingMissed, Begun, HeldAt
<1>4. PromptOnCleanLine'
  BY DEF IInv, PromptOnCleanLine, NoFalseStart, Received, Waiting
<1> QED
  BY <1>1, <1>2, <1>3, <1>4 DEF IInv

(* A frame goes from the head of the frames to the end of the log.           *)
LEMMA WriteFrameOK ==
    ASSUME IInv, WriteFrame
    PROVE  IInv'
<1>1. /\ frames \in Seq(Msg \ Bad) /\ frames # <<>> /\ log \in Seq(Msg \ Bad)
      /\ log' = Append(log, Head(frames)) /\ frames' = Tail(frames)
  BY DEF IInv, TypeOK, WriteFrame, Drained
<1>2. /\ Len(frames) \in Nat \ {0} /\ Len(log) \in Nat /\ Head(frames) = frames[1]
      /\ frames' \in Seq(Msg \ Bad) /\ log' \in Seq(Msg \ Bad)
      /\ Len(frames') = Len(frames) - 1 /\ Len(log') = Len(log) + 1
      /\ \A i \in 1..Len(frames') : frames'[i] = frames[i + 1]
      /\ \A i \in 1..Len(log) : log'[i] = log[i]
      /\ log'[Len(log) + 1] = frames[1]
  <2>1. Head(frames) \in Msg \ Bad /\ Head(frames) = frames[1]
    BY <1>1
  <2> QED
    BY <1>1, <2>1
<1>3. TypeOK'
  BY <1>2 DEF IInv, TypeOK, WriteFrame
<1>4. Parsed' = Parsed
  <2>1. Range(frames) = {Head(frames)} \cup Range(Tail(frames))
    BY <1>1, Ranges
  <2>2. Range(log') = Range(log) \cup {Head(frames)}
    BY <1>1, Ranges
  <2> QED
    BY <1>1, <2>1, <2>2 DEF Parsed, WriteFrame
<1>5. OrderOK'
  <2>1. /\ \A i \in 1..Len(frames') : i + 1 \in 1..Len(frames) /\ 1 < i + 1
        /\ \A i \in 1..Len(log') : i \in 1..Len(log) \/ i = Len(log) + 1
        /\ 1 \in 1..Len(frames)
    BY <1>2
  <2>2. \A i, j \in 1..Len(frames') : i < j => frames'[i] < frames'[j]
    <3>1. \A i, j \in 1..Len(frames') : i < j => i + 1 < j + 1
      BY <1>2
    <3> QED
      BY <1>2, <2>1, <3>1 DEF IInv, OrderOK
  <2>3. ASSUME NEW i \in 1..Len(log'), NEW j \in 1..Len(log'), i < j
        PROVE  log'[i] < log'[j]
    <3>1. i \in 1..Len(log)
      BY <1>2, <2>3
    <3> QED
      BY <1>2, <2>1, <2>3, <3>1 DEF IInv, OrderOK
  <2>4. \A i \in 1..Len(log'), j \in 1..Len(frames') : log'[i] < frames'[j]
    BY <1>2, <2>1 DEF IInv, OrderOK
  <2> QED
    BY <2>2, <2>3, <2>4 DEF OrderOK
<1> QED
  BY <1>3, <1>4, <1>5, ReaderAlone DEF WriteFrame

(* The log ends; frames that are left count as dropped.                      *)
LEMMA EndLogOK ==
    ASSUME IInv, EndLog
    PROVE  IInv'
<1>1. Parsed' = Parsed /\ Len(frames') = 0 /\ frames' = <<>>
  <2>1. Range(<<>>) = {}
    BY DEF Range
  <2> QED
    BY <2>1 DEF Parsed, EndLog
<1>2. TypeOK'
  <2>1. Range(frames) \subseteq Msg \ Bad
    BY Ranges DEF IInv, TypeOK
  <2> QED
    BY <2>1 DEF IInv, TypeOK, EndLog
<1>3. OrderOK'
  BY <1>1 DEF IInv, OrderOK, EndLog
<1> QED
  BY <1>1, <1>2, <1>3, ReaderAlone DEF EndLog

(* Pieces are lost on the way: what is under way is lost with them.          *)
LEMMA LoseOK ==
    ASSUME IInv, NEW k \in 1..MaxChunk, next + k - 1 <= Length, Lose(k)
    PROVE  IInv'
<1>1. /\ Len(reader) \in Nat /\ next \in Nat \ {0} /\ Length \in Nat /\ k \in Nat \ {0}
      /\ next' = next + k /\ lost' = lost \cup (next .. (next + k - 1))
      /\ reader' = reader /\ Parsed' = Parsed /\ cut' = cut
      /\ next \in lost' /\ lost \subseteq lost'
  <2>1. next \in Nat \ {0} /\ k \in Nat \ {0}
    BY ConstantsAssumption DEF IInv, TypeOK
  <2> QED
    BY <2>1, ReaderType DEF IInv, Lose, Parsed
<1>2. TypeOK'
  <2>1. /\ next' \in 1..(Length + 1) /\ 1..(next - 1) \subseteq 1..(next' - 1)
        /\ next .. (next + k - 1) \subseteq 1..(next' - 1)
    BY <1>1
  <2>2. reader' \in Seq({Pad} \cup 1..(next' - 1))
    <3>1. {Pad} \cup 1..(next - 1) \subseteq {Pad} \cup 1..(next' - 1)
      BY <2>1
    <3> QED
      BY <1>1, <3>1 DEF IInv, TypeOK
  <2> QED
    BY <1>1, <2>1, <2>2 DEF IInv, TypeOK, Lose
<1>3. ReaderOK'
  <2>1. \A i \in 1..Len(reader) : reader[i] \notin next .. (next + k - 1)
    BY <1>1, ReaderType DEF IInv, Pad
  <2> QED
    BY <1>1, <2>1 DEF IInv, ReaderOK
<1>4. OrderOK'
  BY DEF IInv, OrderOK, Lose
<1>5. ParsedReceived'
  <2>1. \A m \in Parsed : m \in Msg /\ \A p \in Pieces(m) : p \in Nat
    BY <1>1, ParsedType, MessageOrder DEF IInv, Pieces
  <2>2. ASSUME NEW m \in Parsed, NEW p \in Pieces(m)
        PROVE  p < next' /\ p \notin lost'
    <3>1. p \in Nat /\ p < next /\ p \notin lost
      BY <2>1, <2>2 DEF IInv, ParsedReceived, Received
    <3> QED
      BY <1>1, <3>1
  <2> QED
    BY <1>1, <2>2 DEF ParsedReceived, Received
<1>6. NothingMissed'
  <2> SUFFICES ASSUME NEW n \in Msg \ Bad, Begun(n)'
               PROVE  n \in Parsed \cup cut \/ \E i \in 1..Len(reader) : HeldAt(n, i)'
    BY <1>1 DEF NothingMissed
  <2>1. /\ First[n] \in Nat \ {0} /\ Final[n] \in Nat /\ First[n] <= Final[n]
        /\ First[n] < next' /\ First[n] \in Pieces(n)
        /\ \A p \in Pieces(n) : p \notin lost'
    BY <1>1, MessageOrder DEF Begun, Pieces
  <2>2. First[n] < next
    BY <1>1, <2>1
  <2>3. Begun(n)
    BY <1>1, <2>1, <2>2 DEF Begun
  <2>4. Final[n] < next
    <3>1. next \notin Pieces(n)
      BY <1>1, <2>1
    <3> QED
      BY <1>1, <2>1, <2>2, <3>1 DEF Pieces
  <2>5. ASSUME NEW i \in 1..Len(reader), HeldAt(n, i)
        PROVE  HeldAt(n, i)'
    <3>1. Intact(reader, i, n) /\ Final[n] < next'
      <4>1. ~(next <= Final[n]) /\ Final[n] < next'
        BY <1>1, <2>1, <2>4
      <4> QED
        BY <2>5, <4>1 DEF HeldAt
    <3> QED
      BY <1>1, <3>1 DEF HeldAt
  <2> QED
    BY <2>3, <2>5 DEF IInv, NothingMissed
<1>7. PromptOnCleanLine'
  BY <1>1 DEF PromptOnCleanLine
<1> QED
  BY <1>2, <1>3, <1>4, <1>5, <1>6, <1>7 DEF IInv

(* The process ends: what it held counts as lost, what it had parsed and not *)
(* written as dropped.                                                       *)
LEMMA RestartOK ==
    ASSUME IInv, Restart
    PROVE  IInv'
<1>1. /\ lost' = lost \cup (Range(reader) \ {Pad}) /\ next' = next /\ cut' = cut
      /\ reader' = <<>> /\ Len(reader') = 0 /\ frames' = <<>> /\ Len(frames') = 0
      /\ Range(reader) = {reader[i] : i \in 1..Len(reader)}
      /\ Range(reader) \subseteq {Pad} \cup 1..(next - 1)
  BY Ranges DEF IInv, TypeOK, Restart
<1>2. Parsed' = Parsed
  <2>1. Range(<<>>) = {}
    BY DEF Range
  <2> QED
    BY <2>1 DEF Parsed, Restart
<1>3. TypeOK'
  <2>1. Range(frames) \subseteq Msg \ Bad
    BY Ranges DEF IInv, TypeOK
  <2>2. lost' \subseteq 1..(next' - 1)
    BY <1>1 DEF IInv, TypeOK
  <2>3. reader' \in Seq({Pad} \cup 1..(next' - 1)) /\ frames' \in Seq(Msg \ Bad)
    BY <1>1
  <2> QED
    BY <1>1, <2>1, <2>2, <2>3 DEF IInv, TypeOK, Restart
<1>4. ReaderOK' /\ OrderOK'
  BY <1>1 DEF IInv, ReaderOK, OrderOK, Restart
<1>5. ParsedReceived'
  <2>1. ASSUME NEW m \in Parsed, NEW p \in Pieces(m)
        PROVE  p < next /\ p \notin lost'
    <3>1. p < next /\ p \notin lost
      BY <2>1 DEF IInv, ParsedReceived, Received
    <3>2. ASSUME NEW i \in 1..Len(reader), reader[i] # Pad
          PROVE  reader[i] # p
      <4>1. reader[i] \in Nat /\ Final[m] < reader[i]
        BY <3>2, ReaderType DEF IInv, ReaderOK
      <4>2. m \in Msg
        BY ParsedType DEF IInv
      <4>3. p \in Int /\ p <= Final[m] /\ Final[m] \in Nat
        BY <4>2, MessageOrder DEF Pieces
      <4> QED
        BY <4>1, <4>3
    <3> QED
      BY <1>1, <3>1, <3>2
  <2> QED
    BY <1>1, <1>2, <2>1 DEF ParsedReceived, Received
<1>6. NothingMissed'
  <2> SUFFICES ASSUME NEW n \in Msg \ Bad, Begun(n)'
               PROVE  n \in Parsed \cup cut
    BY <1>1, <1>2 DEF NothingMissed
  <2>1. Begun(n)
    BY <1>1 DEF Begun
  <2>2. ASSUME NEW i \in 1..Len(reader), HeldAt(n, i)
        PROVE  FALSE
    <3>1. reader[i] = First[n]
      BY <2>1, <2>2, HeldIsStop DEF IInv, Begun
    <3>2. First[n] \in Pieces(n) /\ First[n] # Pad
      BY MessageOrder DEF Pieces, Pad
    <3> QED
      BY <1>1, <3>1, <3>2 DEF Begun
  <2> QED
    BY <2>1, <2>2 DEF IInv, NothingMissed
<1>7. PromptOnCleanLine'
  BY <1>1 DEF PromptOnCleanLine, Waiting
<1> QED
  BY <1>3, <1>4, <1>5, <1>6, <1>7 DEF IInv

-----------------------------------------------------------------------------
(* The theorems.                                                             *)

LEMMA NextOK == IInv /\ [Next]_vars => IInv'
<1> SUFFICES ASSUME IInv, [Next]_vars PROVE IInv'
  OBVIOUS
<1>1. ASSUME NEW k \in 1..MaxChunk, next + k - 1 <= Length, Deliver(k)
      PROVE  IInv'
  BY <1>1, DeliverOK
<1>2. ASSUME NEW k \in 1..MaxChunk, next + k - 1 <= Length, Lose(k)
      PROVE  IInv'
  BY <1>2, LoseOK
<1>3. ASSUME NEW i \in Stops, NEW m \in Msg, ReadMessage(i, m)
      PROVE  IInv'
  BY <1>3, ReadMessageOK
<1>4. CASE ReadNothing
  BY <1>4, ReadNothingOK
<1>5. CASE WriteFrame
  BY <1>5, WriteFrameOK
<1>6. CASE EndLog
  BY <1>6, EndLogOK
<1>7. CASE Restart
  BY <1>7, RestartOK
<1>8. CASE UNCHANGED vars
  <2>1. TypeOK' /\ OrderOK' /\ Parsed' = Parsed
    BY <1>8 DEF IInv, TypeOK, OrderOK, Parsed, vars
  <2> QED
    BY <1>8, <2>1, ReaderAlone DEF vars
<1> QED
  BY <1>1, <1>2, <1>3, <1>4, <1>5, <1>6, <1>7, <1>8 DEF Next

(* The invariant holds whatever the messages, the noise, the cuts and the    *)
(* losses, and whenever the process ends.                                    *)
THEOREM Inductive == Spec => []IInv
BY InitOK, NextOK, PTL DEF Spec

(* Every variable keeps its type: the reader holds only pieces that came,    *)
(* and no message that does not parse is handed to the log.                  *)
THEOREM TypeCorrect == Spec => []TypeOK
<1>1. IInv => TypeOK
  BY DEF IInv
<1> QED
  BY <1>1, Inductive, PTL

(* No message that was received whole is missed by the parser.               *)
THEOREM NothingReceivedMissed == Spec => []NoMessageMissed
<1>1. IInv => NoMessageMissed
  <2> SUFFICES ASSUME IInv, NEW m \in Msg \ Bad, Received(m)
               PROVE  m \in Parsed \cup Waiting \cup cut
    BY DEF NoMessageMissed, Parsed
  <2>1. /\ First[m] \in Nat /\ Final[m] \in Nat /\ First[m] <= Final[m]
        /\ next \in Nat /\ Final[m] < next
    BY MessageOrder, ReaderType DEF IInv, Received, Pieces
  <2>2. Begun(m)
    BY <2>1 DEF Begun, Received
  <2>3. \A i \in 1..Len(reader) : HeldAt(m, i) => Intact(reader, i, m)
    <3>1. ~(next <= Final[m])
      BY <2>1
    <3> QED
      BY <3>1 DEF HeldAt
  <2> QED
    BY <2>2, <2>3 DEF IInv, NothingMissed, Waiting
<1> QED
  BY <1>1, Inductive, PTL

(* The log holds messages that were received whole, once each, in the order  *)
(* sent.                                                                     *)
THEOREM InOrder == Spec => []LoggedInOrder
<1>1. IInv => LoggedInOrder
  <2> SUFFICES ASSUME IInv PROVE LoggedInOrder
    OBVIOUS
  <2>1. \A i \in 1..Len(log) : log[i] \in Parsed
    BY Ranges DEF IInv, TypeOK, Parsed
  <2> QED
    BY <2>1 DEF IInv, LoggedInOrder, OrderOK, ParsedReceived
<1> QED
  BY <1>1, Inductive, PTL

(* While every byte comes, every message parses and no byte outside the      *)
(* messages looks like the start of one, no message waits for a later call.  *)
THEOREM Prompt == Spec => []PromptOnCleanLine
<1>1. IInv => PromptOnCleanLine
  BY DEF IInv
<1> QED
  BY <1>1, Inductive, PTL

=============================================================================
