-------------------------- MODULE V22SessionProofs --------------------------
(***************************************************************************)
(* What a session of modem_v22bis keeps whatever the sizes of its queues,  *)
(* of a byte and of a read: the types, and the order of the bytes from the *)
(* data peer to the line.                                                  *)
(***************************************************************************)
EXTENDS V22Session, Integers, SequenceTheorems, TLAPS

\* What the data peer wrote and the line has not had yet: the queue from its cursor on,
\* then what is unread.
DueOf(q, rd, w) == SubSeq(q, rd + 1, Len(q)) \o w
Due == DueOf(tx_q, tx_rd, waiting)

\* While the peer can write, its next byte follows on the last one that is due.
NextFollows == data_open => sent = After(line, Len(Due) + 1)

\* The peer is dialled with nothing due.
DialledEmpty ==
    at = "dial" => /\ tx_q = <<>> /\ tx_rd = 0 /\ waiting = <<>>
                   /\ sent = 0 /\ line = Count - 1 /\ ~data_open

InOrder == \A i \in 1..Len(Due) : Due[i] = After(line, i)

SessionInv == TypeOK /\ InOrder /\ NextFollows /\ DialledEmpty

-----------------------------------------------------------------------------
(* Arithmetic and sequences. *)

\* The constants, as numbers.
LEMMA Sizes ==
    /\ ByteBits \in Nat /\ ByteBits > 0 /\ TxSize \in Nat /\ TxSize > 0
    /\ RxSize \in Nat /\ RxSize > 0 /\ MaxWaiting \in Nat
    /\ MaxBits \in Nat /\ MaxBytes \in Nat /\ Count \in Nat /\ Count > 0
BY SessionAssumption

\* Division with remainder.
LEMMA DivMod ==
    ASSUME NEW a \in Nat, NEW c \in Nat, c > 0
    PROVE  a = c * (a \div c) + (a % c) /\ a \div c \in Nat /\ a % c \in 0..(c - 1)
OBVIOUS

\* A difference of naturals, as the solver needs it.
LEMMA Difference ==
    ASSUME NEW a \in Nat, NEW b \in Nat, b >= a
    PROVE  b - a \in Nat /\ b = a + (b - a)
OBVIOUS

\* The remainder is unique.
LEMMA Remainder ==
    ASSUME NEW c \in Nat, c > 0, NEW q \in Int, NEW r \in 0..(c - 1),
           NEW a \in Int, a = c * q + r
    PROVE  a % c = r
OBVIOUS

\* A number below Count is its own remainder.
LEMMA OwnRemainder == \A b \in Bytes : After(b, 0) = b
<1>. SUFFICES ASSUME NEW b \in 0..(Count - 1) PROVE (b + 0) % Count = b
  BY DEF Bytes, After
<1>. DEFINE c == Count
<1>1. c \in Nat /\ c > 0 /\ b \in 0..(c - 1)
  BY Sizes
<1>. HIDE DEF c
<1>2. (b + 0) % c = b
  BY <1>1
<1>. QED BY <1>2 DEF c

\* Numbering goes on where it stopped, also past Count.
LEMMA AfterAfter ==
    ASSUME NEW b \in Nat, NEW m \in Nat, NEW n \in Nat
    PROVE  After(b, m) \in Bytes /\ After(After(b, m), n) = After(b, m + n)
<1>. DEFINE q == (b + m) \div Count
            r == (b + m) % Count
            p == (r + n) \div Count
            s == (r + n) % Count
<1>1. b + m = Count * q + r /\ q \in Nat /\ r \in 0..(Count - 1)
  BY DivMod, Sizes
<1>2. r + n = Count * p + s /\ p \in Nat /\ s \in 0..(Count - 1)
  BY <1>1, DivMod, Sizes
<1>. HIDE DEF q, r, p, s
<1>3. b + (m + n) = Count * (q + p) + s
  <2>1. Count * (q + p) = Count * q + Count * p /\ Count * q \in Nat /\ Count * p \in Nat
    BY <1>1, <1>2, Sizes
  <2>. QED BY <1>1, <1>2, <2>1
<1>4. (b + (m + n)) % Count = s
  <2>. DEFINE c == Count
              k == q + p
              x == b + (m + n)
  <2>1. c \in Nat /\ c > 0 /\ k \in Int /\ x \in Int /\ s \in 0..(c - 1) /\ x = c * k + s
    BY <1>1, <1>2, <1>3, Sizes
  <2>. HIDE DEF c, k, x
  <2>2. x % c = s
    BY <2>1, Remainder
  <2>. QED BY <2>2 DEF c, x
<1>5. After(b, m) = r /\ After(r, n) = s /\ After(b, m + n) = (b + (m + n)) % Count
  BY DEF After, r, s
<1>. QED BY <1>1, <1>4, <1>5 DEF Bytes

\* What is left of n whole bytes and part of one, when bits have been taken.
LEMMA BytesLeft ==
    ASSUME NEW n \in Nat, NEW cur \in 0..(ByteBits - 1), NEW k \in Nat
    PROVE  LET left == cur + ByteBits * n
               rest == left - Least(k, left)
           IN  /\ rest \div ByteBits \in 0..n
               /\ rest % ByteBits \in 0..(ByteBits - 1)
<1>. DEFINE left == cur + ByteBits * n
            rest == left - Least(k, left)
            d == rest \div ByteBits
<1>1. ByteBits * n \in Nat
  BY Sizes
<1>2. left \in Nat /\ rest \in Nat /\ rest <= left
  BY <1>1, Sizes DEF Least
<1>3. /\ rest = ByteBits * d + (rest % ByteBits) /\ d \in Nat
      /\ rest % ByteBits \in 0..(ByteBits - 1)
  <2>. HIDE DEF rest
  <2>. QED BY <1>2, DivMod, Sizes
<1>4. ByteBits * d < ByteBits * (n + 1)
  <2>. HIDE DEF d, rest
  <2>. QED BY <1>1, <1>2, <1>3, Sizes
<1>5. d < n + 1
  <2>. HIDE DEF d, rest
  <2>. QED BY <1>3, <1>4, Sizes
<1>6. d \in 0..n /\ rest % ByteBits \in 0..(ByteBits - 1)
  <2>. HIDE DEF d, rest
  <2>. QED BY <1>3, <1>5
<1>. QED BY <1>6

\* The unsent part of the queue, byte by byte.
LEMMA UnsentFacts ==
    ASSUME NEW q \in Seq(Bytes), NEW rd \in 0..Len(q)
    PROVE  /\ SubSeq(q, rd + 1, Len(q)) \in Seq(Bytes)
           /\ Len(SubSeq(q, rd + 1, Len(q))) = Len(q) - rd
           /\ \A i \in 1..(Len(q) - rd) : SubSeq(q, rd + 1, Len(q))[i] = q[rd + i]
<1>. DEFINE u == SubSeq(q, rd + 1, Len(q))
<1>1. Len(q) \in Nat /\ rd + 1 \in Int /\ \A i \in (rd + 1)..Len(q) : q[i] \in Bytes
  OBVIOUS
<1>2. /\ u \in Seq(Bytes)
      /\ Len(u) = IF rd + 1 <= Len(q) THEN Len(q) - (rd + 1) + 1 ELSE 0
      /\ \A i \in 1..(Len(q) - (rd + 1) + 1) : u[i] = q[(rd + 1) + i - 1]
  BY <1>1, SubSeqProperties
<1>. HIDE DEF u
<1>3. Len(u) = Len(q) - rd
  BY <1>1, <1>2
<1>4. ASSUME NEW i \in 1..(Len(q) - rd) PROVE u[i] = q[rd + i]
  <2>1. i \in 1..(Len(q) - (rd + 1) + 1) /\ (rd + 1) + i - 1 = rd + i
    BY <1>1
  <2>. QED BY <1>2, <2>1
<1>5. u \in Seq(Bytes) /\ Len(u) = Len(q) - rd /\ \A i \in 1..(Len(q) - rd) : u[i] = q[rd + i]
  BY <1>2, <1>3, <1>4
<1>. QED BY <1>5 DEF u

\* What is due, byte by byte.
LEMMA DueFacts ==
    ASSUME NEW q \in Seq(Bytes), NEW rd \in 0..Len(q), NEW w \in Seq(Bytes)
    PROVE  /\ Len(q) \in Nat /\ Len(w) \in Nat /\ Len(q) - rd \in Nat
           /\ DueOf(q, rd, w) \in Seq(Bytes)
           /\ Len(DueOf(q, rd, w)) = (Len(q) - rd) + Len(w)
           /\ \A i \in 1..((Len(q) - rd) + Len(w)) :
                 DueOf(q, rd, w)[i] = IF i <= Len(q) - rd THEN q[rd + i]
                                      ELSE w[i - (Len(q) - rd)]
<1>. DEFINE u == SubSeq(q, rd + 1, Len(q))
<1>1. /\ u \in Seq(Bytes) /\ Len(u) = Len(q) - rd
      /\ \A i \in 1..(Len(q) - rd) : u[i] = q[rd + i]
  BY UnsentFacts
<1>2. Len(q) \in Nat /\ Len(w) \in Nat /\ Len(q) - rd \in Nat
  OBVIOUS
<1>. HIDE DEF u
<1>3. /\ u \o w \in Seq(Bytes) /\ Len(u \o w) = Len(u) + Len(w)
      /\ \A i \in 1..(Len(u) + Len(w)) :
            (u \o w)[i] = IF i <= Len(u) THEN u[i] ELSE w[i - Len(u)]
  BY <1>1, ConcatProperties, Zenon
<1>4. DueOf(q, rd, w) = u \o w
  BY DEF DueOf, u
<1>5. ASSUME NEW i \in 1..((Len(q) - rd) + Len(w))
      PROVE  (u \o w)[i] = IF i <= Len(q) - rd THEN q[rd + i] ELSE w[i - (Len(q) - rd)]
  <2>. DEFINE c == u \o w
  <2>1. c[i] = IF i <= Len(u) THEN u[i] ELSE w[i - Len(u)]
    BY <1>1, <1>3
  <2>. HIDE DEF c
  <2>2. c[i] = IF i <= Len(q) - rd THEN q[rd + i] ELSE w[i - (Len(q) - rd)]
    BY <1>1, <1>2, <2>1
  <2>. QED BY <2>2 DEF c
<1>. QED BY <1>1, <1>2, <1>3, <1>4, <1>5

\* The same of the state, before and after a step.
LEMMA DueNow ==
    ASSUME TypeOK
    PROVE  /\ Len(tx_q) \in Nat /\ Len(waiting) \in Nat /\ Len(tx_q) - tx_rd \in Nat
           /\ Len(Due) = (Len(tx_q) - tx_rd) + Len(waiting)
           /\ \A i \in 1..((Len(tx_q) - tx_rd) + Len(waiting)) :
                 Due[i] = IF i <= Len(tx_q) - tx_rd THEN tx_q[tx_rd + i]
                          ELSE waiting[i - (Len(tx_q) - tx_rd)]
<1>1. tx_q \in Seq(Bytes) /\ tx_rd \in 0..Len(tx_q) /\ waiting \in Seq(Bytes)
  BY DEF TypeOK
<1>. QED BY <1>1, DueFacts DEF Due

\* What is due after a step, byte by byte.
LEMMA DueNext ==
    ASSUME TypeOK'
    PROVE  /\ Len(tx_q') \in Nat /\ Len(waiting') \in Nat /\ Len(tx_q') - tx_rd' \in Nat
           /\ Len(Due') = (Len(tx_q') - tx_rd') + Len(waiting')
           /\ \A i \in 1..((Len(tx_q') - tx_rd') + Len(waiting')) :
                 Due'[i] = IF i <= Len(tx_q') - tx_rd' THEN tx_q'[tx_rd' + i]
                           ELSE waiting'[i - (Len(tx_q') - tx_rd')]
<1>1. tx_q' \in Seq(Bytes) /\ tx_rd' \in 0..Len(tx_q') /\ waiting' \in Seq(Bytes)
  BY DEF TypeOK
<1>2. Due' = DueOf(tx_q', tx_rd', waiting')
  BY DEF Due
<1>. QED BY <1>1, <1>2, DueFacts

-----------------------------------------------------------------------------
(* The steps. *)

\* Types in two parts, for the flags are a matter of logic and the rest is of arithmetic.
Flags ==
    /\ audio_open \in BOOLEAN /\ data_open \in BOOLEAN /\ hdr_done \in BOOLEAN
    /\ pcm \in BOOLEAN /\ hung_up \in BOOLEAN /\ peer_closed \in BOOLEAN
Data ==
    /\ at \in {"dial", "select", "audio", "dataIn", "dataOut", "over"}
    /\ ready \subseteq {"audio", "data", "room"}
    /\ tx_q \in Seq(Bytes) /\ Len(tx_q) <= TxSize
    /\ tx_rd \in 0..Len(tx_q) /\ tx_cur_bits \in 0..(ByteBits - 1)
    /\ rx_q_len \in 0..RxSize
    /\ waiting \in Seq(Bytes) /\ Len(waiting) <= MaxWaiting
    /\ {sent, line} \subseteq Bytes

\* TypeOK in two parts: Zenon keeps the Boolean variables, SMT the others.
LEMMA TypeParts == TypeOK <=> Flags /\ Data
BY DEF TypeOK, Flags, Data
LEMMA TypePartsNext == TypeOK' <=> Flags' /\ Data'
BY DEF TypeOK, Flags, Data

\* A step that leaves the queue to the line alone, and forgets what is unread or not.
LEMMA DataKept ==
    ASSUME TypeOK, UNCHANGED <<tx_q, tx_rd, tx_cur_bits, sent, line>>,
           waiting' = waiting \/ waiting' = <<>>, rx_q_len' \in 0..RxSize,
           at' \in {"dial", "select", "audio", "dataIn", "dataOut", "over"},
           ready' \subseteq {"audio", "data", "room"}
    PROVE  Data'
<1>1. <<>> \in Seq(Bytes) /\ Len(<<>>) = 0
  OBVIOUS
<1>2. waiting \in Seq(Bytes) /\ Len(waiting) <= MaxWaiting
  BY DEF TypeOK
<1>3. waiting' \in Seq(Bytes) /\ Len(waiting') <= MaxWaiting
  <2>1. CASE waiting' = waiting
    BY <1>2, <2>1
  <2>2. CASE waiting' = <<>>
    BY <1>1, <2>2, Sizes
  <2>. QED BY <2>1, <2>2
<1>4. /\ tx_q' \in Seq(Bytes) /\ Len(tx_q') <= TxSize
      /\ tx_rd' \in 0..Len(tx_q') /\ tx_cur_bits' \in 0..(ByteBits - 1)
      /\ sent' \in Bytes /\ line' \in Bytes
  BY DEF TypeOK
<1>. QED BY <1>3, <1>4 DEF Data

\* A new session has nothing due.
LEMMA InitInv == Init => SessionInv
<1>. SUFFICES ASSUME Init PROVE SessionInv
  OBVIOUS
<1>1. <<>> \in Seq(Bytes) /\ Len(<<>>) = 0
  OBVIOUS
<1>2. TypeOK
  <2>1. Flags
    BY SessionAssumption, Zenon DEF Init, Flags
  <2>2. Data
    BY <1>1, Sizes DEF Init, Data, Bytes
  <2>. QED BY <2>1, <2>2, TypeParts
<1>3. Len(Due) = 0
  BY <1>1, <1>2, DueNow DEF Init
<1>4. InOrder /\ NextFollows /\ DialledEmpty
  BY <1>3 DEF Init, InOrder, NextFollows, DialledEmpty
<1>. QED BY <1>2, <1>4 DEF SessionInv

\* A step that puts nothing on the line, writes and queues nothing, and at most forgets
\* what is unread together with the peer that wrote it.
LEMMA OrderKept ==
    ASSUME SessionInv, TypeOK', UNCHANGED <<tx_q, tx_rd, line, sent>>,
           \/ waiting' = waiting /\ (data_open' => data_open)
           \/ waiting' = <<>> /\ ~data_open',
           at' = "dial" => at = "dial"
    PROVE  SessionInv'
<1>1. TypeOK /\ InOrder /\ NextFollows /\ DialledEmpty
  BY DEF SessionInv
<1>2. CASE waiting' = waiting /\ (data_open' => data_open)
  <2>1. Due' = Due
    BY <1>2 DEF Due
  <2>. QED BY <1>1, <1>2, <2>1 DEF SessionInv, InOrder, NextFollows, DialledEmpty
<1>3. CASE waiting' = <<>> /\ ~data_open'
  <2>1. Len(waiting') = 0
    BY <1>3
  <2>2. Len(Due') = Len(tx_q) - tx_rd /\ Len(Due') <= Len(Due) /\ Len(Due') \in Nat
        /\ Len(Due) \in Nat
    BY <1>1, <2>1, DueNow, DueNext
  <2>3. ASSUME NEW i \in 1..Len(Due') PROVE Due'[i] = After(line', i)
    <3>1. Due'[i] = tx_q[tx_rd + i]
      BY <1>1, <2>1, <2>2, DueNext
    <3>2. i \in 1..Len(Due) /\ Due[i] = tx_q[tx_rd + i]
      BY <1>1, <2>2, DueNow
    <3>. QED BY <1>1, <3>1, <3>2 DEF InOrder
  <2>4. DialledEmpty'
    BY <1>1, <1>3 DEF DialledEmpty
  <2>. QED BY <1>3, <2>3, <2>4 DEF SessionInv, InOrder, NextFollows
<1>. QED BY <1>2, <1>3

\* The data peer is dialled (modem_v22bis.c:371): numbering starts at 0.
LEMMA DialKeeps == SessionInv /\ Dial => SessionInv'
<1>. SUFFICES ASSUME SessionInv, Dial PROVE SessionInv'
  OBVIOUS
<1>1. TypeOK /\ DialledEmpty /\ at = "dial"
  BY DEF SessionInv, Dial
<1>2. TypeOK'
  <2>1. <<>> \in Seq(Bytes) /\ Len(<<>>) = 0
    OBVIOUS
  <2>2. Flags'
    BY <1>1, TypeParts, Zenon DEF Dial, Over, caller, Flags
  <2>3. /\ UNCHANGED <<tx_q, tx_rd, tx_cur_bits, sent, line>> /\ rx_q_len' = rx_q_len
        /\ waiting' = waiting \/ waiting' = <<>>
        /\ at' \in {"select", "over"} /\ (ready' = ready \/ ready' = {})
    BY DEF Dial, Over, txQueue
  <2>4. Data'
    BY <1>1, <2>3, DataKept DEF TypeOK
  <2>. QED BY <2>2, <2>4, TypePartsNext
<1>3. CASE Over
  BY <1>2, <1>3, OrderKept DEF Dial, Over, txQueue
<1>4. CASE at' = "select" /\ UNCHANGED waiting
  <2>1. /\ tx_q' = <<>> /\ tx_rd' = 0 /\ waiting' = <<>> /\ sent' = 0
        /\ line' = Count - 1
    BY <1>1, <1>4 DEF Dial, DialledEmpty, txQueue
  <2>2. Len(Due') = 0
    BY <1>2, <2>1, DueNext
  <2>3. After(Count - 1, 1) = 0
    <3>1. (Count - 1) + 1 = Count * 1 + 0 /\ 1 \in Int /\ 0 \in 0..(Count - 1)
          /\ (Count - 1) + 1 \in Int
      BY Sizes
    <3>2. ((Count - 1) + 1) % Count = 0
      BY <3>1, Sizes, Remainder, ZenonT(30)
    <3>. QED BY <3>2 DEF After
  <2>. QED BY <1>2, <1>4, <2>1, <2>2, <2>3 DEF SessionInv, InOrder, NextFollows, DialledEmpty
<1>. QED BY <1>3, <1>4 DEF Dial

\* Select moves no byte.
LEMMA SelectKeeps == SessionInv /\ Select => SessionInv'
<1>. SUFFICES ASSUME SessionInv, Select PROVE SessionInv'
  OBVIOUS
<1>1. TypeOK
  BY DEF SessionInv
<1>2. TypeOK'
  <2>1. <<>> \in Seq(Bytes) /\ Len(<<>>) = 0
    OBVIOUS
  <2>2. Readable \subseteq {"audio", "data"}
    BY DEF Readable
  <2>3. Flags'
    BY <1>1, TypeParts, Zenon DEF Select, Over, caller, sockets, Flags
  <2>4. /\ UNCHANGED <<tx_q, tx_rd, tx_cur_bits, sent, line>> /\ rx_q_len' = rx_q_len
        /\ waiting' = waiting \/ waiting' = <<>>
        /\ at' \in {"audio", "over"} /\ ready' \subseteq {"audio", "data", "room"}
    BY <2>2 DEF Select, Over, txQueue
  <2>5. Data'
    BY <1>1, <2>4, DataKept DEF TypeOK
  <2>. QED BY <2>3, <2>5, TypePartsNext
<1>3. /\ UNCHANGED <<tx_q, tx_rd, line, sent>> /\ at' # "dial"
      /\ \/ waiting' = waiting /\ (data_open' => data_open)
         \/ waiting' = <<>> /\ ~data_open'
  BY DEF Select, Over, txQueue, sockets
<1>. QED BY <1>2, <1>3, OrderKept

\* Writing to the data peer touches the other queue only.
LEMMA DataOutKeeps == SessionInv /\ DataOut => SessionInv'
<1>. SUFFICES ASSUME SessionInv, DataOut PROVE SessionInv'
  OBVIOUS
<1>1. TypeOK
  BY DEF SessionInv
<1>2. TypeOK'
  <2>1. <<>> \in Seq(Bytes) /\ Len(<<>>) = 0
    OBVIOUS
  <2>2. rx_q_len' \in 0..RxSize
    BY <1>1, Sizes DEF DataOut, TypeOK
  <2>3. Flags'
    BY <1>1, TypeParts, Zenon DEF DataOut, Forget, caller, Flags
  <2>4. /\ UNCHANGED <<tx_q, tx_rd, tx_cur_bits, sent, line>>
        /\ waiting' = waiting \/ waiting' = <<>>
        /\ at' = "select" /\ ready' = {}
    BY DEF DataOut, Forget, txQueue
  <2>5. Data'
    BY <1>1, <2>2, <2>4, DataKept
  <2>. QED BY <2>3, <2>5, TypePartsNext
<1>3. /\ UNCHANGED <<tx_q, tx_rd, line, sent>> /\ at' # "dial"
      /\ \/ waiting' = waiting /\ (data_open' => data_open)
         \/ waiting' = <<>> /\ ~data_open'
  BY DEF DataOut, Forget, txQueue
<1>. QED BY <1>2, <1>3, OrderKept

\* The line takes bits: the cursor moves on, and what is due begins behind the last byte
\* the line took (modem_v22bis.c:145-167).
LEMMA GetBitsKeeps ==
    ASSUME TypeOK, TypeOK', InOrder, NextFollows, NEW k \in Nat, GetBits(k),
           UNCHANGED <<waiting, sent>>, data_open' => data_open
    PROVE  InOrder' /\ NextFollows'
<1>. DEFINE j == tx_rd' - tx_rd
<1>1. tx_q' = tx_q /\ waiting' = waiting /\ sent' = sent
  BY DEF GetBits
<1>2. tx_rd' > tx_rd => line' = tx_q[tx_rd']
  BY DEF GetBits
<1>3. ~(tx_rd' > tx_rd) => line' = line
  BY DEF GetBits
<1>4. tx_q \in Seq(Bytes) /\ Len(tx_q) \in Nat /\ tx_rd \in 0..Len(tx_q)
  BY DEF TypeOK
<1>5. tx_rd' \in 0..Len(tx_q)
  BY <1>1 DEF TypeOK
<1>6. line \in 0..(Count - 1) /\ line' \in Nat
  BY Sizes DEF TypeOK, Bytes
<1>7. tx_rd \in Nat /\ tx_rd' \in Nat /\ tx_rd <= Len(tx_q) /\ tx_rd' <= Len(tx_q)
  BY <1>4, <1>5
<1>8. tx_rd' >= tx_rd
  <2>. DEFINE n == Len(Unsent)
              left == tx_cur_bits + ByteBits * n
              rest == left - Least(k, left)
  <2>1. n = Len(tx_q) - tx_rd /\ n \in Nat
    BY <1>4, UnsentFacts DEF Unsent
  <2>2. tx_cur_bits \in 0..(ByteBits - 1)
    BY DEF TypeOK
  <2>. HIDE DEF n
  <2>3. rest \div ByteBits \in 0..n
    BY <2>1, <2>2, BytesLeft
  <2>4. tx_rd' = Len(tx_q) - rest \div ByteBits
    BY DEF GetBits, n
  <2>. HIDE DEF rest
  <2>. QED BY <1>7, <1>4, <2>1, <2>3, <2>4
<1>9. j \in Nat /\ tx_rd' = tx_rd + j
  BY <1>7, <1>8, Difference
<1>. HIDE DEF j
<1>10. /\ Len(Due) = (Len(tx_q) - tx_rd) + Len(waiting) /\ Len(waiting) \in Nat
       /\ Len(Due') = (Len(tx_q) - tx_rd') + Len(waiting)
  <2>1. Len(Due) = (Len(tx_q) - tx_rd) + Len(waiting) /\ Len(waiting) \in Nat
    BY DueNow, Zenon
  <2>2. Len(Due') = (Len(tx_q') - tx_rd') + Len(waiting')
    BY DueNext, Zenon
  <2>. QED BY <1>1, <2>1, <2>2, Zenon
<1>11. Len(Due) \in Nat /\ Len(Due') \in Nat /\ Len(Due') = Len(Due) - j
  BY <1>4, <1>7, <1>9, <1>10
<1>12. ASSUME NEW i \in 1..Len(Due') PROVE Due'[i] = Due[j + i]
  <2>1. /\ i \in 1..((Len(tx_q) - tx_rd') + Len(waiting))
        /\ j + i \in 1..((Len(tx_q) - tx_rd) + Len(waiting))
        /\ i <= Len(tx_q) - tx_rd' <=> j + i <= Len(tx_q) - tx_rd
        /\ tx_rd + (j + i) = tx_rd' + i
        /\ (j + i) - (Len(tx_q) - tx_rd) = i - (Len(tx_q) - tx_rd')
    BY <1>4, <1>7, <1>9, <1>10
  <2>2. Due'[i] = IF i <= Len(tx_q) - tx_rd' THEN tx_q[tx_rd' + i]
                  ELSE waiting[i - (Len(tx_q) - tx_rd')]
    <3>1. Len(tx_q') = Len(tx_q) /\ Len(waiting') = Len(waiting)
      BY <1>1
    <3>. QED BY <1>1, <2>1, <3>1, DueNext, Zenon
  <2>3. Due[j + i] = IF j + i <= Len(tx_q) - tx_rd THEN tx_q[tx_rd + (j + i)]
                     ELSE waiting[(j + i) - (Len(tx_q) - tx_rd)]
    BY <2>1, DueNow, Zenon
  <2>4. CASE i <= Len(tx_q) - tx_rd'
    BY <2>1, <2>2, <2>3, <2>4, Zenon
  <2>5. CASE ~(i <= Len(tx_q) - tx_rd')
    BY <2>1, <2>2, <2>3, <2>5, Zenon
  <2>. QED BY <2>4, <2>5
<1>13. line' = After(line, j)
  <2>1. CASE j = 0
    <3>1. line' = line
      BY <1>3, <1>7, <1>9, <2>1
    <3>2. line \in Bytes
      BY DEF TypeOK
    <3>. QED BY <2>1, <3>1, <3>2, OwnRemainder, Zenon
  <2>2. CASE j > 0
    <3>1. tx_rd' > tx_rd
      BY <1>7, <1>9, <2>2
    <3>2. line' = tx_q[tx_rd + j]
      BY <1>2, <1>9, <3>1
    <3>3. /\ j \in 1..Len(Due) /\ j <= Len(tx_q) - tx_rd
          /\ j \in 1..((Len(tx_q) - tx_rd) + Len(waiting))
      BY <1>4, <1>7, <1>9, <1>10, <2>2
    <3>4. Due[j] = tx_q[tx_rd + j]
      BY <3>3, DueNow, Zenon
    <3>. QED BY <3>2, <3>3, <3>4 DEF InOrder
  <2>. QED BY <1>9, <2>1, <2>2
<1>14. ASSUME NEW i \in Nat PROVE After(line', i) = After(line, j + i)
  <2>1. line \in Nat
    BY <1>6, Sizes
  <2>. QED BY <1>9, <1>13, <2>1, AfterAfter
<1>15. InOrder'
  <2>. SUFFICES ASSUME NEW i \in 1..Len(Due') PROVE Due'[i] = After(line', i)
    BY DEF InOrder
  <2>1. j + i \in 1..Len(Due) /\ i \in Nat
    BY <1>9, <1>11
  <2>. QED BY <1>12, <1>14, <2>1 DEF InOrder
<1>16. NextFollows'
  <2>. SUFFICES ASSUME data_open' PROVE sent' = After(line', Len(Due') + 1)
    BY DEF NextFollows
  <2>1. Len(Due') + 1 \in Nat /\ j + (Len(Due') + 1) = Len(Due) + 1
    BY <1>9, <1>11
  <2>2. After(line', Len(Due') + 1) = After(line, j + (Len(Due') + 1))
    BY <1>14, <2>1
  <2>. QED BY <1>1, <2>1, <2>2 DEF NextFollows
<1>. QED BY <1>15, <1>16

\* The modem takes bits from the front of what is due.
LEMMA AudioInKeeps == SessionInv /\ AudioIn => SessionInv'
<1>. SUFFICES ASSUME SessionInv, AudioIn PROVE SessionInv'
  OBVIOUS
<1>1. TypeOK /\ InOrder /\ NextFollows /\ at' # "dial"
  BY DEF SessionInv, AudioIn, Block, Over
<1>2. ASSUME NEW m \in 0..MaxBytes, NEW k \in 0..MaxBits, Block(m, k) PROVE SessionInv'
  <2>1. k \in Nat /\ m \in Nat
    BY Sizes
  <2>2. rx_q_len' \in 0..RxSize
    BY <1>1, <1>2, <2>1, Sizes DEF Block, PutBytes, Least, TypeOK
  <2>3. tx_q' = tx_q /\ tx_rd' \in 0..Len(tx_q) /\ tx_cur_bits' \in 0..(ByteBits - 1)
        /\ line' \in Bytes
    <3>. DEFINE n == Len(Unsent)
                left == tx_cur_bits + ByteBits * n
                rest == left - Least(k, left)
    <3>1. tx_q \in Seq(Bytes) /\ Len(tx_q) \in Nat /\ tx_rd \in 0..Len(tx_q) /\ line \in Bytes
          /\ tx_cur_bits \in 0..(ByteBits - 1)
      BY <1>1 DEF TypeOK
    <3>2. n = Len(tx_q) - tx_rd /\ n \in Nat
      BY <3>1, UnsentFacts DEF Unsent
    <3>. HIDE DEF n
    <3>3. rest \div ByteBits \in 0..n /\ rest % ByteBits \in 0..(ByteBits - 1)
      BY <2>1, <3>1, <3>2, BytesLeft
    <3>4. /\ tx_q' = tx_q /\ tx_rd' = Len(tx_q) - rest \div ByteBits
          /\ tx_cur_bits' = rest % ByteBits
          /\ line' = IF tx_rd' > tx_rd THEN tx_q[tx_rd'] ELSE line
      BY <1>2 DEF Block, GetBits, n
    <3>. HIDE DEF rest
    <3>5. tx_rd' \in 0..Len(tx_q)
      BY <3>1, <3>2, <3>3, <3>4
    <3>. QED BY <3>1, <3>3, <3>4, <3>5
  <2>4. TypeOK'
    <3>1. Flags'
      BY <1>1, <1>2, TypeParts, Zenon DEF AudioIn, Block, Flags
    <3>2. Data'
      BY <1>1, <1>2, <2>2, <2>3, TypeParts DEF AudioIn, Block, Data
    <3>. QED BY <3>1, <3>2, TypePartsNext
  <2>5. GetBits(k) /\ UNCHANGED <<waiting, sent>> /\ (data_open' => data_open)
    BY <1>2 DEF AudioIn, Block
  <2>6. InOrder' /\ NextFollows'
    BY <1>1, <2>1, <2>4, <2>5, GetBitsKeeps
  <2>. QED BY <1>1, <2>4, <2>6 DEF SessionInv, DialledEmpty
<1>3. ASSUME UNCHANGED <<pcm, hdr_done, txQueue, rx_q_len>>,
             Over \/ (at' = "dataIn" /\ UNCHANGED <<ready, sockets, waiting>>)
      PROVE  SessionInv'
  <2>1. <<>> \in Seq(Bytes) /\ Len(<<>>) = 0
    OBVIOUS
  <2>2. TypeOK'
    <3>1. Flags'
      BY <1>1, <1>3, TypeParts, Zenon DEF AudioIn, Over, sockets, Flags
    <3>2. /\ UNCHANGED <<tx_q, tx_rd, tx_cur_bits, sent, line>> /\ rx_q_len' = rx_q_len
          /\ waiting' = waiting \/ waiting' = <<>>
          /\ at' \in {"dataIn", "over"} /\ (ready' = ready \/ ready' = {})
      BY <1>3 DEF AudioIn, Over, txQueue
    <3>3. Data'
      BY <1>1, <3>2, DataKept DEF TypeOK
    <3>. QED BY <3>1, <3>3, TypePartsNext
  <2>3. /\ UNCHANGED <<tx_q, tx_rd, line, sent>>
        /\ \/ waiting' = waiting /\ (data_open' => data_open)
           \/ waiting' = <<>> /\ ~data_open'
    BY <1>3 DEF AudioIn, Over, txQueue, sockets
  <2>. QED BY <1>1, <2>2, <2>3, OrderKept
<1>. QED BY <1>2, <1>3 DEF AudioIn

\* A read moves bytes from what is unread to the queue, behind what is unsent: what is due
\* stays the same, byte by byte (modem_v22bis.c:280-304).
LEMMA ReadKeepsDue ==
    ASSUME NEW u \in Seq(Bytes), NEW w \in Seq(Bytes), NEW n \in Nat, n <= Len(w)
    PROVE  /\ u \o SubSeq(w, 1, n) \in Seq(Bytes)
           /\ Len(u \o SubSeq(w, 1, n)) = Len(u) + n
           /\ SubSeq(w, n + 1, Len(w)) \in Seq(Bytes)
           /\ Len(SubSeq(w, n + 1, Len(w))) = Len(w) - n
           /\ \A i \in 1..(Len(u) + n) :
                 (u \o SubSeq(w, 1, n))[i] = IF i <= Len(u) THEN u[i] ELSE w[i - Len(u)]
           /\ \A i \in 1..(Len(w) - n) : SubSeq(w, n + 1, Len(w))[i] = w[n + i]
<1>. DEFINE v == SubSeq(w, 1, n)
<1>1. n \in 0..Len(w) /\ Len(w) \in Nat /\ Len(u) \in Nat
  OBVIOUS
<1>2. /\ SubSeq(w, n + 1, Len(w)) \in Seq(Bytes)
      /\ Len(SubSeq(w, n + 1, Len(w))) = Len(w) - n
      /\ \A i \in 1..(Len(w) - n) : SubSeq(w, n + 1, Len(w))[i] = w[n + i]
  BY <1>1, UnsentFacts
<1>3. v \in Seq(Bytes) /\ Len(v) = n /\ \A i \in 1..n : v[i] = w[i]
  <2>1. 1 \in Int /\ n \in Int /\ \A i \in 1..n : w[i] \in Bytes
    BY <1>1
  <2>2. /\ v \in Seq(Bytes) /\ Len(v) = IF 1 <= n THEN n - 1 + 1 ELSE 0
        /\ \A i \in 1..(n - 1 + 1) : v[i] = w[1 + i - 1]
    BY <2>1, SubSeqProperties
  <2>. HIDE DEF v
  <2>3. ASSUME NEW i \in 1..n PROVE v[i] = w[i]
    <3>1. i \in 1..(n - 1 + 1) /\ 1 + i - 1 = i
      BY <1>1
    <3>. QED BY <2>2, <3>1
  <2>. QED BY <1>1, <2>2, <2>3
<1>. HIDE DEF v
<1>4. /\ u \o v \in Seq(Bytes) /\ Len(u \o v) = Len(u) + Len(v)
      /\ \A i \in 1..(Len(u) + Len(v)) :
            (u \o v)[i] = IF i <= Len(u) THEN u[i] ELSE v[i - Len(u)]
  BY <1>3, ConcatProperties, Zenon
<1>5. ASSUME NEW i \in 1..(Len(u) + n)
      PROVE  (u \o v)[i] = IF i <= Len(u) THEN u[i] ELSE w[i - Len(u)]
  <2>. DEFINE c == u \o v
  <2>1. c[i] = IF i <= Len(u) THEN u[i] ELSE v[i - Len(u)]
    BY <1>3, <1>4
  <2>2. i > Len(u) => i - Len(u) \in 1..n
    BY <1>1
  <2>. HIDE DEF c
  <2>3. c[i] = IF i <= Len(u) THEN u[i] ELSE w[i - Len(u)]
    BY <1>1, <1>3, <2>1, <2>2
  <2>. QED BY <2>3 DEF c
<1>. QED BY <1>2, <1>3, <1>4, <1>5 DEF v

\* Compaction and read move bytes within what is due, and may forget all of the unread.
LEMMA DataInKeeps == SessionInv /\ DataIn => SessionInv'
<1>. SUFFICES ASSUME SessionInv, DataIn PROVE SessionInv'
  OBVIOUS
<1>1. /\ TypeOK /\ InOrder /\ NextFollows /\ at' = "dataOut" /\ line' = line /\ sent' = sent
      /\ UNCHANGED <<ready, audio_open, hdr_done, tx_cur_bits, rx_q_len, pcm, hung_up, peer_closed>>
  BY DEF SessionInv, DataIn, caller
<1>2. /\ tx_q \in Seq(Bytes) /\ Len(tx_q) \in Nat /\ Len(tx_q) <= TxSize
      /\ tx_rd \in 0..Len(tx_q) /\ waiting \in Seq(Bytes) /\ Len(waiting) \in Nat
      /\ Len(waiting) <= MaxWaiting
  BY <1>1 DEF TypeOK
<1>3. /\ Unsent \in Seq(Bytes) /\ Len(Unsent) = Len(tx_q) - tx_rd
      /\ \A i \in 1..(Len(tx_q) - tx_rd) : Unsent[i] = tx_q[tx_rd + i]
      /\ Len(Unsent) \in Nat /\ Len(Unsent) <= TxSize
  BY <1>2, UnsentFacts, Sizes, SMTT(30) DEF Unsent
\* The queue is compacted and filled, or only compacted, or left alone.
<1>4. ASSUME NEW n \in 1..Least(Len(waiting), TxSize - Len(Unsent)), tx_rd' = 0,
             tx_q' = Unsent \o SubSeq(waiting, 1, n),
             waiting' = SubSeq(waiting, n + 1, Len(waiting)), data_open' = data_open
      PROVE  SessionInv'
  <2>1. n \in Nat /\ n <= Len(waiting) /\ Len(Unsent) + n <= TxSize
    BY <1>2, <1>3, Sizes DEF Least
  <2>2. /\ tx_q' \in Seq(Bytes) /\ Len(tx_q') = Len(Unsent) + n
        /\ waiting' \in Seq(Bytes) /\ Len(waiting') = Len(waiting) - n
        /\ \A i \in 1..(Len(Unsent) + n) :
              tx_q'[i] = IF i <= Len(Unsent) THEN Unsent[i] ELSE waiting[i - Len(Unsent)]
        /\ \A i \in 1..(Len(waiting) - n) : waiting'[i] = waiting[n + i]
    <3>1. Unsent \in Seq(Bytes) /\ waiting \in Seq(Bytes)
      BY <1>2, <1>3
    <3>. DEFINE u == Unsent
                v == SubSeq(waiting, 1, n)
                w == SubSeq(waiting, n + 1, Len(waiting))
    <3>2. /\ u \o v \in Seq(Bytes) /\ Len(u \o v) = Len(u) + n
          /\ w \in Seq(Bytes) /\ Len(w) = Len(waiting) - n
          /\ \A i \in 1..(Len(u) + n) :
                (u \o v)[i] = IF i <= Len(u) THEN u[i] ELSE waiting[i - Len(u)]
          /\ \A i \in 1..(Len(waiting) - n) : w[i] = waiting[n + i]
      BY <2>1, <3>1, ReadKeepsDue
    <3>3. tx_q' = u \o v /\ waiting' = w
      BY <1>4
    <3>. HIDE DEF v, w
    <3>. QED BY <3>2, <3>3, Zenon
  <2>3. TypeOK'
    <3>1. Flags'
      BY <1>1, <1>4, TypeParts, Zenon DEF Flags
    <3>2. tx_rd' \in 0..Len(tx_q') /\ Len(tx_q') <= TxSize /\ Len(waiting') <= MaxWaiting
      <4>. DEFINE a == Len(Unsent)
                  b == Len(waiting)
      <4>1. a \in Nat /\ b \in Nat /\ n \in Nat /\ n <= b /\ a + n <= TxSize /\ b <= MaxWaiting
        BY <1>2, <1>3, <2>1
      <4>2. Len(tx_q') = a + n /\ Len(waiting') = b - n
        BY <2>2
      <4>. HIDE DEF a, b
      <4>. QED BY <1>4, <4>1, <4>2, Sizes
    <3>3. Data'
      BY <1>1, <2>2, <3>2, TypeParts DEF Data
    <3>. QED BY <3>1, <3>3, TypePartsNext
  <2>. DEFINE a == Len(Unsent)
              b == Len(waiting)
  <2>4. a \in Nat /\ b \in Nat /\ n \in Nat /\ n <= b
    BY <1>2, <1>3, <2>1
  <2>5. Len(tx_q) - tx_rd = a /\ Len(tx_q') - tx_rd' = a + n /\ Len(waiting') = b - n
    <3>1. Len(tx_q') = a + n /\ tx_rd' = 0
      BY <1>4, <2>2
    <3>2. (a + n) - 0 = a + n
      BY <2>4
    <3>3. Len(tx_q') - tx_rd' = a + n
      BY <3>1, <3>2
    <3>. QED BY <1>3, <2>2, <3>3, Zenon
  <2>6. Len(Due) = a + b /\ Len(Due') = (a + n) + (b - n)
    <3>1. Len(Due) = (Len(tx_q) - tx_rd) + b
      BY <1>1, DueNow, Zenon
    <3>2. Len(Due') = (Len(tx_q') - tx_rd') + Len(waiting')
      BY <2>3, DueNext, Zenon
    <3>. QED BY <2>5, <3>1, <3>2, Zenon
  <2>7. Len(Due') = Len(Due)
    <3>1. (a + n) + (b - n) = a + b
      BY <2>4
    <3>. QED BY <2>6, <3>1, Zenon
  <2>8. ASSUME NEW i \in 1..(a + b) PROVE Due'[i] = Due[i]
    <3>1. i \in 1..((a + n) + (b - n)) /\ i \in Nat /\ 0 + i = i
      BY <2>4
    <3>2. Due'[i] = IF i <= a + n THEN tx_q'[i] ELSE waiting'[i - (a + n)]
      BY <1>4, <2>3, <2>5, <3>1, DueNext, Zenon
    <3>3. Due[i] = IF i <= a THEN tx_q[tx_rd + i] ELSE waiting[i - a]
      BY <1>1, <2>5, DueNow, Zenon
    <3>4. CASE i <= a
      <4>1. i \in 1..(a + n) /\ i \in 1..a /\ i <= a + n
        BY <2>4, <3>1, <3>4
      <4>2. tx_q'[i] = Unsent[i]
        BY <2>2, <3>4, <4>1, Zenon
      <4>3. Unsent[i] = tx_q[tx_rd + i]
        BY <1>3, <2>5, <4>1, Zenon
      <4>. QED BY <3>2, <3>3, <3>4, <4>1, <4>2, <4>3, Zenon
    <3>5. CASE ~(i <= a) /\ i <= a + n
      <4>1. i \in 1..(a + n)
        BY <2>4, <3>1, <3>5
      <4>2. tx_q'[i] = waiting[i - a]
        BY <2>2, <3>5, <4>1, Zenon
      <4>. QED BY <3>2, <3>3, <3>5, <4>2, Zenon
    <3>6. CASE ~(i <= a) /\ ~(i <= a + n)
      <4>1. i - (a + n) \in 1..(b - n) /\ n + (i - (a + n)) = i - a
        BY <2>4, <3>1, <3>6
      <4>2. waiting'[i - (a + n)] = waiting[n + (i - (a + n))]
        BY <2>2, <4>1, Zenon
      <4>. QED BY <3>2, <3>3, <3>6, <4>1, <4>2, Zenon
    <3>7. i <= a + n \/ ~(i <= a)
      BY <2>4, <3>1
    <3>. QED BY <3>4, <3>5, <3>6, <3>7
  <2>. HIDE DEF a, b
  <2>9. InOrder'
    BY <1>1, <2>6, <2>7, <2>8 DEF InOrder
  <2>10. NextFollows'
    BY <1>1, <1>4, <2>7 DEF NextFollows
  <2>. QED BY <1>1, <2>3, <2>9, <2>10 DEF SessionInv, DialledEmpty
<1>5. ASSUME tx_rd' = 0, tx_q' = Unsent, Forget
      PROVE  SessionInv'
  <2>1. data_open' = FALSE /\ waiting' = <<>> /\ Len(waiting') = 0 /\ waiting' \in Seq(Bytes)
    BY <1>5 DEF Forget
  <2>2. TypeOK'
    <3>1. Flags'
      BY <1>1, <2>1, TypeParts, Zenon DEF Flags
    <3>2. /\ tx_q' \in Seq(Bytes) /\ tx_rd' \in 0..Len(tx_q') /\ Len(tx_q') <= TxSize
          /\ Len(waiting') <= MaxWaiting
      BY <1>3, <1>5, <2>1, Sizes
    <3>3. Data'
      BY <1>1, <2>1, <3>2, TypeParts DEF Data
    <3>. QED BY <3>1, <3>3, TypePartsNext
  <2>3. Len(Due') = Len(Unsent) /\ Len(Due) = Len(Unsent) + Len(waiting)
    <3>1. Len(Due) = (Len(tx_q) - tx_rd) + Len(waiting)
      BY <1>1, DueNow, Zenon
    <3>2. Len(Due') = (Len(tx_q') - tx_rd') + Len(waiting')
      BY <2>2, DueNext, Zenon
    <3>. QED BY <1>2, <1>3, <1>5, <2>1, <3>1, <3>2
  <2>4. ASSUME NEW i \in 1..Len(Due') PROVE Due'[i] = Due[i] /\ i \in 1..Len(Due)
    <3>1. /\ i \in 1..((Len(tx_q') - tx_rd') + Len(waiting')) /\ i \in 1..Len(Due)
          /\ i \in 1..((Len(tx_q) - tx_rd) + Len(waiting)) /\ i \in 1..(Len(tx_q) - tx_rd)
          /\ i <= Len(tx_q') - tx_rd' /\ i <= Len(tx_q) - tx_rd /\ tx_rd' + i = i
      BY <1>2, <1>3, <1>5, <2>1, <2>3
    <3>2. Due'[i] = IF i <= Len(tx_q') - tx_rd' THEN tx_q'[tx_rd' + i]
                    ELSE waiting'[i - (Len(tx_q') - tx_rd')]
      BY <2>2, <3>1, DueNext, Zenon
    <3>3. Due[i] = IF i <= Len(tx_q) - tx_rd THEN tx_q[tx_rd + i]
                   ELSE waiting[i - (Len(tx_q) - tx_rd)]
      BY <1>1, <3>1, DueNow, Zenon
    <3>4. Due'[i] = tx_q'[i] /\ Due[i] = tx_q[tx_rd + i]
      BY <3>1, <3>2, <3>3, Zenon
    <3>5. tx_q'[i] = tx_q[tx_rd + i]
      BY <1>3, <1>5, <3>1, Zenon
    <3>. QED BY <3>1, <3>4, <3>5
  <2>5. InOrder' /\ NextFollows'
    BY <1>1, <2>1, <2>4 DEF InOrder, NextFollows
  <2>. QED BY <1>1, <2>2, <2>5 DEF SessionInv, DialledEmpty
<1>6. CASE UNCHANGED <<tx_q, tx_rd, data_open, waiting>>
  <2>1. Flags' /\ Data'
    <3>1. Flags'
      BY <1>1, <1>6, TypeParts, Zenon DEF Flags
    <3>2. Data'
      BY <1>1, <1>6, TypeParts DEF Data
    <3>. QED BY <3>1, <3>2
  <2>2. TypeOK'
    BY <2>1, TypePartsNext
  <2>. QED BY <1>1, <1>6, <2>2, OrderKept
<1>. QED BY <1>4, <1>5, <1>6 DEF DataIn

\* The peer's next byte goes to the end of what is due.
LEMMA PeerWritesKeeps == SessionInv /\ PeerWrites => SessionInv'
<1>. SUFFICES ASSUME SessionInv, PeerWrites PROVE SessionInv'
  OBVIOUS
<1>1. /\ TypeOK /\ InOrder /\ NextFollows /\ DialledEmpty /\ data_open
      /\ waiting' = Append(waiting, sent) /\ sent' = After(sent, 1) /\ Len(waiting) < MaxWaiting
      /\ UNCHANGED <<at, ready, audio_open, data_open, hdr_done, tx_q, tx_rd, tx_cur_bits, line,
                     rx_q_len, pcm, hung_up, peer_closed>>
  BY DEF SessionInv, PeerWrites, sockets, txQueue, caller
<1>2. /\ tx_rd \in 0..Len(tx_q) /\ Len(tx_q) \in Nat /\ tx_q \in Seq(Bytes)
      /\ waiting \in Seq(Bytes) /\ Len(waiting) \in Nat /\ sent \in Bytes
      /\ sent \in Nat /\ line \in Nat
  BY <1>1, Sizes DEF TypeOK, Bytes
<1>3. /\ waiting' \in Seq(Bytes) /\ Len(waiting') = Len(waiting) + 1
      /\ \A i \in 1..Len(waiting) : waiting'[i] = waiting[i]
      /\ waiting'[Len(waiting) + 1] = sent
  <2>1. /\ Append(waiting, sent) \in Seq(Bytes)
        /\ Len(Append(waiting, sent)) = Len(waiting) + 1
        /\ \A i \in 1..Len(waiting) : Append(waiting, sent)[i] = waiting[i]
        /\ Append(waiting, sent)[Len(waiting) + 1] = sent
    BY <1>2, AppendProperties
  <2>. QED BY <1>1, <2>1, Zenon
<1>4. TypeOK'
  <2>1. Flags'
    BY <1>1, TypeParts, Zenon DEF Flags
  <2>2. sent' \in Bytes
    BY <1>1, <1>2, AfterAfter
  <2>3. Len(waiting') <= MaxWaiting
    <3>1. Len(waiting) + 1 <= MaxWaiting
      BY <1>1, <1>2, Sizes
    <3>. QED BY <1>3, <3>1
  <2>4. Data'
    BY <1>1, <1>3, <2>2, <2>3, TypeParts DEF Data
  <2>. QED BY <2>1, <2>4, TypePartsNext
<1>5. /\ Len(Due) = (Len(tx_q) - tx_rd) + Len(waiting)
      /\ Len(Due') = (Len(tx_q) - tx_rd) + (Len(waiting) + 1)
  <2>1. Len(Due) = (Len(tx_q) - tx_rd) + Len(waiting)
    BY <1>1, DueNow, Zenon
  <2>2. Len(Due') = (Len(tx_q') - tx_rd') + Len(waiting')
    BY <1>4, DueNext, Zenon
  <2>. QED BY <1>1, <1>3, <2>1, <2>2
<1>6. Len(Due) \in Nat /\ Len(Due') = Len(Due) + 1
  BY <1>2, <1>5
<1>7. ASSUME NEW i \in 1..Len(Due') PROVE Due'[i] = After(line, i)
  <2>1. /\ i \in 1..((Len(tx_q') - tx_rd') + Len(waiting')) /\ i \in Nat
        /\ Len(tx_q') - tx_rd' = Len(tx_q) - tx_rd /\ Len(tx_q) - tx_rd \in Nat
    BY <1>1, <1>2, <1>3, <1>5
  <2>2. Due'[i] = IF i <= Len(tx_q) - tx_rd THEN tx_q[tx_rd + i]
                  ELSE waiting'[i - (Len(tx_q) - tx_rd)]
    BY <1>1, <1>4, <2>1, DueNext, Zenon
  <2>3. CASE i = Len(Due) + 1
    <3>1. ~(i <= Len(tx_q) - tx_rd) /\ i - (Len(tx_q) - tx_rd) = Len(waiting) + 1
      BY <1>2, <1>5, <2>1, <2>3
    <3>2. Due'[i] = sent
      BY <1>3, <2>2, <3>1, Zenon
    <3>. QED BY <1>1, <2>3, <3>2 DEF NextFollows
  <2>4. CASE i # Len(Due) + 1
    <3>1. /\ i \in 1..Len(Due) /\ i \in 1..((Len(tx_q) - tx_rd) + Len(waiting))
          /\ ~(i <= Len(tx_q) - tx_rd) => i - (Len(tx_q) - tx_rd) \in 1..Len(waiting)
      <4>1. i \in 1..Len(Due)
        BY <1>6, <2>1, <2>4, <1>5
      <4>. QED BY <1>2, <1>5, <2>1, <4>1
    <3>2. Due[i] = IF i <= Len(tx_q) - tx_rd THEN tx_q[tx_rd + i]
                   ELSE waiting[i - (Len(tx_q) - tx_rd)]
      BY <1>1, <3>1, DueNow, Zenon
    <3>3. CASE i <= Len(tx_q) - tx_rd
      BY <1>1, <2>2, <3>1, <3>2, <3>3, Zenon DEF InOrder
    <3>4. CASE ~(i <= Len(tx_q) - tx_rd)
      BY <1>1, <1>3, <2>2, <3>1, <3>2, <3>4, Zenon DEF InOrder
    <3>. QED BY <3>3, <3>4
  <2>. QED BY <2>3, <2>4
<1>8. InOrder'
  BY <1>1, <1>7 DEF InOrder
<1>9. NextFollows'
  <2>1. sent = After(line, Len(Due) + 1) /\ Len(Due) + 1 \in Nat
    BY <1>1, <1>6 DEF NextFollows
  <2>2. After(sent, 1) = After(line, (Len(Due) + 1) + 1)
    BY <1>2, <2>1, AfterAfter
  <2>. QED BY <1>1, <1>6, <2>2 DEF NextFollows
<1>10. DialledEmpty'
  <2>1. at # "dial"
    BY <1>1 DEF DialledEmpty
  <2>. QED BY <1>1, <2>1 DEF DialledEmpty
<1>. QED BY <1>4, <1>8, <1>9, <1>10 DEF SessionInv

\* What else happens outside the thread touches no byte that is due.
LEMMA OutsideKeeps == SessionInv /\ (PcmArrives \/ HangUp \/ PeerCloses) => SessionInv'
<1>. SUFFICES ASSUME SessionInv, PcmArrives \/ HangUp \/ PeerCloses PROVE SessionInv'
  OBVIOUS
<1>1. TypeOK
  BY DEF SessionInv
<1>2. UNCHANGED <<at, ready, data_open, waiting, tx_q, tx_rd, tx_cur_bits, line, rx_q_len, sent>>
  <2>1. CASE PcmArrives
    BY <2>1 DEF PcmArrives, txQueue, sockets, peer
  <2>2. CASE HangUp
    BY <2>2 DEF HangUp, txQueue, sockets, peer
  <2>3. CASE PeerCloses
    BY <2>3 DEF PeerCloses, txQueue, sockets, caller
  <2>. QED BY <2>1, <2>2, <2>3
<1>3. Flags'
  <2>1. Flags
    BY <1>1, TypeParts
  <2>2. CASE PcmArrives
    BY <2>1, <2>2, Zenon DEF PcmArrives, Flags, sockets, peer
  <2>3. CASE HangUp
    BY <2>1, <2>3, Zenon DEF HangUp, Flags, sockets, peer
  <2>4. CASE PeerCloses
    BY <2>1, <2>4, Zenon DEF PeerCloses, Flags, sockets, caller
  <2>. QED BY <2>2, <2>3, <2>4
<1>4. Data'
  BY <1>1, <1>2, DataKept DEF TypeOK
<1>5. TypeOK'
  BY <1>3, <1>4, TypePartsNext
<1>. QED BY <1>2, <1>5, OrderKept

\* Every step keeps the invariant.
LEMMA NextKeeps == SessionInv /\ [Next]_vars => SessionInv'
<1>. SUFFICES ASSUME SessionInv, [Next]_vars PROVE SessionInv'
  OBVIOUS
<1>1. CASE Loop
  BY <1>1, DialKeeps, SelectKeeps, AudioInKeeps, DataInKeeps, DataOutKeeps DEF Loop
<1>2. CASE PcmArrives \/ HangUp \/ PeerCloses
  BY <1>2, OutsideKeeps
<1>3. CASE PeerWrites
  BY <1>3, PeerWritesKeeps
<1>4. CASE UNCHANGED vars
  <2>1. /\ UNCHANGED <<at, data_open, waiting, tx_q, tx_rd, line, sent>>
    BY <1>4 DEF vars, txQueue, sockets, peer
  <2>2. TypeOK'
    BY <1>4 DEF vars, txQueue, sockets, peer, caller, SessionInv, TypeOK
  <2>. QED BY <2>1, <2>2, OrderKept
<1>. QED BY <1>1, <1>2, <1>3, <1>4 DEF Next

-----------------------------------------------------------------------------
(* Theorems. *)

\* The invariant the two theorems below follow from.
THEOREM SessionInvariant == Spec => []SessionInv
BY InitInv, NextKeeps, PTL DEF Spec

\* The queues of a session stay within their arrays and the cursor within the queue,
\* although the room of a read is computed after the queue was compacted
\* (modem_v22bis.c:238, 285).
THEOREM SessionTypes == Spec => []TypeOK
<1>1. SessionInv => TypeOK
  BY DEF SessionInv
<1>. QED BY <1>1, SessionInvariant, PTL

\* The line gets the data peer's bytes in order, none missing and none twice, however
\* reads, compactions and the modem's demand for bits interleave
\* (modem_v22bis.c:145-167, 280-304).
THEOREM SessionInOrder == Spec => []PeerBytesInOrder
<1>1. SessionInv => PeerBytesInOrder
  <2>. SUFFICES ASSUME SessionInv PROVE PeerBytesInOrder
    OBVIOUS
  <2>1. TypeOK /\ InOrder
    BY DEF SessionInv
  <2>2. Due \in Seq(Bytes)
    BY <2>1, DueFacts DEF TypeOK, Due
  <2>3. DOMAIN Due = 1..Len(Due)
    BY <2>2
  <2>4. Due = Unsent \o waiting
    BY DEF Due, DueOf, Unsent
  <2>. QED BY <2>1, <2>3, <2>4 DEF InOrder, PeerBytesInOrder
<1>. QED BY <1>1, SessionInvariant, PTL
=============================================================================
