--------------------------- MODULE LineSimProofs ---------------------------
(***************************************************************************)
(* What the relay keeps for every block, slip, FIFO and socket size and    *)
(* however TCP splits the blocks: a block per modem goes round whole, and  *)
(* a FIFO holds its cushion and the slip.                                  *)
(***************************************************************************)
EXTENDS LineSim, TLAPS

\* A block being moved is not complete, and none is being moved between the channels and
\* the writes.
MovedInBlock == moved < BlkBytes /\ (at = "pop" => moved = 0)

\* The accumulated slip keeps to its bound and to a channel that slips; nothing slips
\* before the modems are primed, and only a line that slips is given a cushion.
SlipBounded ==
    /\ \A m \in Modems : /\ -SlipMax <= slip[m] /\ slip[m] <= SlipMax
                         /\ m \notin slips => slip[m] = 0
                         /\ at \in {"primeA", "primeB"} => slip[m] = 0
    /\ at = "fill" => SlipAny

LineInv ==
    /\ TypeOK
    /\ MovedInBlock
    /\ SlipBounded
    /\ OneBlockEach
    /\ FifoFollowsSlip

\* The sizes the proofs compute with.
LEMMA Sizes ==
    /\ Blk \in Nat /\ Blk > 0 /\ SlipMax \in Nat /\ SlipMax > 0 /\ SlipMax <= Blk
    /\ BlkBytes \in Nat /\ BlkBytes = Blk + Blk /\ BlkBytes > 0
    /\ FifoCap \in Nat /\ FifoCap >= Blk + Blk + SlipMax
    /\ Sock \in Nat /\ Sock >= BlkBytes /\ Chunk \in Nat
BY LineAssumption DEF BlkBytes

\* The smaller of two lengths is one of them and neither exceeds it (line_sim.c:298).
LEMMA LeastFacts ==
    ASSUME NEW a \in Int, NEW b \in Int
    PROVE  /\ Least(a, b) \in {a, b} /\ Least(a, b) <= a /\ Least(a, b) <= b
BY DEF Least

\* The line starts with nothing in the sockets and the FIFOs (line_sim.c:266).
LEMMA LineInit == Init => LineInv
<1>. SUFFICES ASSUME Init PROVE LineInv
  OBVIOUS
<1>1. TypeOK
  BY DEF Init, TypeOK, Places, Modems
<1>2. MovedInBlock /\ SlipBounded
  BY Sizes DEF Init, MovedInBlock, SlipBounded, Modems
<1>3. OneBlockEach
  BY Sizes DEF Init, OneBlockEach, Held, ReadPlace, WritePlaces, Modems
<1>4. FifoFollowsSlip
  BY DEF Init, FifoFollowsSlip, Level, Modems
<1>. QED BY <1>1, <1>2, <1>3, <1>4 DEF LineInv

\* Moving k more bytes of a block stays within the block (line_sim.c:54, 65).
LEMMA AdvanceFacts ==
    ASSUME LineInv, NEW next, NEW k \in Nat, k > 0, moved + k <= BlkBytes, Advance(k, next)
    PROVE  /\ moved' \in Nat /\ moved' < BlkBytes
           /\ \/ at' = at /\ moved' = moved + k
              \/ at' = next /\ moved' = 0 /\ moved + k = BlkBytes
BY Sizes DEF LineInv, TypeOK, MovedInBlock, Advance

\* Nothing but the stages of the relay and the counts of the channels decides how full a
\* FIFO should be: outside the channels a stage that is not one of priming has the cushion.
LEMMA LevelFacts ==
    ASSUME NEW m \in Modems
    PROVE  /\ at \in {"primeA", "primeB"} => Level(m) = 0
           /\ at \in {"readA", "readB", "writeA", "writeB"} => Level(m) = Cushion + 0
           /\ at = "pop" => Level(m) = Cushion + Blk
BY DEF Level, Processed

\* A read takes bytes from the socket to the block and changes nothing else
\* (line_sim.c:54).
LEMMA ReadStep ==
    ASSUME LineInv, NEW m \in Modems, Read(m)
    PROVE  LineInv'
<1>1. PICK k \in 1..Least(from[m], BlkBytes - moved) :
          from' = [from EXCEPT ![m] = @ - k] /\ Advance(k, AfterRead)
  BY DEF Read
<1>2. /\ k \in Nat /\ k > 0 /\ k <= from[m] /\ moved + k <= BlkBytes
      /\ from[m] \in Nat /\ moved \in Nat /\ from' \in [Modems -> Nat]
      /\ from'[m] = from[m] - k /\ \A x \in Modems : x # m => from'[x] = from[x]
  BY <1>1, LeastFacts, Sizes, SMTT(30) DEF LineInv, TypeOK, MovedInBlock
<1>3. /\ at = ReadPlace(m) /\ AfterRead = IF m = "A" THEN "readB" ELSE "channel"
      /\ UNCHANGED <<fifo, slip, slips, to, half, gone>>
  BY DEF Read, AfterRead, ReadPlace, channels, Modems
<1>4. /\ moved' \in Nat /\ moved' < BlkBytes
      /\ \/ at' = at /\ moved' = moved + k
         \/ at' = AfterRead /\ moved' = 0 /\ moved + k = BlkBytes
  BY <1>1, <1>2, AdvanceFacts
<1>5. TypeOK' /\ MovedInBlock'
  BY <1>2, <1>3, <1>4 DEF LineInv, TypeOK, MovedInBlock, Places, ReadPlace, Modems, BlkBytes
<1>6. SlipBounded'
  BY <1>3, <1>4 DEF LineInv, SlipBounded, SlipAny, ReadPlace, Modems
<1>7. OneBlockEach'
  BY <1>2, <1>3, <1>4, Sizes
     DEF LineInv, TypeOK, OneBlockEach, Held, ReadPlace, WritePlaces, Modems, BlkBytes
<1>8. FifoFollowsSlip'
  BY <1>3, <1>4, Sizes
     DEF LineInv, TypeOK, FifoFollowsSlip, Level, Processed, Cushion, SlipAny, ReadPlace,
         Modems, Least
<1>. QED BY <1>5, <1>6, <1>7, <1>8 DEF LineInv

\* A stage of writing gives way to the next one (line_sim.c:279, 303).
LEMMA AfterWriteFacts ==
    ASSUME NEW m \in Modems, at \in WritePlaces(m)
    PROVE  \/ m = "A" /\ at = "primeA" /\ AfterWrite = "primeB"
           \/ m = "B" /\ at = "primeB" /\ SlipAny /\ AfterWrite = "fill"
           \/ m = "B" /\ at = "primeB" /\ ~SlipAny /\ AfterWrite = "readA"
           \/ m = "B" /\ at = "writeB" /\ AfterWrite = "writeA"
           \/ m = "A" /\ at = "writeA" /\ AfterWrite = "readA"
BY DEF AfterWrite, WritePlaces, Modems

\* A write advances the relay and leaves the FIFOs as they should be, whether or not the
\* modem is still there (line_sim.c:65).
LEMMA WriteAdvances ==
    ASSUME LineInv, NEW m \in Modems, at \in WritePlaces(m),
           NEW k \in Nat, k > 0, moved + k <= BlkBytes, Advance(k, AfterWrite),
           UNCHANGED <<fifo, slip, slips>>
    PROVE  /\ moved' \in Nat /\ at' \in Places
           /\ MovedInBlock' /\ SlipBounded' /\ FifoFollowsSlip'
<1>1. /\ moved' \in Nat /\ moved' < BlkBytes
      /\ \/ at' = at /\ moved' = moved + k
         \/ at' = AfterWrite /\ moved' = 0 /\ moved + k = BlkBytes
  BY AdvanceFacts
<1>2. at' \in Places /\ MovedInBlock'
  BY <1>1, AfterWriteFacts DEF LineInv, TypeOK, MovedInBlock, Places, WritePlaces, BlkBytes
<1>3. SlipAny' = SlipAny /\ Cushion' = Cushion
  BY DEF SlipAny, Cushion
<1>4. SlipBounded'
  BY <1>1, <1>3, AfterWriteFacts DEF LineInv, SlipBounded, WritePlaces, Modems
<1>5. FifoFollowsSlip'
  <2>1. CASE at' = at /\ moved' = moved + k
    BY <1>3, <2>1 DEF LineInv, FifoFollowsSlip, Level, Processed, WritePlaces, Modems
  <2>2. CASE at' = AfterWrite /\ moved' = 0
    BY <1>3, <2>2, AfterWriteFacts, Sizes
       DEF LineInv, TypeOK, SlipBounded, FifoFollowsSlip, Level, Processed, Cushion, SlipAny,
           Modems, Least
  <2>. QED BY <1>1, <2>1, <2>2
<1>. QED BY <1>1, <1>2, <1>4, <1>5

\* A write to a modem that is there moves bytes of the block into its socket
\* (line_sim.c:65).
LEMMA WriteStep ==
    ASSUME LineInv, NEW m \in Modems, Write(m)
    PROVE  LineInv'
<1>1. PICK k \in 1..Least(Sock - to[m], BlkBytes - moved) :
          to' = [to EXCEPT ![m] = @ + k] /\ Advance(k, AfterWrite)
  BY DEF Write
<1>2. /\ k \in Nat /\ k > 0 /\ moved + k <= BlkBytes
      /\ to[m] \in Nat /\ moved \in Nat /\ to' \in [Modems -> Nat]
      /\ to'[m] = to[m] + k /\ \A x \in Modems : x # m => to'[x] = to[x]
  BY <1>1, LeastFacts, Sizes DEF LineInv, TypeOK, MovedInBlock
<1>3. at \in WritePlaces(m) /\ UNCHANGED <<fifo, slip, slips, from, half, gone>>
  BY DEF Write, channels
<1>4. moved' \in Nat /\ at' \in Places /\ MovedInBlock' /\ SlipBounded' /\ FifoFollowsSlip'
  BY <1>1, <1>2, <1>3, WriteAdvances
<1>5. TypeOK'
  BY <1>2, <1>3, <1>4 DEF LineInv, TypeOK
<1>6. OneBlockEach'
  <2>1. \/ at' = at /\ moved' = moved + k
        \/ at' = AfterWrite /\ moved' = 0 /\ moved + k = BlkBytes
    BY <1>1, <1>2, AdvanceFacts
  <2>. QED
    BY <1>2, <1>3, <2>1, AfterWriteFacts, Sizes
       DEF LineInv, TypeOK, OneBlockEach, Held, ReadPlace, WritePlaces, Modems, BlkBytes
<1>. QED BY <1>4, <1>5, <1>6 DEF LineInv

\* A write to a modem that is gone only advances the relay (line_sim.c:65).
LEMMA WriteInVainStep ==
    ASSUME LineInv, NEW m \in Modems, WriteInVain(m)
    PROVE  LineInv'
<1>1. PICK k \in 1..(BlkBytes - moved) : Advance(k, AfterWrite)
  BY DEF WriteInVain
<1>2. k \in Nat /\ k > 0 /\ moved + k <= BlkBytes /\ moved \in Nat
  BY <1>1, Sizes DEF LineInv, TypeOK, MovedInBlock
<1>3. at \in WritePlaces(m) /\ m \in gone /\ UNCHANGED <<fifo, slip, slips, to, from, half, gone>>
  BY DEF WriteInVain, channels, modems
<1>4. moved' \in Nat /\ at' \in Places /\ MovedInBlock' /\ SlipBounded' /\ FifoFollowsSlip'
  BY <1>1, <1>2, <1>3, WriteAdvances
<1>5. TypeOK'
  BY <1>3, <1>4 DEF LineInv, TypeOK
<1>6. OneBlockEach'
  <2>1. \/ at' = at /\ moved' = moved + k
        \/ at' = AfterWrite /\ moved' = 0 /\ moved + k = BlkBytes
    BY <1>1, <1>2, AdvanceFacts
  <2>. QED
    BY <1>2, <1>3, <2>1, AfterWriteFacts, Sizes
       DEF LineInv, TypeOK, OneBlockEach, Held, ReadPlace, WritePlaces, Modems, BlkBytes
<1>. QED BY <1>4, <1>5, <1>6 DEF LineInv

\* What becomes of one sample changes the slip by as much as the FIFO, within the bound and
\* only where the channel slips (channel.c:257).
LEMMA EmitFacts ==
    ASSUME LineInv, NEW m \in Modems, NEW e \in EmitWithSlip(m)
    PROVE  /\ e[1] \in 0..2 /\ e[2] \in Int /\ e[1] + slip[m] = e[2] + 1
           /\ -SlipMax <= e[2] /\ e[2] <= SlipMax
           /\ m \notin slips => e[2] = slip[m]
<1>1. /\ slip[m] \in Int /\ -SlipMax <= slip[m] /\ slip[m] <= SlipMax
  BY DEF LineInv, TypeOK, SlipBounded
<1>2. \/ e = <<1, slip[m]>>
      \/ m \in slips /\ slip[m] < SlipMax /\ e = <<2, slip[m] + 1>>
      \/ m \in slips /\ slip[m] > -SlipMax /\ e = <<0, slip[m] - 1>>
  BY <1>1, Sizes DEF EmitWithSlip
<1>. QED BY <1>1, <1>2, Sizes

\* One sample through a channel (channel.c:282, line_sim.c:283, 295).
LEMMA ChannelStep ==
    ASSUME LineInv, Channel
    PROVE  LineInv'
<1>. DEFINE m == IF moved < Blk THEN "A" ELSE "B"
            next == IF at = "fill" THEN "readA" ELSE "pop"
<1>1. PICK e \in EmitWithSlip(m) :
          /\ fifo' = [fifo EXCEPT ![m] = Least(FifoCap, @ + e[1])]
          /\ slip' = [slip EXCEPT ![m] = e[2]]
  BY DEF Channel
<1>2. /\ at \in {"fill", "channel"} /\ m \in Modems /\ moved \in Nat /\ moved < BlkBytes
      /\ UNCHANGED <<slips, to, from, half, gone>>
  BY DEF Channel, modems, Modems, LineInv, TypeOK, MovedInBlock
<1>3. /\ e[1] \in 0..2 /\ e[2] \in Int /\ e[1] + slip[m] = e[2] + 1
      /\ -SlipMax <= e[2] /\ e[2] <= SlipMax /\ (m \notin slips => e[2] = slip[m])
  BY <1>1, <1>2, EmitFacts
<1>4. /\ slip' \in [Modems -> Int] /\ slip'[m] = e[2]
      /\ \A x \in Modems : x # m => slip'[x] = slip[x] /\ fifo'[x] = fifo[x]
  BY <1>1, <1>2, <1>3 DEF LineInv, TypeOK
<1>5. /\ moved' \in Nat /\ moved' < BlkBytes
      /\ \/ at' = at /\ moved' = moved + 1
         \/ at' = next /\ moved' = 0 /\ moved + 1 = BlkBytes
  <2>1. Advance(1, next)
    BY DEF Channel
  <2>. QED BY <1>2, <2>1, Sizes, AdvanceFacts
<1>6. fifo[m] = (IF at = "fill" THEN 0 ELSE Cushion)
                + (IF m = "A" THEN moved ELSE moved - Blk) + slip[m]
  BY <1>2, Sizes DEF LineInv, TypeOK, FifoFollowsSlip, Level, Processed, Least, Cushion, Modems
<1>7. Cushion \in {0, Blk}
  BY DEF Cushion
<1>8. fifo[m] + e[1] \in Nat /\ fifo[m] + e[1] <= FifoCap
  BY <1>2, <1>3, <1>6, <1>7, Sizes DEF LineInv, TypeOK
<1>9. fifo' \in [Modems -> Nat] /\ fifo'[m] = fifo[m] + e[1]
  BY <1>1, <1>2, <1>8, Sizes DEF LineInv, TypeOK, Least
<1>10. TypeOK' /\ MovedInBlock'
  BY <1>2, <1>4, <1>5, <1>9 DEF LineInv, TypeOK, MovedInBlock, Places, BlkBytes
<1>11. SlipBounded'
  <2>1. SlipAny' = SlipAny
    BY <1>2 DEF SlipAny
  <2>. QED BY <1>2, <1>3, <1>4, <1>5, <2>1 DEF LineInv, SlipBounded, Modems
<1>12. OneBlockEach'
  BY <1>2, <1>5, Sizes
     DEF LineInv, TypeOK, OneBlockEach, Held, ReadPlace, WritePlaces, Modems, BlkBytes
<1>13. FifoFollowsSlip'
  <2>1. Cushion' = Cushion /\ (at = "fill" => Cushion = Blk)
    BY <1>2 DEF Cushion, SlipAny, LineInv, SlipBounded
  <2>2. CASE at' = at /\ moved' = moved + 1
    BY <1>2, <1>3, <1>4, <1>6, <1>7, <1>9, <2>1, <2>2, Sizes
       DEF LineInv, TypeOK, FifoFollowsSlip, Level, Processed, Least, Modems
  <2>3. CASE at' = next /\ moved' = 0 /\ moved + 1 = BlkBytes
    <3>1. m = "B" /\ fifo["A"] = (IF at = "fill" THEN 0 ELSE Cushion) + Blk + slip["A"]
      BY <1>2, <2>3, Sizes DEF LineInv, TypeOK, FifoFollowsSlip, Level, Processed, Least, Modems
    <3>. QED
      BY <1>2, <1>3, <1>4, <1>6, <1>7, <1>9, <2>1, <2>3, <3>1, Sizes
         DEF LineInv, TypeOK, FifoFollowsSlip, Level, Processed, Modems
  <2>. QED BY <1>5, <2>2, <2>3
<1>. QED BY <1>10, <1>11, <1>12, <1>13 DEF LineInv

\* A block from each FIFO: it is there, however the line slipped (line_sim.c:298).
LEMMA PopStep ==
    ASSUME LineInv, Pop
    PROVE  LineInv'
<1>1. /\ at = "pop" /\ at' = "writeB" /\ moved = 0 /\ moved' = 0
      /\ fifo' = [m \in Modems |-> fifo[m] - Least(fifo[m], Blk)]
      /\ UNCHANGED <<slip, slips, to, from, half, gone>>
  BY DEF Pop, modems, LineInv, MovedInBlock
<1>2. \A m \in Modems : fifo[m] \in Nat /\ fifo[m] >= Blk /\ fifo[m] = Cushion + Blk + slip[m]
  BY <1>1, Sizes
     DEF LineInv, TypeOK, SlipBounded, FifoFollowsSlip, Level, Cushion, SlipAny
<1>3. \A m \in Modems : fifo'[m] \in Nat /\ fifo'[m] = Cushion + slip[m]
  BY <1>1, <1>2, Sizes DEF Least, Cushion, LineInv, TypeOK
<1>4. TypeOK' /\ MovedInBlock'
  BY <1>1, <1>2, Sizes DEF LineInv, TypeOK, MovedInBlock, Places, Least
<1>5. SlipBounded'
  BY <1>1 DEF LineInv, SlipBounded, SlipAny
<1>6. OneBlockEach'
  BY <1>1, Sizes
     DEF LineInv, TypeOK, OneBlockEach, Held, ReadPlace, WritePlaces, Modems, BlkBytes
<1>7. FifoFollowsSlip'
  BY <1>1, <1>3, Sizes
     DEF LineInv, TypeOK, FifoFollowsSlip, Level, Processed, Cushion, SlipAny
<1>. QED BY <1>4, <1>5, <1>6, <1>7 DEF LineInv

\* What a modem keeps of the bytes it has is at most one, and no more than it has
\* (modem_v22bis.c:269).
LEMMA OddByte ==
    ASSUME NEW b \in Nat, b > 0
    PROVE  b % 2 \in 0..1 /\ b - (b % 2) \in Nat /\ b - (b % 2) <= b
<1>1. b % 2 \in 0..1
  OBVIOUS
<1>2. ASSUME NEW r \in 0..1 PROVE b - r \in Nat /\ b - r <= b
  OBVIOUS
<1>. QED BY <1>1, <1>2

\* A modem answers sample for sample: what it takes from one socket is in the other or
\* half a sample it keeps, because there is room for a block (modem_v22bis.c:258).
LEMMA AnswerStep ==
    ASSUME LineInv, NEW m \in Modems, Answer(m)
    PROVE  LineInv'
<1>1. PICK k \in 1..Least(Chunk, to[m]) :
          /\ to' = [to EXCEPT ![m] = @ - k]
          /\ from' = [from EXCEPT ![m] = Least(Sock, @ + ((half[m] + k) - ((half[m] + k) % 2)))]
          /\ half' = [half EXCEPT ![m] = (half[m] + k) % 2]
  BY DEF Answer
<1>2. /\ m \notin gone /\ at # "closed"
      /\ UNCHANGED <<at, moved, fifo, slip, slips, gone>>
  BY DEF Answer, channels
<1>3. /\ k \in Nat /\ k > 0 /\ k <= to[m] /\ to[m] \in Nat /\ from[m] \in Nat
      /\ half[m] \in 0..1 /\ moved \in Nat
  BY <1>1, LeastFacts, Sizes, SMTT(30) DEF LineInv, TypeOK
<1>4. PICK rest \in 0..1 : rest = (half[m] + k) % 2 /\ (half[m] + k) - rest \in Nat
  <2>1. half[m] + k \in Nat /\ half[m] + k > 0
    BY <1>3
  <2>. QED BY <2>1, OddByte
<1>5. /\ from' = [from EXCEPT ![m] = Least(Sock, from[m] + ((half[m] + k) - rest))]
      /\ half' = [half EXCEPT ![m] = rest]
  BY <1>1, <1>4
<1>6. Held(m) \in Nat /\ Held(m) + to[m] + half[m] + from[m] = BlkBytes
  <2>1. Held(m) \in Nat
    BY <1>3, Sizes DEF Held, LineInv, MovedInBlock
  <2>. QED BY <1>2, <2>1 DEF LineInv, OneBlockEach
<1>7. /\ to' \in [Modems -> Nat] /\ to'[m] = to[m] - k
      /\ from' \in [Modems -> Nat] /\ from'[m] = from[m] + ((half[m] + k) - rest)
      /\ half' \in [Modems -> 0..1] /\ half'[m] = rest
  <2>1. from[m] + ((half[m] + k) - rest) \in Nat /\ from[m] + ((half[m] + k) - rest) <= Sock
    <3>1. PICK held \in Nat : held + to[m] + half[m] + from[m] = BlkBytes
      BY <1>6
    <3>2. rest \in Nat /\ (half[m] + k) - rest \in Nat
      BY <1>4
    <3>3. half[m] \in Nat /\ Sock \in Nat /\ BlkBytes <= Sock
      BY <1>3, Sizes
    <3>. QED BY <1>3, <3>1, <3>2, <3>3, Sizes
  <2>. QED BY <1>1, <1>3, <1>4, <1>5, <2>1, Sizes DEF Least, LineInv, TypeOK
<1>8. TypeOK' /\ MovedInBlock' /\ SlipBounded' /\ FifoFollowsSlip'
  BY <1>2, <1>7
     DEF LineInv, TypeOK, MovedInBlock, SlipBounded, FifoFollowsSlip, Level, Processed,
         Cushion, SlipAny
<1>9. OneBlockEach'
  <2>1. \A x \in Modems : Held(x)' = Held(x)
    BY <1>2 DEF Held
  <2>2. Held(m) + to'[m] + half'[m] + from'[m] = BlkBytes
    BY <1>3, <1>4, <1>6, <1>7, Sizes
  <2>3. \A x \in Modems : x # m => to'[x] = to[x] /\ half'[x] = half[x] /\ from'[x] = from[x]
    BY <1>1, <1>5 DEF LineInv, TypeOK
  <2>. QED BY <1>2, <2>1, <2>2, <2>3 DEF LineInv, OneBlockEach
<1>. QED BY <1>8, <1>9 DEF LineInv

\* A modem that ends takes its sockets with it (line_sim.c:58).
LEMMA EndStep ==
    ASSUME LineInv, NEW m \in Modems, End(m)
    PROVE  LineInv'
<1>1. /\ gone' = gone \cup {m}
      /\ from' \in {from, [from EXCEPT ![m] = 0]}
      /\ to' = [to EXCEPT ![m] = 0] /\ half' = [half EXCEPT ![m] = 0]
      /\ UNCHANGED <<at, moved, fifo, slip, slips>>
  BY DEF End, channels
<1>2. TypeOK' /\ MovedInBlock' /\ SlipBounded' /\ FifoFollowsSlip'
  BY <1>1
     DEF LineInv, TypeOK, MovedInBlock, SlipBounded, FifoFollowsSlip, Level, Processed,
         Cushion, SlipAny
<1>3. OneBlockEach'
  <2>1. \A x \in Modems : Held(x)' = Held(x)
    BY <1>1 DEF Held
  <2>. QED BY <1>1, <2>1 DEF LineInv, TypeOK, OneBlockEach
<1>. QED BY <1>2, <1>3 DEF LineInv

\* The relay ends (line_sim.c:309).
LEMMA CloseStep ==
    ASSUME LineInv, NEW m \in Modems, Close(m)
    PROVE  LineInv'
BY DEF Close, channels, modems, LineInv, TypeOK, Places, MovedInBlock, SlipBounded, SlipAny,
       OneBlockEach, FifoFollowsSlip, BlkBytes

\* Every step keeps the invariant (line_sim.c:291).
LEMMA LineStep == LineInv /\ [Next]_vars => LineInv'
<1>. SUFFICES ASSUME LineInv, [Next]_vars PROVE LineInv'
  OBVIOUS
<1>1. CASE UNCHANGED vars
  BY <1>1
     DEF vars, channels, modems, LineInv, TypeOK, MovedInBlock, SlipBounded, SlipAny,
         OneBlockEach, Held, FifoFollowsSlip, Level, Processed, Cushion
<1>2. ASSUME NEW m \in Modems, Read(m) \/ Write(m) \/ WriteInVain(m) \/ Close(m)
      PROVE  LineInv'
  BY <1>2, ReadStep, WriteStep, WriteInVainStep, CloseStep
<1>3. ASSUME NEW m \in Modems, Answer(m) \/ End(m) PROVE LineInv'
  BY <1>3, AnswerStep, EndStep
<1>. QED BY <1>1, <1>2, <1>3, ChannelStep, PopStep DEF Next, Relay

\* The strengthened invariant of the line (line_sim.c:291).
THEOREM LineInvariant == Spec => []LineInv
BY LineInit, LineStep, PTL DEF Spec

\* One block per modem goes round, whatever the block, the sockets and the splitting
\* (line_sim.c:292).
THEOREM LineConserves == Spec => []OneBlockEach
<1>1. LineInv => OneBlockEach
  BY DEF LineInv
<1>. QED BY <1>1, LineInvariant, PTL

\* The FIFOs hold their cushion and the slip: a cushion as long as the bound on the slip
\* is enough, for every block and bound (channel.c:257, line_sim.c:282).
THEOREM LineFifo == Spec => []FifoFollowsSlip
<1>1. LineInv => FifoFollowsSlip
  BY DEF LineInv
<1>. QED BY <1>1, LineInvariant, PTL
=============================================================================
