------------------------------ MODULE LineSim ------------------------------
(***************************************************************************)
(* line_sim: the relay between two modems that are audio servers.          *)
(*                                                                         *)
(* A modem answers every sample it gets with one sample and says nothing   *)
(* of its own, so two blocks go round, one per modem, and the relay moves  *)
(* them in lockstep.  Each direction has a channel that may slip: skip or  *)
(* repeat a sample; a FIFO takes up the difference.  Sockets and blocks    *)
(* are counted in bytes, two to a sample, since TCP may split anywhere;    *)
(* FIFOs are counted in samples.  What a sample is worth is left out.      *)
(***************************************************************************)
EXTENDS Integers

CONSTANTS
    Blk,            \* BLK_SAMPLES (40)
    SlipMax,        \* SLIP_MAX (10)
    FifoCap,        \* FIFO_CAP (512)
    Sock,           \* bytes a socket holds in one direction
    Chunk           \* bytes a modem reads at a time (640)

\* A socket takes a block, the cushion is as long as the slip, and the FIFO has room
\* for the cushion, a block and the slip.
ASSUME LineAssumption ==
    /\ Blk \in Nat \ {0} /\ SlipMax \in Nat \ {0} /\ SlipMax <= Blk
    /\ FifoCap \in Nat /\ FifoCap >= 2 * Blk + SlipMax
    /\ Sock \in Nat /\ Sock >= 2 * Blk
    /\ Chunk \in Nat \ {0}

Modems == {"A", "B"}
BlkBytes == 2 * Blk

VARIABLES
    at,             \* where the relay is
    moved,          \* bytes moved of the block being read or written, samples processed
    fifo,           \* count of the FIFO behind the channel that starts at a modem
    slip,           \* slip_accum of that channel
    slips,          \* the modems whose channel slips, slip_prob > 0.0
    to, from,       \* bytes in the socket to a modem and from it
    half,           \* in_stage_len of a modem: half a sample read
    gone            \* the modems that have ended their session

channels == <<fifo, slip, slips>>
modems == <<to, from, half, gone>>
vars == <<at, moved, channels, modems>>

Places == {"primeA", "primeB", "fill", "readA", "readB", "channel", "pop",
           "writeB", "writeA", "closed"}
Least(a, b) == IF a <= b THEN a ELSE b

Init ==
    /\ at = "primeA" /\ moved = 0
    /\ fifo = [m \in Modems |-> 0] /\ slip = [m \in Modems |-> 0]
    /\ slips \in SUBSET Modems
    /\ to = [m \in Modems |-> 0] /\ from = [m \in Modems |-> 0]
    /\ half = [m \in Modems |-> 0] /\ gone = {}

SlipAny == slips # {}

-----------------------------------------------------------------------------
(* The relay. *)

ReadPlace(m) == IF m = "A" THEN "readA" ELSE "readB"
WritePlaces(m) == IF m = "A" THEN {"primeA", "writeA"} ELSE {"primeB", "writeB"}

\* Mutation of AfterWrite: no cushion.
AfterWriteNoCushion ==
    CASE at = "primeA" -> "primeB"
      [] at = "writeB" -> "writeA"
      [] OTHER -> "readA"

\* The blocks of silence that prime the modems go to A, then to B; only a line that slips
\* gets a cushion.  Later blocks go to B first.
AfterWrite ==
    CASE at = "primeA" -> "primeB"
      [] at = "primeB" -> IF SlipAny THEN "fill" ELSE "readA"
      [] at = "writeB" -> "writeA"
      [] OTHER -> "readA"

AfterRead == IF at = "readA" THEN "readB" ELSE "channel"

\* k more bytes of the block; with the last one the relay goes on.
Advance(k, next) ==
    IF moved + k = BlkBytes THEN at' = next /\ moved' = 0
                            ELSE moved' = moved + k /\ UNCHANGED at

\* read_exact, one read of it.
Read(m) ==
    /\ at = ReadPlace(m)
    /\ \E k \in 1..Least(from[m], BlkBytes - moved) :
          /\ from' = [from EXCEPT ![m] = @ - k]
          /\ Advance(k, AfterRead)
    /\ UNCHANGED <<channels, to, half, gone>>

\* Mutation of Write: a short write counts as the whole.
WriteShort(m) ==
    /\ at \in WritePlaces(m) /\ m \notin gone
    /\ \E k \in 1..Least(Sock - to[m], BlkBytes - moved) :
          /\ to' = [to EXCEPT ![m] = @ + k]
          /\ at' = AfterWrite /\ moved' = 0
    /\ UNCHANGED <<channels, from, half, gone>>

\* write_exact, one write of it.
Write(m) ==
    /\ at \in WritePlaces(m) /\ m \notin gone
    /\ \E k \in 1..Least(Sock - to[m], BlkBytes - moved) :
          /\ to' = [to EXCEPT ![m] = @ + k]
          /\ Advance(k, AfterWrite)
    /\ UNCHANGED <<channels, from, half, gone>>

\* A write to a modem that is gone, before its host has said so.
WriteInVain(m) ==
    /\ at \in WritePlaces(m) /\ m \in gone
    /\ \E k \in 1..(BlkBytes - moved) : Advance(k, AfterWrite)
    /\ UNCHANGED <<channels, modems>>

\* Mutation of Close: nothing read is taken for nothing yet.
CloseAfterWrite(m) ==
    /\ m \in gone /\ at \in WritePlaces(m)
    /\ at' = "closed"
    /\ UNCHANGED <<moved, channels, modems>>

\* End of file, or a write that fails: the relay closes both connections and ends.
Close(m) ==
    /\ m \in gone
    /\ at \in WritePlaces(m) \/ (at = ReadPlace(m) /\ from[m] = 0)
    /\ at' = "closed"
    /\ UNCHANGED <<moved, channels, modems>>

\* emit_with_slip: how many samples one becomes, and the slip after it.  A slip that
\* would pass the bound goes the other way.
EmitWithSlip(m) ==
    LET repeat == <<2, slip[m] + 1>>
        skip   == <<0, slip[m] - 1>>
    IN  {<<1, slip[m]>>} \cup
        (IF m \in slips THEN {IF slip[m] < SlipMax THEN repeat ELSE skip,
                           IF slip[m] > -SlipMax THEN skip ELSE repeat} ELSE {})

\* One sample of chan_process: the block of A first, then that of B, silence in "fill".
\* fifo_push drops the oldest sample when the FIFO is full.
Channel ==
    /\ at \in {"fill", "channel"}
    /\ LET m == IF moved < Blk THEN "A" ELSE "B" IN
       \E e \in EmitWithSlip(m) :
          /\ fifo' = [fifo EXCEPT ![m] = Least(FifoCap, @ + e[1])]
          /\ slip' = [slip EXCEPT ![m] = e[2]]
    /\ Advance(1, IF at = "fill" THEN "readA" ELSE "pop")
    /\ UNCHANGED <<slips, modems>>

\* A block from each FIFO; what is missing is made up with silence.
Pop ==
    /\ at = "pop" /\ at' = "writeB"
    /\ fifo' = [m \in Modems |-> fifo[m] - Least(fifo[m], Blk)]
    /\ UNCHANGED <<moved, slip, slips, modems>>

-----------------------------------------------------------------------------
(* The modems. *)

\* Mutation of Answer: the odd byte at the end of a read is forgotten.
AnswerForgets(m) ==
    /\ m \notin gone /\ at # "closed"
    /\ \E k \in 1..Least(Chunk, to[m]) :
          /\ to' = [to EXCEPT ![m] = @ - k]
          /\ from' = [from EXCEPT ![m] = Least(Sock, @ + (k - (k % 2)))]
    /\ UNCHANGED <<at, moved, channels, half, gone>>

\* One read of a modem: as many samples out as were completed by it, half a sample kept;
\* what the socket does not take is dropped.
Answer(m) ==
    /\ m \notin gone /\ at # "closed"
    /\ \E k \in 1..Least(Chunk, to[m]) :
          LET bytes == half[m] + k IN
          /\ to' = [to EXCEPT ![m] = @ - k]
          /\ from' = [from EXCEPT ![m] = Least(Sock, @ + (bytes - (bytes % 2)))]
          /\ half' = [half EXCEPT ![m] = bytes % 2]
    /\ UNCHANGED <<at, moved, channels, gone>>

\* A modem ends its session; what it has sent may be lost with it.
End(m) ==
    /\ m \notin gone /\ gone' = gone \cup {m}
    /\ from' \in {from, [from EXCEPT ![m] = 0]}
    /\ to' = [to EXCEPT ![m] = 0] /\ half' = [half EXCEPT ![m] = 0]
    /\ UNCHANGED <<at, moved, channels>>

Relay == Channel \/ Pop \/ \E m \in Modems : Read(m) \/ Write(m) \/ WriteInVain(m) \/ Close(m)
Next == Relay \/ \E m \in Modems : Answer(m) \/ End(m)

Spec == Init /\ [][Next]_vars

\* The relay's process and the threads of the modems run; the host of a modem that is gone
\* says so in the end (Close is all the relay can do at a read that nothing comes to).
FairSpec == Spec /\ WF_vars(Relay) /\ \A m \in Modems : WF_vars(Answer(m))

-----------------------------------------------------------------------------
(* Properties. *)

TypeOK ==
    /\ at \in Places
    /\ moved \in Nat
    /\ fifo \in [Modems -> Nat]
    /\ slip \in [Modems -> Int]
    /\ slips \in SUBSET Modems
    /\ to \in [Modems -> Nat]
    /\ from \in [Modems -> Nat]
    /\ half \in [Modems -> 0..1]
    /\ gone \in SUBSET Modems

\* What the relay holds of the block that belongs to a modem.
Held(m) ==
    CASE at \in {"channel", "pop"} -> BlkBytes
      [] at = ReadPlace(m) -> moved
      [] at \in WritePlaces(m) -> BlkBytes - moved
      [] at = "primeA" /\ m = "B" -> BlkBytes
      [] at = "readB" /\ m = "A" -> BlkBytes
      [] at = "writeB" /\ m = "A" -> BlkBytes
      [] OTHER -> 0

\* Between the relay and a modem exactly one block goes round: wherever TCP splits it and
\* however the three interleave, no byte of it is lost or doubled.  One sample less and the
\* relay would wait for the rest of a block for ever (line_sim.c:292), as the modem only
\* speaks when spoken to.
OneBlockEach ==
    at # "closed" => \A m \in Modems \ gone : Held(m) + to[m] + half[m] + from[m] = BlkBytes

\* What the FIFO of a channel has been given before it counts as level.
Cushion == IF SlipAny THEN Blk ELSE 0
Processed(m) ==
    IF at \notin {"fill", "channel"} THEN 0
    ELSE IF m = "A" THEN Least(moved, Blk) ELSE moved - Least(moved, Blk)
Level(m) ==
    CASE at \in {"primeA", "primeB"} -> 0
      [] at = "fill" -> Processed(m)
      [] at = "pop" -> Cushion + Blk
      [] OTHER -> Cushion + Processed(m)

\* The FIFO holds the cushion and the slip, to the sample: it never ran dry, which would
\* have put silence into the line, and never overflowed, which would have cut it
\* (channel.c:257, line_sim.c:298).  The delay of the line is bounded by this.
FifoFollowsSlip == at # "closed" => \A m \in Modems : fifo[m] = Level(m) + slip[m]

\* The line keeps turning: as long as both modems are there, the relay reads one block
\* after the other and never comes to wait for good (line_sim.c:291).
LineTurns ==
    /\ []<>(at = "readA" \/ gone # {})
    /\ []<>(at # "readA" \/ gone # {})

\* When one modem goes, the other one gets its line closed (line_sim.c:309).
EndReachesOther == (gone # {}) ~> (at = "closed")
=============================================================================
