------------------------- MODULE RegistrationProofs -------------------------
(* Safety of the REGISTER client for every value of its timers, lifetimes and *)
(* bounds.                                                                    *)
EXTENDS Registration, WellFoundedInduction, TLAPS

\* SendBudget is not inductive: it needs what the running timers say about the
\* time spent since the last transmission and until timer F.
TransactionClock ==
    reg_pending =>
        /\ age + reg_giveup = TimerF
        /\ reg_next_tx <= reg_rto
        /\ (sends - 1) * T1 + (reg_rto - reg_next_tx) <= age

IInv == TypeOK /\ TransactionClock /\ BackoffAfterRepeat

-----------------------------------------------------------------------------
(* Recursion: what the tables of the model are. *)

Less == {r \in Nat \X Nat : r[1] < r[2]}

\* Induction over the natural numbers, for a set.
LEMMA SetInduction ==
    ASSUME NEW S, 0 \in S, \A n \in Nat : n \in S => n + 1 \in S
    PROVE  Nat \subseteq S
<1>. DEFINE T == Nat \ S
<1>. SUFFICES ASSUME T # {} PROVE FALSE
  OBVIOUS
<1>1. IsWellFoundedOn(Less, Nat)
  BY NatLessThanWellFounded, Zenon DEF Less, OpToRel
<1>2. PICK x \in T : \A y \in T : ~ (<<y, x>> \in Less)
  BY <1>1, WFMin
<1>3. x # 0 /\ x - 1 \in T /\ x \in Nat
  BY <1>2
<1>4. <<x - 1, x>> \in Less
  BY <1>3 DEF Less
<1>. QED BY <1>2, <1>3, <1>4

\* f begins with first, and from there on follows step.
Follows(f, from, to, first, step) ==
    /\ f \in [from..to -> Int]
    /\ \A n \in from..to : f[n] = IF n = from THEN first ELSE step[<<n, f[n - 1]>>]

\* A table of integers, each entry made from the one before it, exists.
LEMMA Recursion ==
    ASSUME NEW first \in Int, NEW step \in [Nat \X Int -> Int], NEW from \in Nat, NEW to \in Nat
    PROVE  \E f : Follows(f, from, to, first, step)
<1>. DEFINE S == {k \in Nat : \E f : Follows(f, from, from + k - 1, first, step)}
<1>1. 0 \in S
  <2>1. Follows([n \in from..(from + 0 - 1) |-> 0], from, from + 0 - 1, first, step)
    BY DEF Follows
  <2>. QED BY <2>1
<1>2. ASSUME NEW k \in Nat, k \in S PROVE k + 1 \in S
  <2>. DEFINE to1 == from + k - 1
  <2>1. PICK f : Follows(f, from, to1, first, step)
    BY <1>2
  <2>. DEFINE next == IF k = 0 THEN first ELSE step[<<to1 + 1, f[to1]>>]
              g == [n \in from..(to1 + 1) |-> IF n <= to1 THEN f[n] ELSE next]
  <2>2. next \in Int
    BY <2>1 DEF Follows
  <2>3. ASSUME NEW n \in from..(to1 + 1)
        PROVE  g[n] \in Int /\ g[n] = IF n = from THEN first ELSE step[<<n, g[n - 1]>>]
    <3>1. /\ n <= to1 => g[n] = f[n] /\ n \in from..to1
          /\ n = to1 + 1 => g[n] = next
          /\ n # from => g[n - 1] = f[n - 1]
          /\ n <= to1 \/ n = to1 + 1
      OBVIOUS
    <3>2. n = to1 + 1 => next = IF n = from THEN first ELSE step[<<n, f[n - 1]>>]
      OBVIOUS
    <3>. HIDE DEF g, next
    <3>3. CASE n <= to1
      BY <2>1, <3>1, <3>3 DEF Follows
    <3>4. CASE n = to1 + 1
      BY <2>2, <3>1, <3>2, <3>4
    <3>. QED BY <3>1, <3>3, <3>4
  <2>4. Follows(g, from, to1 + 1, first, step)
    BY <2>3 DEF Follows
  <2>5. to1 + 1 = from + (k + 1) - 1 /\ k + 1 \in Nat
    OBVIOUS
  <2>6. \E f1 : Follows(f1, from, from + (k + 1) - 1, first, step)
    <3>. HIDE DEF to1, g
    <3>. QED BY <2>4, <2>5
  <2>. QED BY <2>5, <2>6
<1>3. Nat \subseteq S
  <2>. HIDE DEF S
  <2>. QED BY <1>1, <1>2, SetInduction
<1>4. CASE from <= to
  <2>1. (to + 1) - from \in Nat /\ from + ((to + 1) - from) - 1 = to
    BY <1>4
  <2>2. (to + 1) - from \in S
    <3>. HIDE DEF S
    <3>. QED BY <1>3, <2>1
  <2>. QED BY <2>1, <2>2
<1>5. CASE ~(from <= to)
  <2>1. Follows([n \in from..to |-> 0], from, to, first, step)
    BY <1>5 DEF Follows
  <2>. QED BY <2>1
<1>. QED BY <1>4, <1>5

\* The waits of timer E are integers and follow their recursion.
LEMMA WaitFacts ==
    /\ Wait[1] = T1
    /\ \A n \in 1..TimerF : Wait[n + 1] = Least(2 * Wait[n], T2)
    /\ \A n \in 1..(TimerF + 1) : Wait[n] \in Int
<1>. DEFINE N == TimerF + 1
            step == [p \in Nat \X Int |-> Least(2 * p[2], T2)]
            Waits(f) == f = [n \in 1..N |-> IF n = 1 THEN T1 ELSE Least(2 * f[n - 1], T2)]
<1>1. T1 \in Int /\ T2 \in Int /\ N \in Nat /\ N >= 1 /\ step \in [Nat \X Int -> Int]
  BY TimerAssumption DEF Least
<1>2. PICK f : Follows(f, 1, N, T1, step)
  <2>. HIDE DEF N, step
  <2>. QED BY <1>1, Recursion
<1>3. \A n \in 1..N : f[n] = IF n = 1 THEN T1 ELSE Least(2 * f[n - 1], T2)
  <2>1. \A n \in 1..N : n # 1 => f[n - 1] \in Int
    BY <1>1, <1>2 DEF Follows
  <2>2. \A n \in 1..N : n # 1 => step[<<n, f[n - 1]>>] = Least(2 * f[n - 1], T2)
    BY <2>1
  <2>. HIDE DEF step
  <2>. QED BY <1>2, <2>2 DEF Follows
<1>4. Waits(f)
  <2>1. f = [n \in 1..N |-> f[n]]
    BY <1>2 DEF Follows
  <2>. QED BY <1>3, <2>1
<1>5. Waits(Wait)
  BY <1>4 DEF Wait
<1>6. \A n \in 1..N : Wait[n] = IF n = 1 THEN T1 ELSE Least(2 * Wait[n - 1], T2)
  <2>. HIDE DEF N
  <2>. QED BY <1>5
<1>7. Wait[1] = T1 /\ \A n \in 1..TimerF : Wait[n + 1] = Least(2 * Wait[n], T2)
  BY <1>1, <1>6, TimerAssumption
<1>. DEFINE S == {n \in Nat : n < N => Wait[n + 1] \in Int}
<1>8. 0 \in S
  BY <1>1, <1>7
<1>9. ASSUME NEW n \in Nat, n \in S PROVE n + 1 \in S
  BY <1>1, <1>7, <1>9, TimerAssumption DEF Least
<1>10. Nat \subseteq S
  <2>. HIDE DEF S
  <2>. QED BY <1>8, <1>9, SetInduction
<1>11. ASSUME NEW n \in 1..N PROVE Wait[n] \in Int
  <2>1. n - 1 \in S /\ n - 1 < N /\ (n - 1) + 1 = n
    BY <1>1, <1>10
  <2>. QED BY <2>1
<1>. QED BY <1>7, <1>11

\* The transmissions are a wait apart.
LEMMA SendTimeFacts ==
    /\ SendTime[1] = 0
    /\ \A n \in 1..TimerF : SendTime[n + 1] = SendTime[n] + Wait[n]
<1>. DEFINE N == TimerF + 1
            gap == [n \in Nat |-> IF n - 1 \in 1..N THEN Wait[n - 1] ELSE 0]
            step == [p \in Nat \X Int |-> p[2] + gap[p[1]]]
            Sends(f) == f = [n \in 1..N |-> IF n = 1 THEN 0 ELSE f[n - 1] + Wait[n - 1]]
<1>1. N \in Nat /\ N >= 1 /\ gap \in [Nat -> Int]
  BY TimerAssumption, WaitFacts
<1>2. step \in [Nat \X Int -> Int]
  <2>. HIDE DEF gap
  <2>. QED BY <1>1
<1>3. PICK f : Follows(f, 1, N, 0, step)
  <2>. HIDE DEF N, step
  <2>. QED BY <1>1, <1>2, Recursion
<1>4. \A n \in 1..N : f[n] = IF n = 1 THEN 0 ELSE f[n - 1] + Wait[n - 1]
  <2>1. \A n \in 1..N : n # 1 => f[n - 1] \in Int /\ gap[n] = Wait[n - 1]
    BY <1>1, <1>3 DEF Follows
  <2>2. \A n \in 1..N : n # 1 => step[<<n, f[n - 1]>>] = f[n - 1] + gap[n]
    <3>. HIDE DEF gap
    <3>. QED BY <1>1, <2>1
  <2>. HIDE DEF step, gap
  <2>. QED BY <1>3, <2>1, <2>2 DEF Follows
<1>5. Sends(f)
  <2>1. f = [n \in 1..N |-> f[n]]
    BY <1>3 DEF Follows
  <2>. QED BY <1>4, <2>1
<1>6. Sends(SendTime)
  BY <1>5 DEF SendTime
<1>7. \A n \in 1..N : SendTime[n] = IF n = 1 THEN 0 ELSE SendTime[n - 1] + Wait[n - 1]
  <2>. HIDE DEF N
  <2>. QED BY <1>6
<1>. QED BY <1>1, <1>7, TimerAssumption

\* A shifted second doubles with each place, and is an integer.
LEMMA ShiftedFacts ==
    /\ Shifted[0] = Second
    /\ \A shift \in 1..CapShift : Shifted[shift] = 2 * Shifted[shift - 1]
    /\ \A shift \in 0..CapShift : Shifted[shift] \in Int /\ Shifted[shift] >= 1
<1>. DEFINE step == [p \in Nat \X Int |-> 2 * p[2]]
            Shifts(f) ==
                f = [shift \in 0..CapShift |-> IF shift = 0 THEN Second ELSE 2 * f[shift - 1]]
<1>1. Second \in Int /\ Second >= 1 /\ CapShift \in Nat /\ step \in [Nat \X Int -> Int]
  BY TimerAssumption, BackoffAssumption
<1>2. PICK f : Follows(f, 0, CapShift, Second, step)
  <2>. HIDE DEF step
  <2>. QED BY <1>1, Recursion
<1>3. \A n \in 0..CapShift : f[n] = IF n = 0 THEN Second ELSE 2 * f[n - 1]
  <2>1. \A n \in 0..CapShift : n # 0 => f[n - 1] \in Int
    BY <1>1, <1>2 DEF Follows
  <2>2. \A n \in 0..CapShift : n # 0 => step[<<n, f[n - 1]>>] = 2 * f[n - 1]
    BY <2>1
  <2>. HIDE DEF step
  <2>. QED BY <1>2, <2>2 DEF Follows
<1>4. Shifts(f)
  <2>1. f = [n \in 0..CapShift |-> f[n]]
    BY <1>2 DEF Follows
  <2>. QED BY <1>3, <2>1
<1>5. Shifts(Shifted)
  BY <1>4 DEF Shifted
<1>6. \A n \in 0..CapShift : Shifted[n] = IF n = 0 THEN Second ELSE 2 * Shifted[n - 1]
  BY <1>5
<1>7. Shifted[0] = Second /\ \A n \in 1..CapShift : Shifted[n] = 2 * Shifted[n - 1]
  BY <1>1, <1>6
<1>. DEFINE S == {n \in Nat : n <= CapShift => Shifted[n] \in Int /\ Shifted[n] >= 1}
<1>8. 0 \in S
  BY <1>1, <1>7
<1>9. ASSUME NEW n \in Nat, n \in S PROVE n + 1 \in S
  BY <1>1, <1>7, <1>9
<1>10. Nat \subseteq S
  <2>. HIDE DEF S
  <2>. QED BY <1>8, <1>9, SetInduction
<1>11. \A n \in 0..CapShift : Shifted[n] \in Int /\ Shifted[n] >= 1
  BY <1>1, <1>10
<1>. QED BY <1>7, <1>11

-----------------------------------------------------------------------------
(* Lemmas about the operators of the model. *)

\* What is in flight stays a bag of exchanges when one is added, removed, or
\* when a new transaction outdates the others.
LEMMA FlightType ==
    ASSUME NEW f \in [Exchange -> Nat], NEW x \in Exchange
    PROVE  /\ Transmit(f, x) \in [Exchange -> Nat]
           /\ f[x] > 0 => Consume(f, x) \in [Exchange -> Nat]
           /\ Outdate(f) \in [Exchange -> Nat]
<1>1. Transmit(f, x) \in [Exchange -> Nat]
  <2>1. f[x] + 1 \in Nat
    OBVIOUS
  <2> QED
    BY <2>1 DEF Transmit
<1>2. ASSUME f[x] > 0 PROVE Consume(f, x) \in [Exchange -> Nat]
  <2>1. f[x] - 1 \in Nat
    BY <1>2
  <2> QED
    BY <2>1 DEF Consume
<1>3. Outdate(f) \in [Exchange -> Nat]
  <2>1. ASSUME NEW y \in Exchange
        PROVE  (IF y.cur THEN 0 ELSE f[y] + f[[auth |-> y.auth, cur |-> TRUE]]) \in Nat
    <3>1. [auth |-> y.auth, cur |-> TRUE] \in Exchange
      BY DEF Exchange
    <3>2. f[y] \in Nat /\ f[[auth |-> y.auth, cur |-> TRUE]] \in Nat
      BY <3>1
    <3> QED
      BY <3>2
  <2> QED
    BY <2>1 DEF Outdate
<1> QED
  BY <1>1, <1>2, <1>3

\* The backoff is positive and never above its cap.
LEMMA BackoffDelayType ==
    ASSUME NEW n \in Nat, n >= 2
    PROVE  BackoffDelay(n) \in 1..BackoffCap
<1>1. (n - 2) % 64 \in 0..63
  OBVIOUS
<1>2. CASE (n - 2) % 64 >= CapShift
  BY <1>2, BackoffAssumption DEF BackoffDelay, LongBits
<1>3. CASE ~ ((n - 2) % 64 >= CapShift)
  <2>1. (n - 2) % 64 \in 0..(CapShift - 1)
    BY <1>1, <1>3, BackoffAssumption
  <2> QED
    BY <1>3, <2>1, BackoffAssumption, ShiftedFacts DEF BackoffDelay, LongBits
<1> QED
  BY <1>2, <1>3

\* Up to the width of long, a further challenge in a row is never answered sooner.
LEMMA BackoffDelayGrows ==
    ASSUME NEW n \in Nat, n >= 2, n <= LongBits
    PROVE  BackoffDelay(n) <= BackoffDelay(n + 1)
<1>. DEFINE shift == n - 2
<1>1. shift \in 0..62 /\ shift % 64 = shift /\ (shift + 1) % 64 = shift + 1
  BY DEF LongBits
<1>2. /\ BackoffDelay(n) = IF shift >= CapShift THEN BackoffCap ELSE Shifted[shift]
      /\ BackoffDelay(n + 1) =
            IF shift + 1 >= CapShift THEN BackoffCap ELSE Shifted[shift + 1]
  <2>1. (n + 1) - 2 = shift + 1
    OBVIOUS
  <2>. QED BY <1>1, <2>1 DEF BackoffDelay, LongBits
<1>3. CASE shift >= CapShift
  BY <1>1, <1>2, <1>3, BackoffAssumption
<1>4. CASE shift < CapShift /\ shift + 1 >= CapShift
  BY <1>1, <1>2, <1>4, BackoffAssumption
<1>5. CASE shift + 1 < CapShift
  <2>1. Shifted[shift + 1] = 2 * Shifted[shift] /\ Shifted[shift] \in Int /\ Shifted[shift] >= 1
    BY <1>1, <1>5, ShiftedFacts, BackoffAssumption
  <2>. QED BY <1>1, <1>2, <1>5, <2>1, BackoffAssumption
<1>. QED BY <1>1, <1>3, <1>4, <1>5, BackoffAssumption

\* Opening a transaction leaves it well typed and on its clock.
LEMMA DoRegisterOpens ==
    ASSUME NEW f \in [Exchange -> Nat], NEW creds \in BOOLEAN, DoRegister(creds, f)
    PROVE  /\ reg_pending' \in BOOLEAN /\ reg_auth' \in BOOLEAN
           /\ reg_rto' \in T1..T2 /\ reg_next_tx' \in 0..T2 /\ reg_giveup' \in 0..TimerF
           /\ age' \in Nat /\ sends' \in Nat \ {0}
           /\ flight' \in [Exchange -> Nat]
           /\ TransactionClock'
<1> DEFINE x == [auth |-> creds /\ HasPassword, cur |-> TRUE]
<1>1. x \in Exchange
  BY EnvironmentAssumption DEF Exchange
<1>2. Outdate(f) \in [Exchange -> Nat]
  BY <1>1, FlightType
<1>3. flight' \in [Exchange -> Nat]
  <2>1. flight' = Transmit(Outdate(f), x)
    BY DEF DoRegister
  <2> QED
    BY <1>1, <1>2, <2>1, FlightType
<1>4. reg_auth' \in BOOLEAN
  BY EnvironmentAssumption DEF DoRegister
<1>5. /\ reg_pending' /\ reg_pending' \in BOOLEAN
      /\ reg_rto' = T1 /\ reg_next_tx' = T1 /\ reg_giveup' = TimerF
      /\ age' = 0 /\ sends' = 1
  BY DEF DoRegister
<1>6. reg_rto' \in T1..T2 /\ reg_next_tx' \in 0..T2 /\ reg_giveup' \in 0..TimerF
  BY <1>5, TimerAssumption
<1>7. TransactionClock'
  BY <1>5, TimerAssumption DEF TransactionClock
<1>8. age' \in Nat /\ sends' \in Nat \ {0}
  BY <1>5
<1> QED
  BY <1>3, <1>4, <1>5, <1>6, <1>7, <1>8

-----------------------------------------------------------------------------
(* The inductive invariant. *)

\* The initial state satisfies the invariant.
LEMMA InitIInv == Init => IInv
<1> SUFFICES ASSUME Init PROVE IInv
  OBVIOUS
<1>1. flight \in [Exchange -> Nat]
  <2>1. [x \in Exchange |-> 0] \in [Exchange -> Nat]
    OBVIOUS
  <2>2. [auth |-> FALSE, cur |-> TRUE] \in Exchange
    BY DEF Exchange
  <2> QED
    BY <2>1, <2>2, FlightType DEF Init
<1>2. TypeOK
  <2>1. {reg_pending, reg_auth, auth_retry_pending, registered} \subseteq BOOLEAN
    BY DEF Init
  <2>2. reg_rto \in T1..T2 /\ reg_next_tx \in 0..T2 /\ reg_giveup \in 0..TimerF
    BY TimerAssumption DEF Init
  <2>3. auth_fail_count \in 0..MaxFail /\ auth_retry_at \in 0..BackoffCap
    BY BackoffAssumption, EnvironmentAssumption DEF Init
  <2>4. reg_deadline \in Nat /\ age \in Nat /\ sends \in Nat \ {0} /\ renewals \in 0..2
    BY LifetimeAssumption DEF Init
  <2> QED
    BY <1>1, <2>1, <2>2, <2>3, <2>4 DEF TypeOK
<1>3. TransactionClock /\ BackoffAfterRepeat
  BY TimerAssumption DEF Init, TransactionClock, BackoffAfterRepeat
<1> QED
  BY <1>2, <1>3 DEF IInv

\* What a pass of the loop leaves alone when it only opens a transaction.
LEMMA OpenKeepsIInv ==
    ASSUME IInv, NEW f \in [Exchange -> Nat], NEW creds \in BOOLEAN,
           DoRegister(creds, f),
           UNCHANGED <<auth_fail_count, auth_retry_at, registered, reg_deadline>>,
           auth_retry_pending' \in {auth_retry_pending, FALSE},
           renewals' \in 0..2
    PROVE  IInv'
<1>1. TypeOK'
  BY DoRegisterOpens DEF IInv, TypeOK
<1>2. BackoffAfterRepeat'
  <2>1. auth_retry_pending' => auth_retry_pending
    BY DEF IInv, TypeOK
  <2> QED
    BY <2>1 DEF IInv, BackoffAfterRepeat, BackoffDelay
<1> QED
  BY <1>1, <1>2, DoRegisterOpens DEF IInv

\* A timer of the main loop keeps it.
LEMMA ServeKeepsIInv == IInv /\ TimerPass => IInv'
<1> SUFFICES ASSUME IInv, TimerPass PROVE IInv'
  OBVIOUS
<1>0. flight \in [Exchange -> Nat] /\ registered \in BOOLEAN /\ renewals \in 0..2
  BY DEF IInv, TypeOK
<1>1. CASE ServeBackoff
  BY <1>0, <1>1, OpenKeepsIInv DEF ServeBackoff
<1>2. CASE ServeGiveup
  BY <1>0, <1>2, OpenKeepsIInv DEF ServeGiveup, backoff
<1>3. CASE ServeRenewal
  <2>1. renewals' \in 0..2
    BY <1>0, <1>3 DEF ServeRenewal, Least
  <2> QED
    BY <1>0, <1>3, <2>1, OpenKeepsIInv DEF ServeRenewal, backoff
<1>4. CASE ServeRetransmit
  <2>1. /\ reg_pending /\ reg_next_tx = 0
        /\ reg_pending' = reg_pending /\ reg_auth' = reg_auth
        /\ reg_giveup' = reg_giveup /\ age' = age /\ sends' = sends + 1
        /\ reg_rto' = Least(2 * reg_rto, T2) /\ reg_next_tx' = reg_rto'
        /\ flight' = Transmit(flight, [auth |-> reg_auth, cur |-> TRUE])
        /\ UNCHANGED <<backoff, registered, reg_deadline, renewals>>
    BY <1>4 DEF ServeRetransmit, RetransmitRegister, NextTxDue
  <2>2. flight' \in [Exchange -> Nat]
    <3>1. [auth |-> reg_auth, cur |-> TRUE] \in Exchange
      BY DEF Exchange, IInv, TypeOK
    <3> QED
      BY <1>0, <2>1, <3>1, FlightType
  <2>3. reg_rto' \in T1..T2 /\ reg_next_tx' \in 0..T2
    <3>1. reg_rto \in T1..T2
      BY DEF IInv, TypeOK
    <3> QED
      BY <2>1, <3>1, TimerAssumption DEF Least
  <2>4. TypeOK'
    <3>1. {reg_pending', reg_auth', auth_retry_pending', registered'} \subseteq BOOLEAN
      BY <2>1 DEF IInv, TypeOK, backoff
    <3>2. sends' \in Nat \ {0} /\ age' \in Nat /\ reg_giveup' \in 0..TimerF
      BY <2>1 DEF IInv, TypeOK
    <3>3. /\ auth_fail_count' \in 0..MaxFail /\ auth_retry_at' \in 0..BackoffCap
          /\ reg_deadline' \in Nat /\ renewals' \in 0..2
      BY <2>1 DEF IInv, TypeOK, backoff
    <3> QED
      BY <2>2, <2>3, <3>1, <3>2, <3>3 DEF TypeOK
  <2>5. TransactionClock'
    <3>1. /\ age + reg_giveup = TimerF
          /\ (sends - 1) * T1 + reg_rto <= age
          /\ reg_rto \in T1..T2 /\ sends \in Nat /\ age \in Nat
      BY <2>1, TimerAssumption DEF IInv, TypeOK, TransactionClock
    <3>2. (sends' - 1) * T1 = (sends - 1) * T1 + T1
      BY <2>1, <3>1, TimerAssumption
    <3>3. (sends - 1) * T1 \in Int
      BY <3>1, TimerAssumption
    <3>4. (sends' - 1) * T1 <= age
      BY <3>1, <3>2, <3>3, TimerAssumption
    <3>5. (sends' - 1) * T1 \in Int /\ reg_rto' \in Int
      BY <2>3, <3>2, <3>3, TimerAssumption
    <3> QED
      BY <2>1, <3>1, <3>4, <3>5 DEF TransactionClock
  <2>6. BackoffAfterRepeat'
    BY <2>1 DEF IInv, BackoffAfterRepeat, BackoffDelay, backoff
  <2> QED
    BY <2>4, <2>5, <2>6 DEF IInv
<1> QED
  BY <1>1, <1>2, <1>3, <1>4 DEF TimerPass

\* Any answer to a REGISTER keeps it.
LEMMA ReceiveKeepsIInv ==
    ASSUME IInv, NEW x \in Exchange
    PROVE  /\ RecvChallenge(x) => IInv'
           /\ \A grant \in Grants : RecvAccept(x, grant) => IInv'
           /\ RecvOther(x) => IInv'
           /\ Lose(x) => IInv'
<1>0. flight \in [Exchange -> Nat] /\ auth_fail_count \in 0..MaxFail
  BY DEF IInv, TypeOK
<1>1. flight[x] > 0 => Consume(flight, x) \in [Exchange -> Nat]
  BY <1>0, FlightType
<1>2. ASSUME RecvChallenge(x) PROVE IInv'
  <2>0. /\ auth_fail_count' = Least(auth_fail_count + 1, MaxFail)
        /\ Consume(flight, x) \in [Exchange -> Nat]
        /\ UNCHANGED <<registered, reg_deadline, renewals>>
    BY <1>1, <1>2 DEF RecvChallenge
  <2>1. auth_fail_count' \in 0..MaxFail /\ auth_fail_count' >= auth_fail_count
    BY <1>0, <2>0, EnvironmentAssumption DEF Least
  <2>2. CASE auth_fail_count' <= 1
    <3>1. /\ DoRegister(TRUE, Consume(flight, x))
          /\ UNCHANGED <<auth_retry_pending, auth_retry_at>>
      BY <1>2, <2>2 DEF RecvChallenge
    <3>2. ~ auth_retry_pending
      BY <1>0, <2>1, <2>2 DEF IInv, BackoffAfterRepeat
    <3>3. TypeOK'
      BY <2>0, <2>1, <3>1, DoRegisterOpens DEF IInv, TypeOK
    <3>4. BackoffAfterRepeat'
      BY <3>1, <3>2 DEF BackoffAfterRepeat
    <3> QED
      BY <2>0, <3>1, <3>3, <3>4, DoRegisterOpens DEF IInv
  <2>3. CASE ~ (auth_fail_count' <= 1)
    <3>1. /\ reg_pending' = FALSE /\ auth_retry_pending' = TRUE
          /\ auth_retry_at' = BackoffDelay(auth_fail_count')
          /\ flight' = Consume(flight, x)
          /\ UNCHANGED <<reg_rto, reg_next_tx, reg_giveup, reg_auth, age, sends>>
      BY <1>2, <2>3 DEF RecvChallenge
    <3>2. auth_fail_count' \in Nat /\ auth_fail_count' >= 2
      BY <2>1, <2>3, EnvironmentAssumption
    <3>3. auth_retry_at' \in 1..BackoffCap
      BY <3>1, <3>2, BackoffDelayType
    <3>4. auth_retry_at' \in 0..BackoffCap
      BY <3>3, BackoffAssumption
    <3>5. TypeOK'
      BY <2>0, <2>1, <3>1, <3>4 DEF IInv, TypeOK
    <3>6. TransactionClock'
      BY <3>1 DEF TransactionClock
    <3>7. BackoffAfterRepeat'
      <4>1. auth_retry_at' <= auth_retry_at'
        BY <3>3, BackoffAssumption
      <4> QED
        BY <3>1, <3>2, <4>1 DEF BackoffAfterRepeat, BackoffDelay
    <3> QED
      BY <3>5, <3>6, <3>7 DEF IInv
  <2> QED
    BY <2>2, <2>3
<1>3. ASSUME NEW grant \in Grants, RecvAccept(x, grant) PROVE IInv'
  <2>1. /\ reg_pending' = FALSE /\ registered' = TRUE /\ auth_fail_count' = 0
        /\ auth_retry_pending' = FALSE /\ reg_deadline' = grant
        /\ flight' \in [Exchange -> Nat]
        /\ UNCHANGED <<reg_rto, reg_next_tx, reg_giveup, reg_auth, age, sends,
                       auth_retry_at, renewals>>
    BY <1>1, <1>3 DEF RecvAccept
  <2>2. auth_fail_count' \in 0..MaxFail /\ reg_deadline' \in Nat
    BY <2>1, EnvironmentAssumption, LifetimeAssumption
  <2>3. TypeOK'
    BY <2>1, <2>2 DEF IInv, TypeOK
  <2> QED
    BY <2>1, <2>3 DEF IInv, TransactionClock, BackoffAfterRepeat
<1>4. ASSUME RecvOther(x) PROVE IInv'
  <2>1. /\ reg_pending' = FALSE
        /\ flight' \in [Exchange -> Nat]
        /\ UNCHANGED <<reg_rto, reg_next_tx, reg_giveup, reg_auth, age, sends,
                       backoff, registered, reg_deadline, renewals>>
    BY <1>0, <1>1, <1>4 DEF RecvOther
  <2>2. TypeOK'
    BY <2>1 DEF IInv, TypeOK, backoff
  <2>3. TransactionClock'
    BY <2>1 DEF TransactionClock
  <2>4. BackoffAfterRepeat'
    BY <2>1 DEF IInv, BackoffAfterRepeat, BackoffDelay, backoff
  <2> QED
    BY <2>2, <2>3, <2>4 DEF IInv
<1>5. ASSUME Lose(x) PROVE IInv'
  <2>1. /\ flight' \in [Exchange -> Nat]
        /\ UNCHANGED <<transaction, backoff, registered, reg_deadline, renewals>>
    BY <1>1, <1>5 DEF Lose
  <2> QED
    BY <2>1 DEF IInv, TypeOK, TransactionClock, BackoffAfterRepeat, BackoffDelay,
                transaction, backoff
<1> QED
  BY <1>2, <1>3, <1>4, <1>5

\* The passing of time keeps it.
LEMMA TickKeepsIInv == IInv /\ Tick => IInv'
<1> SUFFICES ASSUME IInv, Tick PROVE IInv'
  OBVIOUS
<1>1. /\ ~Due
      /\ reg_next_tx' = Elapse(reg_next_tx) /\ reg_giveup' = Elapse(reg_giveup)
      /\ auth_retry_at' = Elapse(auth_retry_at) /\ reg_deadline' = Elapse(reg_deadline)
      /\ age' = (IF reg_pending THEN age + 1 ELSE age)
      /\ renewals' = 0
      /\ UNCHANGED <<reg_pending, reg_rto, reg_auth, auth_fail_count,
                     auth_retry_pending, registered, flight, sends>>
  BY DEF Tick
<1>2. reg_next_tx' \in 0..T2 /\ reg_giveup' \in 0..TimerF /\ reg_deadline' \in Nat
  BY <1>1, TimerAssumption DEF IInv, TypeOK, Elapse
<1>3. auth_retry_at' \in 0..BackoffCap /\ auth_retry_at' <= auth_retry_at
  BY <1>1, BackoffAssumption DEF IInv, TypeOK, Elapse
<1>4. age' \in Nat
  BY <1>1 DEF IInv, TypeOK
<1>5. TypeOK'
  BY <1>1, <1>2, <1>3, <1>4 DEF IInv, TypeOK
<1>6. TransactionClock'
  <2> SUFFICES ASSUME reg_pending
               PROVE  /\ age' + reg_giveup' = TimerF
                      /\ reg_next_tx' <= reg_rto
                      /\ (sends - 1) * T1 + (reg_rto - reg_next_tx') <= age'
    BY <1>1 DEF TransactionClock
  <2>1. reg_next_tx # 0 /\ reg_giveup # 0
    BY <1>1 DEF Due, GiveupDue, NextTxDue
  <2>2. /\ reg_next_tx \in Nat /\ reg_giveup \in Nat /\ age \in Nat
        /\ reg_rto \in Int /\ sends \in Nat
    BY TimerAssumption DEF IInv, TypeOK
  <2>3. /\ reg_next_tx' = reg_next_tx - 1 /\ reg_giveup' = reg_giveup - 1
        /\ age' = age + 1
    BY <1>1, <2>1, <2>2 DEF Elapse
  <2>4. /\ age + reg_giveup = TimerF
        /\ reg_next_tx <= reg_rto
        /\ (sends - 1) * T1 + (reg_rto - reg_next_tx) <= age
    BY DEF IInv, TransactionClock
  <2>5. (sends - 1) * T1 \in Int
    BY <2>2, TimerAssumption
  <2> QED
    BY <2>2, <2>3, <2>4, <2>5
<1>7. BackoffAfterRepeat'
  <2> SUFFICES ASSUME auth_retry_pending
               PROVE  /\ auth_fail_count >= 2
                      /\ auth_retry_at' <= BackoffDelay(auth_fail_count)
    BY <1>1 DEF BackoffAfterRepeat, BackoffDelay
  <2>1. auth_fail_count \in Nat /\ auth_retry_at \in Nat /\ auth_retry_at' \in Nat
    BY <1>3, BackoffAssumption, EnvironmentAssumption DEF IInv, TypeOK
  <2>2. auth_fail_count >= 2 /\ auth_retry_at <= BackoffDelay(auth_fail_count)
    BY DEF IInv, BackoffAfterRepeat
  <2>3. BackoffDelay(auth_fail_count) \in 1..BackoffCap
    BY <2>1, <2>2, BackoffDelayType
  <2> QED
    BY <1>3, <2>1, <2>2, <2>3, BackoffAssumption
<1> QED
  BY <1>5, <1>6, <1>7 DEF IInv

\* Every step keeps it.
LEMMA NextKeepsIInv == IInv /\ [Next]_vars => IInv'
<1> SUFFICES ASSUME IInv, [Next]_vars PROVE IInv'
  OBVIOUS
<1>1. CASE TimerPass
  BY <1>1, ServeKeepsIInv
<1>2. CASE Tick
  BY <1>2, TickKeepsIInv
<1>3. CASE \E x \in Exchange : RecvChallenge(x) \/ RecvOther(x) \/ Lose(x)
  BY <1>3, ReceiveKeepsIInv
<1>4. CASE Accept
  BY <1>4, ReceiveKeepsIInv DEF Accept
<1>5. CASE UNCHANGED vars
  BY <1>5 DEF IInv, TypeOK, TransactionClock, BackoffAfterRepeat, BackoffDelay,
              vars, transaction, backoff
<1> QED
  BY <1>1, <1>2, <1>3, <1>4, <1>5 DEF Next

-----------------------------------------------------------------------------
(* The theorems. *)

\* The inductive invariant holds in every reachable state.
THEOREM RegistrationInvariant == Spec => []IInv
  BY InitIInv, NextKeepsIInv, PTL DEF Spec

\* Every variable stays in its range for any timers, lifetimes and bounds.
THEOREM RegistrationTypes == Spec => []TypeOK
<1>1. IInv => TypeOK
  BY DEF IInv
<1> QED
  BY <1>1, RegistrationInvariant, PTL

\* One REGISTER transaction never outlives timer F, and every retransmission of it
\* is at least T1 after the transmission before it.
THEOREM RegistrationSendBudget == Spec => []SendBudget
<1>1. IInv => SendBudget
  <2> SUFFICES ASSUME IInv, reg_pending
               PROVE  (sends - 1) * T1 <= age /\ age <= TimerF
    BY DEF SendBudget
  <2>1. /\ sends \in Nat /\ age \in Nat /\ reg_giveup \in Nat
        /\ reg_rto \in Int /\ reg_next_tx \in Int
    BY TimerAssumption DEF IInv, TypeOK
  <2>2. (sends - 1) * T1 \in Int
    BY <2>1, TimerAssumption
  <2> QED
    BY <2>1, <2>2, TimerAssumption DEF IInv, TransactionClock
<1> QED
  BY <1>1, RegistrationInvariant, PTL

\* A backoff runs only after a repeated challenge and never longer than the
\* challenge asked for, at most BackoffCap.
THEOREM RegistrationBackoff == Spec => []BackoffAfterRepeat
<1>1. IInv => BackoffAfterRepeat
  BY DEF IInv
<1> QED
  BY <1>1, RegistrationInvariant, PTL

\* As long as the count of challenges in a row stays within the width of long, a
\* further challenge is never answered sooner than the one before (sip_interface.c:305).
THEOREM RegistrationBackoffGrows == MaxFail <= LongBits + 1 => (Spec => BackoffNeverShrinks)
<1>. SUFFICES ASSUME MaxFail <= LongBits + 1 PROVE Spec => BackoffNeverShrinks
  OBVIOUS
<1>1. IInv /\ [Next]_vars =>
        [ /\ auth_fail_count >= 2
          /\ auth_fail_count' > auth_fail_count
          => auth_retry_at' >= BackoffDelay(auth_fail_count) ]_vars
  <2>. SUFFICES ASSUME IInv, [Next]_vars, auth_fail_count >= 2,
                       auth_fail_count' > auth_fail_count
                PROVE  auth_retry_at' >= BackoffDelay(auth_fail_count)
    OBVIOUS
  <2>1. auth_fail_count \in 0..MaxFail /\ auth_fail_count \in Nat
    BY EnvironmentAssumption DEF IInv, TypeOK
  <2>2. PICK x \in Exchange : RecvChallenge(x)
    <3>1. CASE TimerPass
      <4>1. auth_fail_count' = auth_fail_count
        BY <3>1 DEF TimerPass, ServeBackoff, ServeGiveup, ServeRetransmit, ServeRenewal, backoff
      <4>. QED BY <2>1, <4>1
    <3>2. CASE Accept
      BY <2>1, <3>2 DEF Accept, RecvAccept
    <3>3. CASE \E x \in Exchange : RecvOther(x) \/ Lose(x)
      BY <2>1, <3>3 DEF RecvOther, Lose, backoff
    <3>4. CASE Tick \/ UNCHANGED vars
      BY <2>1, <3>4 DEF Tick, vars, backoff
    <3>. QED BY <3>1, <3>2, <3>3, <3>4 DEF Next
  <2>3. auth_fail_count' = Least(auth_fail_count + 1, MaxFail)
    BY <2>2 DEF RecvChallenge
  <2>4. auth_fail_count' = auth_fail_count + 1 /\ auth_fail_count <= LongBits
    BY <2>1, <2>3, EnvironmentAssumption DEF Least, LongBits
  <2>7. auth_retry_at' = BackoffDelay(auth_fail_count')
    <3>1. ~(auth_fail_count' <= 1)
      BY <2>1, <2>4
    <3>. QED BY <2>2, <3>1 DEF RecvChallenge
  <2>5. /\ BackoffDelay(auth_fail_count) \in 1..BackoffCap
        /\ BackoffDelay(auth_fail_count + 1) \in 1..BackoffCap
    BY <2>1, BackoffDelayType
  <2>6. BackoffDelay(auth_fail_count) <= BackoffDelay(auth_fail_count + 1)
    BY <2>1, <2>4, BackoffDelayGrows
  <2>. QED BY <2>4, <2>5, <2>6, <2>7, BackoffAssumption
<1>. QED BY <1>1, RegistrationInvariant, PTL DEF Spec, BackoffNeverShrinks

-----------------------------------------------------------------------------
(* The schedule of timer E. *)

\* Where the current transaction stands on the schedule: its running wait began with
\* its last transmission.
ScheduleClock ==
    reg_pending =>
        /\ sends \in 1..TimerF /\ reg_rto = Wait[sends]
        /\ SendTime[sends] = age - (reg_rto - reg_next_tx)
        /\ sends - 1 <= age - (reg_rto - reg_next_tx)

\* A new transaction starts at the head of the schedule.
LEMMA DoRegisterSchedules ==
    ASSUME NEW f, NEW creds, DoRegister(creds, f)
    PROVE  ScheduleClock'
<1>1. sends' = 1 /\ reg_rto' = T1 /\ reg_next_tx' = T1 /\ age' = 0
  BY DEF DoRegister
<1>. QED BY <1>1, TimerAssumption, WaitFacts, SendTimeFacts DEF ScheduleClock

\* Every step keeps to the schedule.
LEMMA NextKeepsSchedule == IInv /\ ScheduleClock /\ [Next]_vars => ScheduleClock'
<1>. SUFFICES ASSUME IInv, ScheduleClock, [Next]_vars PROVE ScheduleClock'
  OBVIOUS
<1>1. /\ reg_rto \in T1..T2 /\ reg_next_tx \in 0..T2 /\ reg_giveup \in 0..TimerF
      /\ age \in Nat /\ sends \in Nat
      /\ reg_pending => age + reg_giveup = TimerF /\ reg_next_tx <= reg_rto
  BY DEF IInv, TypeOK, TransactionClock
<1>2. CASE ServeRetransmit
  <2>1. /\ reg_pending /\ reg_next_tx = 0 /\ reg_giveup # 0
        /\ reg_rto' = Least(2 * reg_rto, T2) /\ reg_next_tx' = reg_rto'
        /\ sends' = sends + 1 /\ age' = age
    BY <1>2 DEF ServeRetransmit, RetransmitRegister, NextTxDue, GiveupDue
  <2>2. /\ sends \in 1..TimerF /\ reg_rto = Wait[sends]
        /\ SendTime[sends] = age - reg_rto /\ sends - 1 <= age - reg_rto
    BY <1>1, <2>1, TimerAssumption DEF ScheduleClock
  <2>3. sends' \in 1..TimerF
    BY <1>1, <2>1, <2>2, TimerAssumption
  <2>4. reg_rto' = Wait[sends'] /\ SendTime[sends'] = age
    BY <1>1, <2>1, <2>2, TimerAssumption, WaitFacts, SendTimeFacts
  <2>5. reg_rto' \in Int /\ reg_rto' - reg_next_tx' = 0 /\ sends' - 1 <= age
    BY <1>1, <2>1, <2>2, TimerAssumption DEF Least
  <2>. QED BY <1>1, <2>1, <2>3, <2>4, <2>5 DEF ScheduleClock
<1>3. CASE Tick
  <2>. SUFFICES ASSUME reg_pending PROVE ScheduleClock'
    BY <1>3 DEF Tick, ScheduleClock
  <2>1. reg_next_tx # 0 /\ reg_next_tx' = Elapse(reg_next_tx) /\ age' = age + 1
        /\ UNCHANGED <<reg_pending, reg_rto, sends>>
    BY <1>3 DEF Tick, Due, NextTxDue
  <2>2. reg_next_tx' = reg_next_tx - 1
    BY <1>1, <2>1 DEF Elapse
  <2>3. age' - (reg_rto - reg_next_tx') = age - (reg_rto - reg_next_tx)
    BY <1>1, <2>1, <2>2, TimerAssumption
  <2>. QED BY <2>1, <2>3 DEF ScheduleClock
<1>4. CASE ServeBackoff \/ ServeGiveup \/ ServeRenewal
  BY <1>4, DoRegisterSchedules DEF ServeBackoff, ServeGiveup, ServeRenewal
<1>5. ASSUME NEW x \in Exchange, RecvChallenge(x) PROVE ScheduleClock'
  <2>1. CASE reg_pending' = FALSE
    BY <2>1 DEF ScheduleClock
  <2>2. CASE DoRegister(TRUE, Consume(flight, x))
    BY <2>2, DoRegisterSchedules
  <2>. QED BY <1>5, <2>1, <2>2 DEF RecvChallenge
<1>6. CASE Accept
  BY <1>6 DEF Accept, RecvAccept, ScheduleClock
<1>7. ASSUME NEW x \in Exchange, RecvOther(x) PROVE ScheduleClock'
  BY <1>7 DEF RecvOther, ScheduleClock
<1>8. ASSUME NEW x \in Exchange, Lose(x) PROVE ScheduleClock'
  BY <1>8 DEF Lose, transaction, ScheduleClock
<1>9. CASE UNCHANGED vars
  BY <1>9 DEF vars, transaction, ScheduleClock
<1>. QED BY <1>2, <1>3, <1>4, <1>5, <1>6, <1>7, <1>8, <1>9 DEF Next, TimerPass

\* Whatever backoffs, renewals and late answers came before, a pending REGISTER has been
\* sent exactly as often as timer E says for its age (sip_interface.c:388-390, 127-134).
THEOREM RegistrationOnSchedule == Spec => []RetransmitOnSchedule
<1>1. Init => ScheduleClock
  BY TimerAssumption, WaitFacts, SendTimeFacts DEF Init, ScheduleClock
<1>2. IInv /\ ScheduleClock => RetransmitOnSchedule
  <2>. SUFFICES ASSUME IInv, ScheduleClock, reg_pending
                PROVE  SendTime[sends] <= age /\ age <= SendTime[sends + 1] /\ age <= TimerF
    BY DEF RetransmitOnSchedule
  <2>1. /\ reg_rto \in T1..T2 /\ reg_next_tx \in 0..T2 /\ reg_giveup \in 0..TimerF
        /\ age \in Nat /\ age + reg_giveup = TimerF /\ reg_next_tx <= reg_rto
    BY DEF IInv, TypeOK, TransactionClock
  <2>2. SendTime[sends + 1] = SendTime[sends] + reg_rto
    BY SendTimeFacts DEF ScheduleClock
  <2>. QED BY <2>1, <2>2, TimerAssumption DEF ScheduleClock
<1>. QED BY <1>1, <1>2, NextKeepsSchedule, RegistrationInvariant, PTL DEF Spec

-----------------------------------------------------------------------------
(* A registrar that answers promptly. *)

\* The registrar answers in time; it challenges at most once in a row, and two round
\* trips fit in the margin and in what it grants, which may be less than the margin.  A
\* retransmission is never in flight beside the request it repeats: the answer comes
\* before timer E, or the network holds one exchange.
Prompt ==
    /\ HasPassword /\ ~Lossy /\ ~Rejects /\ ChallengeLimit <= 1
    /\ MaxDelay < TimerF /\ 2 * MaxDelay < Margin
    /\ \A grant \in Grants : grant > 2 * MaxDelay
    /\ MaxFlight >= 1 /\ (MaxFlight = 1 \/ MaxDelay < T1)

Empty(f) == \A y \in Exchange : f[y] = 0
Alone(f, x) == \A y \in Exchange : f[y] = IF y = x THEN 1 ELSE 0

\* One exchange is in flight while a REGISTER is pending, none otherwise, and what is
\* left of the binding is two round trips less the time the renewal has taken so far.  A
\* renewal that has been answered in its own instant was just granted.
PromptInv ==
    /\ ~auth_retry_pending /\ auth_fail_count <= 1
    /\ reg_pending =>
          /\ Alone(flight, Current(reg_auth)) /\ age <= MaxDelay
          /\ auth_fail_count = 1 => reg_auth
          /\ registered => reg_deadline + age + auth_fail_count * MaxDelay > 2 * MaxDelay
    /\ ~reg_pending =>
          /\ Empty(flight) /\ registered /\ auth_fail_count = 0
          /\ reg_deadline > 2 * MaxDelay
          /\ renewals > 0 => reg_deadline \in Grants

\* The margin is positive.
LEMMA MarginType == Margin \in Nat \ {0}
BY TimerAssumption, LifetimeAssumption DEF Margin

\* What is sent into an empty network is alone in it.
LEMMA SentAlone ==
    ASSUME NEW f, NEW x \in Exchange, f \in [Exchange -> Nat], Empty(f), MaxFlight >= 1
    PROVE  Alone(Transmit(Outdate(f), x), x)
<1>1. \A y \in Exchange : Outdate(f)[y] = 0
  <2>. SUFFICES ASSUME NEW y \in Exchange PROVE Outdate(f)[y] = 0
    OBVIOUS
  <2>1. [auth |-> y.auth, cur |-> TRUE] \in Exchange
    BY DEF Exchange
  <2>2. Outdate(f)[y] = IF y.cur THEN 0 ELSE f[y] + f[[auth |-> y.auth, cur |-> TRUE]]
    BY DEF Outdate
  <2>. QED BY <2>1, <2>2 DEF Empty
<1>2. Outdate(f) \in [Exchange -> Nat]
  BY FlightType
<1>3. InFlight(Outdate(f)) = 0
  <2>1. /\ [auth |-> TRUE, cur |-> TRUE] \in Exchange /\ [auth |-> TRUE, cur |-> FALSE] \in Exchange
        /\ [auth |-> FALSE, cur |-> TRUE] \in Exchange /\ [auth |-> FALSE, cur |-> FALSE] \in Exchange
    BY DEF Exchange
  <2>. QED BY <1>1, <2>1 DEF InFlight
<1>4. Transmit(Outdate(f), x) = [Outdate(f) EXCEPT ![x] = @ + 1]
  BY <1>3, EnvironmentAssumption DEF Transmit
<1>. HIDE DEF Outdate
<1>. QED BY <1>1, <1>2, <1>4 DEF Alone

\* What is alone in the network leaves it empty, and nothing else can be received.
LEMMA ReceivedAlone ==
    ASSUME NEW f \in [Exchange -> Nat], NEW x \in Exchange, NEW y \in Exchange,
           Alone(f, x), f[y] > 0
    PROVE  y = x /\ Empty(Consume(f, y)) /\ Consume(f, y) \in [Exchange -> Nat]
<1>1. y = x /\ f[x] = 1
  BY DEF Alone
<1>2. Empty(Consume(f, y))
  BY <1>1 DEF Empty, Alone, Consume
<1>. QED BY <1>1, <1>2, FlightType

\* A network with one exchange in it is not empty.
LEMMA InFlightAlone ==
    ASSUME NEW f \in [Exchange -> Nat], NEW x \in Exchange, Alone(f, x)
    PROVE  InFlight(f) = 1
<1>. DEFINE one(a, c) == IF x.auth = a /\ x.cur = c THEN 1 ELSE 0
<1>1. \A a, c \in BOOLEAN : f[[auth |-> a, cur |-> c]] = one(a, c)
  BY DEF Alone, Exchange
<1>2. InFlight(f) = one(TRUE, TRUE) + one(TRUE, FALSE) + one(FALSE, TRUE) + one(FALSE, FALSE)
  <2>. HIDE DEF one
  <2>. QED BY <1>1 DEF InFlight
<1>3. x.auth \in BOOLEAN /\ x.cur \in BOOLEAN
  BY DEF Exchange
<1>. QED BY <1>2, <1>3

\* Each of the current exchanges.
LEMMA CurrentType == \A auth \in BOOLEAN : Current(auth) \in Exchange /\ Current(auth).auth = auth
BY DEF Current, Exchange

\* A transaction opened over an empty network, early enough, leaves time for it.
LEMMA OpenKeepsPrompt ==
    ASSUME Prompt, NEW f \in [Exchange -> Nat], Empty(f), NEW creds \in BOOLEAN,
           DoRegister(creds, f),
           auth_retry_pending' = FALSE, auth_fail_count' \in {0, 1},
           auth_fail_count' = 1 => creds,
           registered' => reg_deadline' + auth_fail_count' * MaxDelay > 2 * MaxDelay,
           reg_deadline' \in Nat
    PROVE  PromptInv'
<1>1. /\ reg_pending' = TRUE /\ age' = 0 /\ reg_auth' = creds
      /\ flight' = Transmit(Outdate(f), Current(creds))
  BY DEF DoRegister, Prompt, Current
<1>2. Alone(flight', Current(creds))
  BY <1>1, CurrentType, SentAlone DEF Prompt
<1>3. registered' => reg_deadline' + age' + auth_fail_count' * MaxDelay > 2 * MaxDelay
  BY <1>1
<1>4. age' <= MaxDelay
  BY <1>1, EnvironmentAssumption
<1>5. auth_fail_count' <= 1
  OBVIOUS
<1>6. Alone(flight', Current(reg_auth'))
  BY <1>1, <1>2
<1>. QED BY <1>1, <1>3, <1>4, <1>5, <1>6 DEF PromptInv, Alone, Current

\* The timers: a renewal in time, and no other.
LEMMA TimerKeepsPrompt == Prompt /\ IInv /\ PromptInv /\ TimerPass => PromptInv'
<1>. SUFFICES ASSUME Prompt, IInv, PromptInv, TimerPass PROVE PromptInv'
  OBVIOUS
<1>1. /\ flight \in [Exchange -> Nat] /\ reg_deadline \in Nat /\ renewals \in 0..2
      /\ auth_fail_count \in Nat /\ reg_auth \in BOOLEAN /\ registered \in BOOLEAN
      /\ reg_giveup \in Nat /\ age \in Nat /\ sends \in Nat \ {0}
      /\ reg_rto \in T1..T2
  BY TimerAssumption DEF IInv, TypeOK
<1>2. ~ServeBackoff
  BY DEF ServeBackoff, RetryDue, PromptInv
<1>3. ~ServeGiveup
  BY <1>1, TimerAssumption, EnvironmentAssumption
     DEF ServeGiveup, GiveupDue, PromptInv, Prompt, IInv, TransactionClock
<1>4. CASE ServeRenewal
  <2>1. /\ ~reg_pending /\ reg_deadline <= Margin /\ DoRegister(registered, flight)
        /\ renewals' = Least(renewals + 1, 2) /\ UNCHANGED <<backoff, registered, reg_deadline>>
    BY <1>4 DEF ServeRenewal, RenewDue
  <2>2. /\ Empty(flight) /\ auth_fail_count = 0 /\ reg_deadline > 2 * MaxDelay
        /\ auth_retry_pending = FALSE
    BY <2>1 DEF PromptInv, IInv, TypeOK
  <2>3. /\ auth_retry_pending' = FALSE /\ auth_fail_count' = 0 /\ reg_deadline' \in Nat
        /\ reg_deadline' + auth_fail_count' * MaxDelay > 2 * MaxDelay
    BY <1>1, <2>1, <2>2, EnvironmentAssumption DEF backoff
  <2>4. auth_fail_count' \in {0, 1} /\ auth_fail_count' # 1
    BY <2>3
  <2>. QED BY <1>1, <2>1, <2>2, <2>3, <2>4, OpenKeepsPrompt
<1>5. CASE ServeRetransmit
  <2>1. /\ reg_pending /\ reg_next_tx = 0
        /\ flight' = Transmit(flight, Current(reg_auth))
        /\ UNCHANGED <<reg_pending, reg_auth, age, backoff, registered, reg_deadline, renewals>>
    BY <1>5 DEF ServeRetransmit, RetransmitRegister, NextTxDue, Current
  <2>2. Alone(flight, Current(reg_auth)) /\ age <= MaxDelay
    BY <2>1 DEF PromptInv
  <2>3. ~(MaxDelay < T1)
    <3>1. (sends - 1) * T1 + reg_rto <= age
      BY <1>1, <2>1, TimerAssumption DEF IInv, TransactionClock
    <3>2. (sends - 1) * T1 \in Nat
      BY <1>1, TimerAssumption
    <3>. QED BY <1>1, <2>2, <3>1, <3>2, TimerAssumption, EnvironmentAssumption
  <2>4. flight' = flight
    <3>1. MaxFlight = 1 /\ InFlight(flight) = 1
      BY <1>1, <2>2, <2>3, CurrentType, InFlightAlone DEF Prompt
    <3>2. ~(InFlight(flight) < MaxFlight)
      BY <3>1
    <3>. QED BY <2>1, <3>2 DEF Transmit
  <2>. QED BY <2>1, <2>4 DEF PromptInv, backoff, Alone, Current
<1>. QED BY <1>2, <1>3, <1>4, <1>5 DEF TimerPass

\* The answers: at most one challenge before the binding is there again.
LEMMA AnswerKeepsPrompt ==
    ASSUME Prompt, IInv, PromptInv, NEW x \in Exchange
    PROVE  /\ RecvChallenge(x) => PromptInv'
           /\ \A grant \in Grants : RecvAccept(x, grant) => PromptInv'
           /\ ~RecvOther(x) /\ ~Lose(x)
<1>1. /\ flight \in [Exchange -> Nat] /\ reg_deadline \in Nat /\ renewals \in 0..2
      /\ auth_fail_count \in Nat /\ reg_auth \in BOOLEAN /\ age \in Nat
  BY DEF IInv, TypeOK
<1>2. ASSUME flight[x] > 0
      PROVE  /\ reg_pending /\ x = Current(reg_auth) /\ x.auth = reg_auth
             /\ Empty(Consume(flight, x)) /\ Consume(flight, x) \in [Exchange -> Nat]
  <2>1. reg_pending
    BY <1>2 DEF PromptInv, Empty
  <2>2. Alone(flight, Current(reg_auth)) /\ Current(reg_auth) \in Exchange
    BY <1>1, <2>1, CurrentType DEF PromptInv
  <2>. QED BY <1>1, <1>2, <2>1, <2>2, CurrentType, ReceivedAlone
<1>3. ASSUME RecvChallenge(x) PROVE PromptInv'
  <2>1. /\ flight[x] > 0 /\ (x.auth => auth_fail_count < ChallengeLimit)
        /\ auth_fail_count' = Least(auth_fail_count + 1, MaxFail)
        /\ UNCHANGED <<registered, reg_deadline, renewals>>
    BY <1>3 DEF RecvChallenge
  <2>2. auth_fail_count = 0
    BY <1>1, <1>2, <2>1, EnvironmentAssumption DEF Prompt, PromptInv
  <2>3. auth_fail_count' = 1
    BY <2>1, <2>2, EnvironmentAssumption DEF Least
  <2>4. /\ DoRegister(TRUE, Consume(flight, x)) /\ auth_retry_pending' = auth_retry_pending
    <3>1. auth_fail_count' <= 1
      BY <2>3
    <3>. QED BY <1>3, <3>1 DEF RecvChallenge
  <2>5. registered => reg_deadline + auth_fail_count' * MaxDelay > 2 * MaxDelay
    <3>1. registered => reg_deadline + age > 2 * MaxDelay /\ age <= MaxDelay
      BY <1>1, <1>2, <2>1, <2>2, EnvironmentAssumption DEF PromptInv
    <3>. QED BY <1>1, <2>3, <3>1, EnvironmentAssumption
  <2>6. auth_retry_pending = FALSE
    BY DEF PromptInv, IInv, TypeOK
  <2>. QED BY <1>1, <1>2, <2>1, <2>3, <2>4, <2>5, <2>6, OpenKeepsPrompt
<1>4. ASSUME NEW grant \in Grants, RecvAccept(x, grant) PROVE PromptInv'
  <2>1. /\ flight[x] > 0 /\ reg_pending' = FALSE /\ registered' = TRUE /\ auth_fail_count' = 0
        /\ auth_retry_pending' = FALSE /\ reg_deadline' = grant
        /\ flight' = Consume(flight, x) /\ renewals' = renewals
    BY <1>4 DEF RecvAccept
  <2>2. Empty(flight')
    BY <1>2, <2>1
  <2>3. grant > 2 * MaxDelay /\ grant \in Nat
    BY LifetimeAssumption DEF Prompt
  <2>. QED BY <1>1, <2>1, <2>2, <2>3 DEF PromptInv, Empty
<1>5. ~RecvOther(x) /\ ~Lose(x)
  BY DEF Prompt, RecvOther, Lose
<1>. QED BY <1>3, <1>4, <1>5

\* Time passes: what the deadline loses, the age of the transaction gains.
LEMMA TickKeepsPrompt == Prompt /\ IInv /\ PromptInv /\ Tick => PromptInv'
<1>. SUFFICES ASSUME Prompt, IInv, PromptInv, Tick PROVE PromptInv'
  OBVIOUS
<1>1. /\ reg_deadline \in Nat /\ age \in Nat /\ auth_fail_count \in Nat /\ Margin \in Nat
      /\ MaxDelay \in Nat
  BY EnvironmentAssumption, MarginType DEF IInv, TypeOK
<1>2. /\ ~RenewDue /\ (reg_pending => age < MaxDelay)
      /\ reg_deadline' = Elapse(reg_deadline)
      /\ age' = (IF reg_pending THEN age + 1 ELSE age) /\ renewals' = 0
      /\ UNCHANGED <<reg_pending, reg_auth, auth_fail_count, auth_retry_pending, registered,
                     flight>>
  BY DEF Tick, Due
<1>3. \/ reg_deadline > 0 /\ reg_deadline' = reg_deadline - 1
      \/ reg_deadline = 0 /\ reg_deadline' = 0
  BY <1>1, <1>2 DEF Elapse
<1>4. CASE reg_pending
  <2>1. age' = age + 1 /\ age' <= MaxDelay
    BY <1>1, <1>2, <1>4
  <2>2. auth_fail_count * MaxDelay \in Nat
    BY <1>1
  <2>3. registered => reg_deadline' + age' + auth_fail_count * MaxDelay > 2 * MaxDelay
    <3>1. registered => reg_deadline + age + auth_fail_count * MaxDelay > 2 * MaxDelay
      BY <1>4 DEF PromptInv
    <3>. QED BY <1>1, <1>3, <2>1, <2>2, <3>1
  <2>. QED BY <1>2, <1>4, <2>1, <2>3 DEF PromptInv, Alone, Current
<1>5. CASE ~reg_pending
  <2>1. reg_deadline > Margin
    BY <1>1, <1>2, <1>5 DEF RenewDue
  <2>2. reg_deadline' > 2 * MaxDelay
    BY <1>1, <1>3, <2>1 DEF Prompt
  <2>. QED BY <1>2, <1>5, <2>2 DEF PromptInv, Empty
<1>. QED BY <1>4, <1>5

\* The invariant of a prompt registrar.
LEMMA PromptInvariant == Prompt => (Spec => []PromptInv)
<1>. SUFFICES ASSUME Prompt PROVE Spec => []PromptInv
  OBVIOUS
<1>1. Init => PromptInv
  <2>. SUFFICES ASSUME Init PROVE PromptInv
    OBVIOUS
  <2>. DEFINE nothing == [y \in Exchange |-> 0]
  <2>1. nothing \in [Exchange -> Nat] /\ Empty(nothing) /\ Outdate(nothing) = nothing
    <3>1. \A y \in Exchange : [auth |-> y.auth, cur |-> TRUE] \in Exchange
      BY DEF Exchange
    <3>. QED BY <3>1 DEF Empty, Outdate
  <2>2. flight = Transmit(Outdate(nothing), Current(FALSE))
    BY <2>1 DEF Init, Current
  <2>3. Alone(flight, Current(FALSE))
    <3>. HIDE DEF nothing
    <3>. QED BY <2>1, <2>2, CurrentType, SentAlone DEF Prompt
  <2>4. /\ reg_pending = TRUE /\ reg_auth = FALSE /\ auth_fail_count = 0 /\ registered = FALSE
        /\ auth_retry_pending = FALSE /\ age = 0 /\ renewals = 0
    BY DEF Init
  <2>5. Alone(flight, Current(reg_auth))
    BY <2>3, <2>4, Zenon
  <2>6. age <= MaxDelay
    BY <2>4, EnvironmentAssumption
  <2>. QED BY <2>4, <2>5, <2>6 DEF PromptInv
<1>2. IInv /\ PromptInv /\ [Next]_vars => PromptInv'
  <2>. SUFFICES ASSUME IInv, PromptInv, [Next]_vars PROVE PromptInv'
    OBVIOUS
  <2>1. CASE UNCHANGED vars
    BY <2>1 DEF vars, transaction, backoff, PromptInv, Alone, Empty, Current
  <2>2. CASE Next
    BY <2>2, TimerKeepsPrompt, AnswerKeepsPrompt, TickKeepsPrompt DEF Next, Accept
  <2>. QED BY <2>1, <2>2
<1>. QED BY <1>1, <1>2, RegistrationInvariant, PTL DEF Spec

\* With such a registrar the margin is enough: the binding never lapses, however little
\* is granted beyond two round trips.
THEOREM RegistrationNeverLapses == Prompt => (Spec => []BindingNeverLapses)
<1>. SUFFICES ASSUME Prompt PROVE Spec => []BindingNeverLapses
  OBVIOUS
<1>1. IInv /\ PromptInv => BindingNeverLapses
  <2>. SUFFICES ASSUME IInv, PromptInv, registered PROVE reg_deadline > 0
    BY DEF BindingNeverLapses
  <2>1. /\ reg_deadline \in Nat /\ age \in Nat /\ auth_fail_count \in Nat
        /\ MaxDelay \in Nat /\ (auth_fail_count = 0 \/ auth_fail_count = 1)
    BY EnvironmentAssumption DEF IInv, TypeOK, Prompt, PromptInv
  <2>2. CASE reg_pending
    <3>1. age <= MaxDelay /\ reg_deadline + age + auth_fail_count * MaxDelay > 2 * MaxDelay
      BY <2>2 DEF PromptInv
    <3>2. auth_fail_count * MaxDelay <= MaxDelay /\ auth_fail_count * MaxDelay \in Nat
      BY <2>1
    <3>. QED BY <2>1, <3>1, <3>2
  <2>3. CASE ~reg_pending
    BY <2>1, <2>3 DEF PromptInv
  <2>. QED BY <2>2, <2>3
<1>. QED BY <1>1, PromptInvariant, RegistrationInvariant, PTL

\* And a second renewal in one instant is the doing of the registrar: it answered the
\* first with a lifetime no longer than the margin, which is computed from the lifetime
\* asked for (sip_interface.c:344).  No challenge, late answer or timer causes one.
THEOREM RegistrationBurstCause == Prompt => (Spec => BurstNeedsShortGrant)
<1>. SUFFICES ASSUME Prompt PROVE Spec => BurstNeedsShortGrant
  OBVIOUS
<1>. DEFINE Short == reg_deadline \in Grants /\ reg_deadline <= Margin
<1>1. IInv /\ PromptInv /\ [Next]_vars => (renewals = 1 /\ renewals' = 2 => Short)
  <2>. SUFFICES ASSUME PromptInv, [Next]_vars, renewals = 1, renewals' = 2 PROVE Short
    OBVIOUS
  <2>1. ServeRenewal
    BY DEF Next, TimerPass, ServeBackoff, ServeGiveup, ServeRetransmit, RecvChallenge, Accept,
           RecvAccept, RecvOther, Lose, Tick, vars
  <2>. QED BY <2>1 DEF ServeRenewal, RenewDue, PromptInv
<1>. QED BY <1>1, PromptInvariant, RegistrationInvariant, PTL DEF Spec, BurstNeedsShortGrant
=============================================================================
