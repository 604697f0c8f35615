---------------------------- MODULE Registration ----------------------------
(***************************************************************************)
(* The REGISTER client of sip_interface (register/answer mode): the main   *)
(* loop of run_register_answer, the non-INVITE client transaction          *)
(* (timers E and F), the digest handshake with its backoff, and the        *)
(* renewal of the binding.                                                 *)
(*                                                                         *)
(* Time is discrete, in ticks; every deadline of the code is kept as the   *)
(* number of ticks left until it (0: it has passed).  The loop serves      *)
(* whatever is due before time moves on (Tick needs ~Due): one pass of the *)
(* loop takes microseconds, a tick is T1_MS.                               *)
(*                                                                         *)
(* The network and the registrar are external.  flight counts the          *)
(* exchanges (a REGISTER on its way out or the answer on its way back)     *)
(* by what the code or a property can tell apart: whether the request      *)
(* carried credentials, and whether it belongs to the current transaction. *)
(***************************************************************************)
EXTENDS Integers

CONSTANTS
    T1, T2, TimerF,         \* T1_MS, T2_MS, TIMER_F in ticks
    Second,                 \* ticks in one second
    BackoffCap,             \* the 60 s cap of the backoff, in ticks
    CapShift,               \* least shift whose backoff exceeds the cap
    LongLife, LongMargin,   \* "> 120 ? 60" of the margin computation
    RegExpires,             \* srv->reg_expires (-e)
    HasPassword,            \* srv->password is not empty
    Grants,                 \* lifetimes a registrar grants in its 2xx
    Lossy,                  \* datagrams may be lost
    MaxDelay,               \* ticks a pending REGISTER may wait for its answer
    Rejects,                \* the registrar may answer 1xx, 3xx .. 6xx
    ChallengeLimit,         \* credentials are challenged only below this many in a row
    MaxFlight,              \* bound: exchanges in flight
    MaxFail                 \* bound: auth_fail_count saturates here

ASSUME TimerAssumption ==
    /\ T1 \in Nat \ {0} /\ T2 \in Nat /\ TimerF \in Nat /\ Second \in Nat \ {0}
    /\ T1 <= T2 /\ T2 <= TimerF

\* 1000L << shift, as far as the backoff is not above its cap.
Shifted[shift \in 0..CapShift] == IF shift = 0 THEN Second ELSE 2 * Shifted[shift - 1]

ASSUME BackoffAssumption ==
    /\ BackoffCap \in Nat \ {0} /\ CapShift \in Nat
    /\ \A shift \in 0..(CapShift - 1) : Shifted[shift] <= BackoffCap
    /\ Shifted[CapShift] > BackoffCap
ASSUME LifetimeAssumption ==
    /\ LongLife \in Nat /\ LongMargin \in Nat /\ RegExpires \in Nat
    /\ Grants \subseteq Nat
ASSUME EnvironmentAssumption ==
    /\ {HasPassword, Lossy, Rejects} \subseteq BOOLEAN /\ MaxDelay \in Nat
    /\ MaxFlight \in Nat /\ MaxFail \in Nat \ {0} /\ ChallengeLimit \in Nat

VARIABLES
    reg_pending, reg_rto, reg_next_tx, reg_giveup,
    reg_auth,           \* reg_buf carries an Authorization header
    auth_fail_count, auth_retry_pending, auth_retry_at,
    registered, reg_deadline,
    flight,
    \* history, read by no action of the code:
    age, sends,         \* of the current transaction: ticks open, transmissions
    renewals            \* renewals sent since the last tick (0, 1, or 2 for more)

transaction == <<reg_pending, reg_rto, reg_next_tx, reg_giveup, reg_auth, age, sends>>
backoff == <<auth_fail_count, auth_retry_pending, auth_retry_at>>
vars == <<transaction, backoff, registered, reg_deadline, flight, renewals>>

-----------------------------------------------------------------------------
Least(a, b) == IF a <= b THEN a ELSE b
Elapse(left) == IF left > 0 THEN left - 1 ELSE 0

LongBits == 64      \* width of the long that is shifted

\* Mutation of BackoffDelay: what exceeds the cap starts over at one second.
BackoffDelayRestarts(n) == IF n - 2 >= CapShift THEN Second ELSE Shifted[n - 2]

\* 1000L << (auth_fail_count - 2), capped.  The shift count is taken modulo the
\* width of long by the machine; from CapShift on the product is above 60000,
\* zero or negative, and all of those become the cap.
BackoffDelay(n) ==
    LET shift == (n - 2) % LongBits
    IN  IF shift >= CapShift THEN BackoffCap ELSE Shifted[shift]

\* Mutation of Margin: renew when the binding expires.
MarginZero == 0

Margin ==
    LET half == IF RegExpires > LongLife THEN LongMargin ELSE RegExpires \div 2
    IN  IF half < Second THEN Second ELSE half

-----------------------------------------------------------------------------
(* The network. *)

Exchange == [auth : BOOLEAN, cur : BOOLEAN]

InFlight(f) ==
    f[[auth |-> TRUE, cur |-> TRUE]] + f[[auth |-> TRUE, cur |-> FALSE]] +
    f[[auth |-> FALSE, cur |-> TRUE]] + f[[auth |-> FALSE, cur |-> FALSE]]

\* sendto: one more exchange in flight; at the bound the datagram is lost.
Transmit(f, x) == IF InFlight(f) < MaxFlight THEN [f EXCEPT ![x] = @ + 1] ELSE f

\* A new transaction makes every exchange in flight one of an earlier transaction.
Outdate(f) ==
    [x \in Exchange |->
        IF x.cur THEN 0 ELSE f[x] + f[[auth |-> x.auth, cur |-> TRUE]]]

Consume(f, x) == [f EXCEPT ![x] = @ - 1]

-----------------------------------------------------------------------------
(* The transaction. *)

\* Mutation of DoRegister: the retransmission interval is inherited.
DoRegisterInheritsTimer(creds, f) ==
    LET auth == creds /\ HasPassword
    IN  /\ reg_pending' = TRUE /\ reg_giveup' = TimerF /\ reg_auth' = auth
        /\ reg_next_tx' = reg_rto
        /\ flight' = Transmit(Outdate(f), [auth |-> auth, cur |-> TRUE])
        /\ age' = 0 /\ sends' = 1
        /\ UNCHANGED reg_rto

\* do_register; f is what is in flight when it is called.
DoRegister(creds, f) ==
    LET auth == creds /\ HasPassword
    IN  /\ reg_pending' = TRUE
        /\ reg_rto' = T1
        /\ reg_next_tx' = T1
        /\ reg_giveup' = TimerF
        /\ reg_auth' = auth
        /\ flight' = Transmit(Outdate(f), [auth |-> auth, cur |-> TRUE])
        /\ age' = 0
        /\ sends' = 1

RetransmitRegister ==
    /\ reg_rto' = Least(2 * reg_rto, T2)
    /\ reg_next_tx' = Least(2 * reg_rto, T2)
    /\ flight' = Transmit(flight, [auth |-> reg_auth, cur |-> TRUE])
    /\ sends' = sends + 1
    /\ UNCHANGED <<reg_pending, reg_giveup, reg_auth, age>>

Init ==
    /\ reg_pending = TRUE /\ reg_rto = T1 /\ reg_next_tx = T1 /\ reg_giveup = TimerF
    /\ reg_auth = FALSE
    /\ auth_fail_count = 0 /\ auth_retry_pending = FALSE /\ auth_retry_at = 0
    /\ registered = FALSE
    /\ reg_deadline = RegExpires
    /\ flight = Transmit([x \in Exchange |-> 0], [auth |-> FALSE, cur |-> TRUE])
    /\ age = 0 /\ sends = 1 /\ renewals = 0

-----------------------------------------------------------------------------
(* select timed out: at most one of the four timers is served. *)

RetryDue  == auth_retry_pending /\ auth_retry_at = 0
GiveupDue == reg_pending /\ reg_giveup = 0
NextTxDue == reg_pending /\ reg_next_tx = 0
\* Mutations of RenewDue: only a registered client renews; renew while a REGISTER
\* is pending.
RenewDueRegistered == registered /\ ~reg_pending /\ reg_deadline <= Margin
RenewDueAlways == reg_deadline <= Margin

RenewDue  == ~reg_pending /\ reg_deadline <= Margin
Due == RetryDue \/ GiveupDue \/ NextTxDue \/ RenewDue

ServeBackoff ==
    /\ RetryDue
    /\ auth_retry_pending' = FALSE
    /\ DoRegister(TRUE, flight)
    /\ UNCHANGED <<auth_fail_count, auth_retry_at, registered, reg_deadline, renewals>>

ServeGiveup ==
    /\ GiveupDue /\ ~RetryDue
    /\ DoRegister(registered, flight)
    /\ UNCHANGED <<backoff, registered, reg_deadline, renewals>>

ServeRetransmit ==
    /\ NextTxDue /\ ~RetryDue /\ ~GiveupDue
    /\ RetransmitRegister
    /\ UNCHANGED <<backoff, registered, reg_deadline, renewals>>

ServeRenewal ==
    /\ RenewDue /\ ~RetryDue
    /\ DoRegister(registered, flight)
    /\ renewals' = Least(renewals + 1, 2)
    /\ UNCHANGED <<backoff, registered, reg_deadline>>

TimerPass == ServeBackoff \/ ServeGiveup \/ ServeRetransmit \/ ServeRenewal

-----------------------------------------------------------------------------
(* A response to a REGISTER was received: handle_register_response. *)

RecvChallenge(x) ==             \* 401 or 407
    /\ flight[x] > 0
    /\ x.auth => auth_fail_count < ChallengeLimit
    /\ auth_fail_count' = Least(auth_fail_count + 1, MaxFail)
    /\ IF auth_fail_count' <= 1
       THEN /\ DoRegister(TRUE, Consume(flight, x))
            /\ UNCHANGED <<auth_retry_pending, auth_retry_at>>
       ELSE /\ reg_pending' = FALSE
            /\ auth_retry_at' = BackoffDelay(auth_fail_count')
            /\ auth_retry_pending' = TRUE
            /\ flight' = Consume(flight, x)
            /\ UNCHANGED <<reg_rto, reg_next_tx, reg_giveup, reg_auth, age, sends>>
    /\ UNCHANGED <<registered, reg_deadline, renewals>>

\* Mutations of RecvAccept: a scheduled retry survives the success; the deadline of
\* the binding is not refreshed.
RecvAcceptKeepsRetry(x, grant) ==
    /\ flight[x] > 0
    /\ reg_pending' = FALSE /\ registered' = TRUE /\ auth_fail_count' = 0
    /\ reg_deadline' = grant
    /\ flight' = Consume(flight, x)
    /\ UNCHANGED <<reg_rto, reg_next_tx, reg_giveup, reg_auth, age, sends,
                   auth_retry_pending, auth_retry_at, renewals>>
RecvAcceptKeepsDeadline(x, grant) ==
    /\ flight[x] > 0
    /\ reg_pending' = FALSE /\ registered' = TRUE /\ auth_fail_count' = 0
    /\ auth_retry_pending' = FALSE
    /\ flight' = Consume(flight, x)
    /\ UNCHANGED <<reg_rto, reg_next_tx, reg_giveup, reg_auth, age, sends,
                   auth_retry_at, reg_deadline, renewals>>

RecvAccept(x, grant) ==         \* 2xx
    /\ flight[x] > 0
    /\ reg_pending' = FALSE
    /\ registered' = TRUE
    /\ auth_fail_count' = 0
    /\ auth_retry_pending' = FALSE
    /\ reg_deadline' = grant
    /\ flight' = Consume(flight, x)
    /\ UNCHANGED <<reg_rto, reg_next_tx, reg_giveup, reg_auth, age, sends,
                   auth_retry_at, renewals>>

\* Any other answer only stops the retransmission: a 1xx, with the final answer
\* still to come, or a final 3xx .. 6xx.
RecvOther(x) ==
    /\ Rejects
    /\ flight[x] > 0
    /\ reg_pending' = FALSE
    /\ flight' \in {flight, Consume(flight, x)}
    /\ UNCHANGED <<reg_rto, reg_next_tx, reg_giveup, reg_auth, age, sends,
                   backoff, registered, reg_deadline, renewals>>

Lose(x) ==
    /\ Lossy
    /\ flight[x] > 0
    /\ flight' = Consume(flight, x)
    /\ UNCHANGED <<transaction, backoff, registered, reg_deadline, renewals>>

Tick ==
    /\ ~Due
    /\ reg_pending => age < MaxDelay
    /\ reg_next_tx' = Elapse(reg_next_tx)
    /\ reg_giveup' = Elapse(reg_giveup)
    /\ auth_retry_at' = Elapse(auth_retry_at)
    /\ reg_deadline' = Elapse(reg_deadline)
    /\ age' = IF reg_pending THEN age + 1 ELSE age
    /\ renewals' = 0
    /\ UNCHANGED <<reg_pending, reg_rto, reg_auth, auth_fail_count,
                   auth_retry_pending, registered, flight, sends>>

Accept == \E x \in Exchange, grant \in Grants : RecvAccept(x, grant)

Next ==
    \/ TimerPass
    \/ \E x \in Exchange : RecvChallenge(x)
    \/ Accept
    \/ \E x \in Exchange : RecvOther(x)
    \/ \E x \in Exchange : Lose(x)
    \/ Tick

Spec == Init /\ [][Next]_vars

\* select returns when its timeout elapses, and time does not stand still.
FairSpec == Spec /\ WF_vars(TimerPass) /\ SF_vars(Tick)

\* Moreover a registrar that keeps hearing REGISTERs challenges the ones without
\* credentials and accepts the ones with them, each infinitely often; and an
\* exchange of an earlier transaction does not stay in the network for ever.
Current(auth) == [auth |-> auth, cur |-> TRUE]
CooperativeSpec ==
    /\ FairSpec
    /\ WF_vars(\E x \in Exchange : ~x.cur /\ Lose(x))
    /\ SF_vars(RecvChallenge(Current(FALSE)))
    /\ SF_vars(\E grant \in Grants : RecvAccept(Current(TRUE), grant))
-----------------------------------------------------------------------------
(* Properties. *)

\* Every variable stays in its range; timers never exceed what they are armed with.
TypeOK ==
    /\ reg_pending \in BOOLEAN /\ reg_auth \in BOOLEAN
    /\ reg_rto \in T1..T2 /\ reg_next_tx \in 0..T2 /\ reg_giveup \in 0..TimerF
    /\ auth_fail_count \in 0..MaxFail
    /\ auth_retry_pending \in BOOLEAN /\ auth_retry_at \in 0..BackoffCap
    /\ registered \in BOOLEAN /\ reg_deadline \in Nat
    /\ flight \in [Exchange -> Nat]
    /\ age \in Nat /\ sends \in Nat \ {0} /\ renewals \in 0..2

\* When the n-th transmission of a transaction is sent (RFC 3261 timer E): after
\* waits of T1, 2*T1, 4*T1 ... of which none is longer than T2.
Wait[n \in 1..(TimerF + 1)] == IF n = 1 THEN T1 ELSE Least(2 * Wait[n - 1], T2)
SendTime[n \in 1..(TimerF + 1)] == IF n = 1 THEN 0 ELSE SendTime[n - 1] + Wait[n - 1]

\* A pending REGISTER has been transmitted exactly as often as the timer E
\* schedule says for its age, and is dropped once timer F has run: whatever
\* backoffs, renewals, late or duplicated answers happened before, no
\* transaction inherits a timer of an earlier one.
RetransmitOnSchedule ==
    reg_pending =>
        /\ SendTime[sends] <= age /\ age <= SendTime[sends + 1]
        /\ age <= TimerF

\* What RetransmitOnSchedule says of any constants, without the schedule: every
\* transmission but the first costs at least T1, and a transaction ends at timer F,
\* so one REGISTER is transmitted at most TimerF / T1 + 1 times.
SendBudget == reg_pending => (sends - 1) * T1 <= age /\ age <= TimerF

\* A backoff is running only after two challenges in a row, for no longer than
\* the last of them asked for, and a success clears it.
BackoffAfterRepeat ==
    auth_retry_pending =>
        /\ auth_fail_count >= 2
        /\ auth_retry_at <= BackoffDelay(auth_fail_count)

\* With a registrar that answers promptly the binding never lapses: the margin
\* leaves room for a renewal that is challenged once.
BindingNeverLapses == registered => reg_deadline > 0

\* The renewal timer does not fire twice in the same instant (sip_interface.c:341:
\* "never more than half the lifetime for short ones, or the renewal instant would be in
\* the past and busy-loop").  The margin is that of the lifetime asked for.
NoRenewalBurst == renewals <= 1

\* When it does, a grant is the reason: with a registrar that answers promptly a second
\* renewal in an instant is sent only if the first was granted no more than the margin.
BurstNeedsShortGrant ==
    [][renewals = 1 /\ renewals' = 2 => reg_deadline \in Grants /\ reg_deadline <= Margin]_vars

\* A repeated challenge is never answered sooner than the one before it in the
\* same run of challenges (sip_interface.c:305: "1s, 2s, 4s ... 60s cap").
BackoffNeverShrinks ==
    [][ /\ auth_fail_count >= 2
        /\ auth_fail_count' > auth_fail_count
        => auth_retry_at' >= BackoffDelay(auth_fail_count) ]_vars

\* The client never falls silent: whatever was lost, rejected or challenged, it
\* has a REGISTER outstanding again and again.
NeverSilent == []<>reg_pending

\* A client that has registered once gets its binding back from a cooperative
\* registrar, however often exchanges are lost, challenged or rejected.
BindingRecovers == registered ~> registered /\ reg_deadline > 0

\* A backoff ends: its timer elapses and the retry with the stored credentials is
\* sent (sip_interface.c:377), or a success clears it first.
BackoffElapses == auth_retry_pending ~> ~auth_retry_pending
=============================================================================
