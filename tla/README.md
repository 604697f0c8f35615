# A verification of sip_modem

TLA+ models of the programs of this repository, TLC configurations that check
them on small instances, and theorems about them proved with TLAPS. Paths and
line numbers are those of the source tree (`sip_interface/`, `modem_fsk/`,
`modem_v22bis/`, `line_sim/`).

## The system

`sip_interface` joins a SIP/RTP call to a TCP connection that carries raw audio.
A modem server (`modem_fsk` or `modem_v22bis`) listens for that connection,
demodulates it and joins it to a TCP connection to a data service. `line_sim`
takes the place of `sip_interface` in tests: it connects to two modems and puts
an impaired line between them.

    caller <-SIP/RTP-> sip_interface <-TCP audio-> modem_* <-TCP bytes-> service
                                     modem <-TCP-> line_sim <-TCP-> modem

| Component | State it keeps | Operations | Interacts with |
|---|---|---|---|
| REGISTER client (`sip_interface.c`) | open transaction and its timers, challenge count, backoff, deadline of the binding | `do_register`, `retransmit_register`, `handle_register_response`, the timer part of `run_register_answer` | registrar over UDP; shares the main loop with the call server |
| Inbound call server (`sip_interface.c`, `call.c`) | list of calls, one pipe and one thread per call | `route_request`, `call_start`, `call_dispatch`, `call_reap`, `call_thread` | callers over UDP; main thread to call thread by pipe, back by its end (`pthread_tryjoin_np` in `call_reap`) |
| Audio bridge (`call.c`, `io_loop`) | staging buffer, RTP counters, tick deadline, TCP socket | RTP in, TCP in, dispatch pipe, 20 ms tick | RTP peer, TCP audio peer, the pipe |
| Dial-out UAC (`call.c`, `sip_interface.c`) | INVITE transaction, CSeq, authentication tries, timers A and B | `run_dialout`, `call_dial`, `call_thread_uac`, `send_*` | callee over UDP, main loop by pipe |
| SDP (`call.c`) | none | `sdp_parse`, `build_sdp` | both kinds of call |
| Passive registrar (`sip_interface.c`) | none | `respond_register_ok` | a REGISTERing client |
| SIP text and digest (`sip_util.c`) | none | header lookup, digest, URIs | all of the above |
| Codecs (`alaw.c`, `g722.c`) | G.722 filters | encode, decode | audio bridge |
| `modem_fsk` session | two byte queues, banner, break, carrier, header | one loop per session thread | audio connection, data peer |
| `modem_v22bis` session | two byte queues with a read cursor, header | one loop per session thread | audio connection, data peer, modem by callbacks |
| Session cap of both servers | `g_session_count` | accept loop, end of a thread | session threads |
| FSK modem (`fsk.c`) | framer, deframer, bit clocks, carrier hysteresis | a sample in, a sample out | `modem_fsk` |
| V.22bis modem (`v22bis_rx.c`, `v22bis_tx.c`) | training stages of receiver and transmitter, negotiated rate, loops | a sample in, a sample out | `modem_v22bis`; the far modem over the line |
| `line_sim` | two FIFOs, slip count, filters | lockstep relay | two modems |

What is hard about each of them, and what makes it correct:

- **REGISTER client.** Four timers share one `select`, five places start a
  transaction, datagrams are lost and late. Correct: a transaction keeps the
  timer E/F schedule and its budget of retransmissions; a backoff runs only
  after repeated challenges and does not shrink; the client never falls silent,
  and regains its binding; a timely registrar never sees the binding lapse.
- **Call server.** INVITEs are retransmitted, threads end while the main thread
  looks at them, a pipe write can block with the mutex held, two messages may be
  one read. Correct: one call per Call-ID, the cap holds for running threads at
  every instant, a write has a live target and returns, an ended call is reaped,
  a hang-up ends the call.
- **Audio bridge.** The room for a read is computed before `select` and used
  after the RTP branch; ticks may be late; the peer may close with audio
  unread. Correct: no overflow, no byte of the peer lost or played twice, the
  peer is clocked through every gap, a BYE gets through.
- **Dial-out.** Answers cross CANCELs, challenges are repeated, the audio socket
  may fail before or after the answer. Correct: no established call is left
  behind, a cancelled call is over at the far end, the attempt and the program
  end.
- **Modem sessions.** Queues run full, a peer closes with bytes queued, dialling
  is deferred behind carrier, banner and break, detached threads share a count.
  Correct: bytes in order, none lost, a peer with data is read, the count is the
  number of sessions.
- **SDP.** Each end parses the other's body by itself, and packets redirect the
  audio. Correct: one codec under one payload type, audio in both directions.
- **Handshake.** Two state machines drive each other by timed patterns, and the
  receiver overwrites the transmitter's stage. Correct: both reach the data
  phase at the same rate, or both know they did not.
- **line_sim.** Lockstep with sockets that may lose samples, and a FIFO whose
  length slips. Correct: no deadlock, no byte lost or doubled, a FIFO that neither
  runs dry nor overflows.

`PROJECT.json` lists the hazards at their lines with the properties that guard it.

## The modules

| Module | Models | Checked by |
|---|---|---|
| `Registration` | the REGISTER client | `Registration_*.cfg` |
| `RegistrationProofs` | theorems about it | |
| `CallLifecycle` | abstract: what is promised about inbound calls | refinement in `CallServer_safety.cfg` |
| `CallServer` | main loop, call table, call threads, callers | |
| `MCCallServer` | adds symmetry | `CallServer_*.cfg` |
| `CallServerProofs` | theorems about it, and that it implements `CallLifecycle` | |
| `AudioBridge` | `io_loop` | `AudioBridge_bridge.cfg` |
| `DialOut` | dial-out mode and the far end | `DialOut_dial.cfg` |
| `DialOutProofs` | theorems about it | |
| `MediaNegotiation` | offer, answer and symmetric RTP | `MediaNegotiation_media.cfg` |
| `MediaProofs` | theorems about `MediaNegotiation` and `AudioBridge` | |
| `V22Session` | one session of `modem_v22bis` | `V22Session_session.cfg` |
| `V22SessionProofs` | theorems about it | |
| `V22Handshake` | the training of two V.22bis modems | `V22Handshake_handshake.cfg` |
| `V22HandshakeProofs` | theorems about it | |
| `FskFraming` | framer, deframer and carrier detector of `fsk.c` | through `FskSession` |
| `FskSession` | one session of `modem_fsk` to the far end's deframer; the session cap of both servers | |
| `MCFskSession` | the bytes the data peer writes | `FskSession_session.cfg` |
| `FskSessionProofs` | theorems about the cap, the queues and the far end | |
| `LineSim` | the relay of `line_sim` and its two FIFOs | `LineSim_line.cfg` |
| `LineSimProofs` | theorems about it | |

Definitions carry the source's names where there is one; `PROJECT.json` maps
each to its lines. Definitions that model something outside the repository (the
network, a registrar, a SIP user agent, a phone, a TCP peer, the clock) are
marked external. Every module also holds *mutations*: operators such as
`DataInCursorStays`, each commented as a mutation of the operator that follows it,
which put a plausible bug in its place. They are not part of the
specification; replacing the operator by its mutation must break the property
`PROJECT.json` names, which shows that the property depends on the code.

### Registration

`reg_*` and `auth_*` are the fields of `server_t`; deadlines are kept as the
ticks left until them. `DoRegister`, `RetransmitRegister` and
`RecvChallenge`/`RecvAccept`/`RecvOther` are the functions; `TimerPass` is the
`else if` chain of `run_register_answer`, with one operator per branch. The
digest and the text of messages are left out: an exchange is known by whether it
carried credentials and whether it belongs to the current transaction, which the
code does not look at and the properties do. Time moves only when nothing is due:
a pass of the loop takes microseconds, a tick is 500 ms. That other traffic can
keep the loop from serving timers (it serves them only when `select` times out)
is therefore not in the model; it is listed as a hazard.

### CallServer and CallLifecycle

A pass of the main loop is `Receive` (with `CallStart` or `Dispatch`) or
`TimerPass`, and then `Reap`; threads step in between, from `Connect` by way of
`Answer`, `ReadAwaitingAck` and `ReadBridging` to `Exit`. A write to a full pipe
leaves the main loop in `"write"` until `FinishWrite`. A read of a pipe takes
all that is in it and looks at the first message, as the code does. Callers send,
retransmit, cancel, hang up and vanish over a network that loses and reorders.
The passive registrar (`respond_register_ok`) keeps no state and is traffic the
main loop answers on the way.
`CallLifecycle` is the promise: each Call-ID goes none, ringing, answered, up,
ended, none; an ended call that is not yet forgotten counts against the cap and
cannot ring. `ImplementsLifecycle` maps a call's phase from the program counter
of its thread.

### AudioBridge

One action per part of a pass, in the order of `io_loop`: `Select`, `RtpRx`,
`TcpRx`, `Control`, `Tick`. What `select` found and the room it was called with
are variables, since the code uses both after other sockets were handled.
Audio is counted in bytes; `rx_skew` says how far a cut frame put the peer off a
sample boundary.

### DialOut

The thread's loop is `ReadInviting` (one operator per kind of answer), `GiveUp`
and `RetransmitInvite`, then `ReadBridging`; the main loop is `Pump` and
`Finish`. The far end is written from RFC 3261: a transaction per INVITE,
final answers sent until they are ACKed, a BYE until it is answered. The pipe is
kept as far as it will be looked at: what is written behind an unread message is
read together with it and lost. `disturbed` records that the network lost a
datagram or a challenge was sent twice, since the code sends CANCEL and BYE only
once.

### MediaNegotiation

A body is the sequence of the lines `sdp_parse` looks at (`c=`, `m=` and
`a=rtpmap`); both ends may be `sip_interface`, with any combination of `-g` and
`-T`, or one may be a phone. What formats phones offer and what payload type they
give CLEARMODE are constants; each offer may come with data besides, with a video
section from the same or another host, with the audio switched off or without any
section. An offer is taken to have no more payload types than `sdp_parse`
remembers (32). `SdpParse` keeps the code's habits: payload types of every
section are collected, the last `c=` and the last audio port win. A wrong
address is healed by symmetric RTP: an end sends to wherever the last packet
came from (`call.c:549`), so the audio part of the model is who sends where and
whether the packet is taken. A NAT gives an end an address its SDP does not
have; between two `sip_interface`s at most one end is behind one. Phones answer
with a single format. Offers with two audio sections are left out.

### V22Session

`Select`, `AudioIn`, `DataIn`, `DataOut` in the order of `session_io_loop`;
`GetBits` and `PutBytes` are the callbacks. The modem is an oracle: how many bits
it takes and bytes it gives per read is open, training included. The bytes to the
line are numbered modulo `Count`, so that order, gaps and repetitions show; those
from the line are only counted.

### V22Handshake

Two modems take turns (`Step`), a symbol each (600 per second). `Receive` is the receiver's
state machine on one decision, with the level detector ahead of it; `Sent` and
`Transmit` are the transmitter's symbol and its state machine. The receiver sets the transmitter's stage where
the code does. What filters, carrier and timing loops and equalizer do appears as
three numbers: the lag of a decision behind the symbol, the lead of the level
detector, the time until 16-way decisions are right. Decision errors are left
out. The constants are the code's own times in symbols (`WarmUp` 12, `Acquire`
40, S1 and ones counts); the stages the model goes through on a clean line were
compared with a trace of the compiled code and agree within about three symbols.
The line may fade once, in one direction, at one of five moments picked to fall
into each stage.

### FskFraming and FskSession

`FskFraming` has the transmitter's bit clock, framer and break (`tx_advance`), and
the receiver's deframer with the hysteresis of carrier detection
(`fsk_rx_sample`), a sample at a time; the tone detector is a window over what is
sent. `FskSession` composes them: a pass of `session_io_loop` is `Select`,
`AudioIn`, one `Sample` per sample read with `ProcessSample`, `AudioOut`,
`CarrierAndBanner`, `Dial`, `DataIn`, `DataOut`; `room` is what `select` was
called with, used at `DataIn`. What the session sends goes sample by sample into
the deframer of a *far end*, which records what it is owed and whether it read
something else. What the caller sends is an oracle (a level and bytes). The far
end is followed until a break is sent. The accept loop (`Accept`, `Admit`) runs
beside it with other sessions that come and go; with `opt.crowd` the session
followed gets no samples, so that the two concerns do not multiply each other.
The caller, the data peer and the audio connection move while the thread is in
`select`, which is when it looks at them. Synchronous framing (`-y`) is left out.
The accept loop and count of `modem_v22bis` (`modem_v22bis.c:455-487`) are the same
code.

### LineSim

The relay goes from place to place: prime both modems, fill the FIFOs if the line
slips, then read A, read B, `Channel`, `Pop`, write B, write A. Sockets and
half-read samples are counted in bytes, FIFOs in samples. A modem reads any
number of bytes at a time and answers whole samples. The modems run without
`-H`, as `line_sim/README.md:41` runs them: with `-H` a modem takes the first
twelve bytes of `line_sim` for a header and the relay waits for the six samples
that never come. Resampling is taken to give as many samples as it gets
(`line_sim.c:276`); what a sample is worth is left out.

## What the runs show

| Run | Question | Properties | Result |
|---|---|---|---|
| `reg_lossy` | does the client keep its schedule and backoff, and recover, over a network that loses and reorders, with a registrar that challenges, rejects and grants little? | `RetransmitOnSchedule`, `BackoffAfterRepeat`, `BackoffNeverShrinks`, `NeverSilent`, `BindingRecovers` | holds |
| `reg_prompt` | with a prompt registrar that grants more or less than the renewal margin, does the binding ever lapse, and what makes a renewal fire twice at once? | `BindingNeverLapses`, `BurstNeedsShortGrant` | holds |
| `reg_backoff_starved` | is the retry with credentials, once a backoff runs, ever sent? | `BackoffElapses` | violated |
| `calls_safety` | two callers, cap one: do threads stay within the cap, and is the life cycle kept? | `CapRespected`, `ImplementsLifecycle` | holds |
| `calls_live` | one call per Call-ID; are ended calls reaped, hang-ups obeyed, blocked writes freed, by a server with a registrar? | `OneCallPerId`, `WriteHasTarget`, `EndedIsReaped`, `HangUpEndsCall`, `MainLoopReturns` | holds |
| `bridge` | is audio conserved, the peer clocked and played to the end, a BYE obeyed? | `PeerAudioConserved`, `ConsumerClocked`, `PeerAudioPlayed`, `ByeEndsBridge` | holds |
| `media` | one codec under one payload type; does audio ever stay one-way? | `SameFormat`, `AudioSettles` | holds |
| `dial` | is anything left behind at the far end, do attempt and program end? | `NoCallLeftBehind`, `CancelSettles`, `SetupEnds`, `HangUpEndsProgram` | holds |
| `fsk_session` | is every session counted; does the far end read from the first byte on; is the peer dialled? | `TypeOK`, `CountMatches`, `FarReadsInOrder`, `DataPeerDialled`, `QueuedIsHeard` | holds |
| `v22_session` | a peer that writes what it likes: in order, complete, read as long as the queue is not full? | `PeerBytesInOrder`, `QueuedIsTransmitted`, `UnreadIsReadBelowFull` | holds |
| `v22_handshake` | one rate at both ends, no data before the other listens, an end on a clean line and after a fade? | `RatesAgree`, `DataHasListener`, `HandshakeCompletes`, `FadeSurvived` | holds |
| `line` | do relay and modems go on for ever, does the FIFO follow the slip, is an end passed on? | `OneBlockEach`, `FifoFollowsSlip`, `LineTurns`, `EndReachesOther` | holds |

The type invariants of the other modules were checked while the models were
written; those of `Registration`, `CallServer`, `AudioBridge`, `DialOut`, `V22Session`,
`FskSession` and `LineSim` are proved (for `V22Handshake`, the proved `TrainingInv`
gives the fields of each modem). `fsk_session` keeps its own, because it is where the room
computed before `select` must still be there when it is used.

## Known disagreements

Where the code does not do what its documentation or a comment says. The first
has a run of its own. The others lie within what the models cover, most of them
within what the passing runs explore; the definition named, checked as said,
gives the counterexample.

- **The backoff that never ends** (`sip_interface.c:391`, run
  `reg_backoff_starved`). A client whose initial deadline passes during a
  backoff renews without credentials, is challenged, and re-arms the backoff,
  for ever; the comment at 377 has the stored credentials retried.
- **The renewal margin** (`sip_interface.c:344`) comes from the lifetime asked
  for, the deadline from the one granted (325). A grant within the margin puts
  the renewal instant in the past, which the comment at 341-343 rules out, and
  every accepted renewal is followed by the next at once. `reg_prompt` with
  `Grants = {4}` and `MaxDelay = 1`: `NoRenewalBurst` is violated.
  `BurstNeedsShortGrant`, checked by `reg_prompt` and proved, says that nothing
  else brings a second renewal in the same instant.
- **A pass that serves a timer does not reap** (`sip_interface.c:398`, against
  the comment at `call.c:779-780`). With a registrar an ended call keeps its
  entry until the next datagram has been handled, and at the cap an INVITE that
  is this datagram is refused although no call is running. The entry goes in the
  end (`EndedIsReaped` of `calls_live`). `calls_live` with the invariant
  `ReapedByNextPass`: violated.
- **A closed audio peer does not end the call** (`call.c:592`, against
  README.md:100-101): it stays up, silent, until the caller hangs up.
  `calls_live` with one thread, `StreamHeader = FALSE` and the property
  `TcpCloseEndsCall`: violated.
- **A repeated challenge** (`call.c:1072`) is ACKed as another INVITE's (against
  the comment at 901-902) and answered with one more INVITE. `dial` with
  `MaxAuth = 2` and the invariant `AckReusesBranch`: violated.
- **The full queue** (`modem_v22bis.c:238`, against the comment at 284-285). The
  space of transmitted bytes is reclaimed only behind a test that needs free
  space: once a burst has filled the queue to the last byte, the data peer is
  never read again, nor is its close noticed. `v22_session` with the property
  `UnreadIsRead`: violated.
- **An overrun can cut a sample** (`call.c:425`, against README.md:96): from
  then on the peer reads the two halves of different samples. `AudioBridge` with
  the constants of `bridge`: `WholeSamples` is violated.
- **A header that cannot be written** (`call.c:694`) closes the socket of a call
  that is then answered. `CallServer` with `StreamHeader = TRUE`:
  `AnsweredHasBackend` is violated.
- **An offer of G.722 alone** is accepted without `-g` (`call.c:145`, against
  README.md:144-148). Both ends then do use G.722, so `SameFormat` holds.

Behaviour nothing documents, but worth knowing:

- A fade over the caller's S1 leaves the caller at 1200 and the answerer waiting
  for 2400; that wait has no limit (`v22bis_rx.c:302-312`). `FadeSurvived` names
  the stage for this reason; after a fade the rates may differ.
- A caller that takes one wrong decision in the window in which it counts the
  answering tone would not answer at all; the model has no decision errors.
- The S1 of 100 ms is hardly longer than acquisition and detector need together: a
  few symbols of delay in the level detector decide between 2400 and 1200.
- Any answer but a challenge or a success clears `reg_pending`
  (`sip_interface.c:290`) and leaves the deadline alone. A rejected renewal is
  therefore repeated as soon as the rejection is here, at the pace of the network
  and without a backoff.
- Stray packets at both ends of a call at the same time silence it for good
  (`Diverted`): neither end has a packet of the other left to latch to.
- The payload types and the `c=` of a video section are taken for the audio's
  (`call.c:105`); the address is healed by symmetric RTP.

## Bounds, and why they are enough

- `Registration`: T1 = 1, T2 = 4, timer F = 12 ticks: three doublings, the cap
  reached and held, then the give-up. Backoff cap 6 with a second of 2 ticks: it
  doubles once and is then capped. Two exchanges in flight: the current one and
  a stale one, which is all the code can confuse. `MaxFail` = 4 lies beyond the
  shift where the cap is reached; the count saturates there. The wrap of the
  shift after 64 challenges is outside. The grants of `reg_prompt` are 5, 14, 20
  and 40 ticks with a margin of 6 and 20 asked for: within the margin, less, as
  much and more than asked for.
- `CallServer`: two callers and two call objects with a cap of one make busy
  answers, reuse of an entry and a Call-ID that returns; pipes of one message
  block at once. The liveness run has one caller, since calls meet each other
  only in the cap and in the blocked write, and pipes of two, so that messages
  are read together. Two datagrams each way let one overtake another.
  `calls_live` runs the server with a registrar, the mode in which not every pass
  reaps.
- `AudioBridge`: frames of two bytes, samples of two, a buffer of three: reads of
  odd length, a buffer that is not a multiple of the frame, two late ticks.
- `DialOut`: one challenge; two datagrams each way.
- `MediaNegotiation`: six sets of formats, with and without the two that matter
  and one that does not; a dynamic payload type that is not the one of our own
  offers. Three stray packets: one to each end, and one more after the audio has
  come back. Everything else is finite by itself.
- `FskSession`: bytes of two bits with parity, two samples per bit, a carrier
  window of five, and queues of one byte: each queue is full as soon as it holds
  anything. A lead-in of five samples covers the window exactly. A header of
  three bytes with a fixed part of two, read in odd pieces. One byte from the
  data peer behind a banner of two bytes. A cap of two with room for two other
  sessions beside the one followed, so that all three would run were it not for
  the cap.
- `V22Session`: queues of two bytes and one, of two bits each, and a peer that may
  have two bytes unread: one burst fills the queue to the line.
- `V22Handshake`: a short and a long line (14 and 44 symbols), an early and a
  late level detector, both rate limits at either end. Times are the code's own,
  so nothing is scaled. With the early detector the receiver is ready while the S1
  still lasts, and the modems agree on 2400; with the late one too little of it is
  left and they agree on 1200: both outcomes occur. The five fades fall on the
  answering tone, on the end of the caller's S1, on the answerer's, on the ones at
  2400, and on data.
- `LineSim`: blocks of three samples, a slip of two, so that a block and a read of
  four bytes never coincide; every combination of slipping channels.

`CHECK_DEADLOCK FALSE` is used where the system ends: a bridge or session that is
over, a dial-out that has returned, a relay that has closed.

## Fairness

- Threads and main loop are scheduled (weak fairness of their steps), time goes
  on, `select` returns when its timeout is over.
- `Registration`: the registrar that `BindingRecovers` needs challenges and
  accepts infinitely often, of the REGISTERs it keeps hearing (strong fairness:
  each copy may be lost); a stale exchange does not stay in the network for ever.
- `CallServer`: a datagram that is sent again and again is received again and
  again; a caller that hangs up repeats its BYE. A server with a registrar renews
  for ever (`NeverSilent`), so the registrar's answers keep coming to a main loop
  that keeps coming to `select` (strong fairness of `OtherTraffic`, which says
  nothing of a main loop that is blocked). In passive mode nobody owes the server
  a datagram, and none is assumed.
- `DialOut`: the far end reads what reaches it, gives up waiting for an ACK
  (timer H), and repeats a BYE until it is answered; of the BYEs some arrive.
- `MediaNegotiation`: INVITE, answer and ACK arrive in the end, being
  retransmitted; each end sends packets every 20 ms whatever it hears, and some
  arrive.
- `V22Session`: samples keep coming, as in a call, and a modem that is given
  samples for ever asks for bits again and again. A modem that never trains is
  not covered by the liveness properties.
- `FskSession`: the thread runs; samples keep coming and the dialling delay
  passes. Both can happen only while the thread is in `select`, to which it
  returns again and again: hence strong fairness.
- `V22Handshake`: the audio clock gives every modem its turn.
- `LineSim`: the relay and both modems run.

## What is proved

For every value of the constants that meets the named assumptions. Each proof
goes by an inductive invariant, shown to hold initially, to be kept by every
action (one lemma per group of actions) and to imply the property.

- **Registration.** The invariant is `TypeOK /\ TransactionClock /\
  BackoffAfterRepeat`. `TransactionClock` relates the transmissions so far to
  what is left of timer F and is what bounds them: `SendBudget` alone is not
  inductive, because a retransmission must be known to have cost at least T1 of
  the time left. `RegistrationTypes`, `RegistrationSendBudget` and
  `RegistrationBackoff` follow, and `RegistrationBackoffGrows`: the delay of a
  backoff grows with the count of challenges until it is capped, as long as the
  count keeps the shift below the width of `long` (`MaxFail <= LongBits + 1`; the
  code has no such limit, and beyond it the shift starts over).
- **The schedule of retransmissions** (`RegistrationOnSchedule`). `ScheduleClock`
  says which entry of the schedule the running timer is, `reg_rto` being the wait
  behind the last transmission and `reg_next_tx` what is left of it. Schedule and
  waits are recursive functions; that they are defined, positive and increasing is
  shown by induction over a set of numbers (`SetInduction`), which needs no
  operator as a parameter.
- **A binding with a prompt registrar** (`RegistrationNeverLapses`,
  `RegistrationBurstCause`). `Prompt` is the hypothesis: the registrar answers within
  `MaxDelay`, asks for credentials at most once in a row, and grants more than two
  round trips, be it less than the margin; two round trips fit in the margin; and
  no retransmission is on its way beside the request it repeats. The run
  `reg_prompt` meets it. The invariant `PromptInv` says that one exchange is in
  flight while a REGISTER is pending and none otherwise, that what is left of the
  binding is two round trips less the time the renewal has taken so far, and that
  a renewal that was answered in its own instant was just granted: hence the second
  renewal of an instant always has a grant within the margin for its reason.
- **Call server.** The invariant adds to `TypeOK` the parts of `Table`: the table
  holds exactly the calls whose thread exists, has one entry per Call-ID and
  each with a name, stays within the cap, and holds the target of a blocked
  write. The cap on *threads* is not inductive; it follows from the cap on the
  table and the agreement of both. `ServerTable`, `ServerOneCall`, `ServerWrite`
  and `ServerCap` follow.
- **Call server implements life cycle** (`ServerImplements`). Every step of
  `CallServer` is a step of `CallLifecycle` or leaves all phases alone. This
  needs the invariant: with two entries for a Call-ID a step of one thread would
  not determine the phase, and a thread without an entry would run on behind a
  phase of `none`. That a new call finds the life cycle's cap open needs that the
  Call-IDs known to the life cycle are no more than the entries of the table,
  which is shown by a surjection from one onto the other.
- **Audio bridge.** The invariant adds to the two properties `RoomIsThere` (what
  is staged and the room `select` was called with fit the buffer) and
  `PacketIsThere` (a packet that was found is still there). Without the first a
  read after `select` could overflow. `BridgeTypes`, `BridgeConserves` and
  `BridgeClocked` follow.
- **Dial-out** (`DialInvariant`, `DialTypes`, `NothingLeftBehind`). At any moment
  the BYE of a call may be still to be sent, behind an ACK that is on its way, or
  lost; `NoCallLeftBehind` must know which. `MessagesTrue` and `AcksTrue` say that
  every answer and ACK in flight is true of the far end, `OneOpen` that while
  nothing was disturbed only the current INVITE is open there, and `ByeUnderWay`
  that a call whose thread is gone has a BYE on its way, behind the ACK if that is
  still to arrive.
- **One format** (`FormatsAgree`). Two runs of `sdp_parse` on two bodies, written by
  two ends, decide the codec. What ties them together is the shape of the answer:
  one payload type, and an `rtpmap` line just when it is data (`Answers`), which
  leaves the reader one choice whatever its options are (`OneChoice`). That the
  choice is one of the *audio* formats of the offer needs that the payload type of
  a video section is none that `sdp_parse` can settle on (`OfferOK`). Proved for
  any sets of speech formats and any dynamic payload type of phones.
- **Session cap.** `CountMatches` alone is not inductive: `Admit` decides on a
  number read before other threads went on. `CountedInTime` says that it counts
  every session there still is, since in between they can only become fewer.
  Every step of a session but its last is shown to leave the counters alone.
  `SessionCap` follows.
- **The queues of `modem_fsk`** (`SessionTypes`). What is read from the data peer is
  sized by a room that was computed before `select` (`modem_fsk.c:362`), and in
  between the banner goes into the same queue. `RoomIsThere` says that the room is
  there nevertheless, `BannerFirst` why: the banner is only queued while no data
  peer is connected, and then nothing is read from one.
- **The far end** (`FarReads`). `FarReadsInOrder` speaks of a byte when the deframer
  has it; `InStepInv` says how it comes to have it. The deframer is a fixed number
  of samples behind the framer (`At`): up to the middle of a bit it waits for this
  bit, afterwards for the next, and its clock is a known distance off. What it is
  owed (`Unread`) is what is queued and the byte in hand, unless it has read that
  already. While the lead-in lasts the framer is idle, and what is left of the
  lead-in is at least what the window still lacks. The hypothesis
  `RxWindow <= LeadIn` is where the lead-in is needed: the 300 ms of the default
  are 2400 samples, the longest window, that of V.23, 160. `-C 0` is
  permitted and outside the theorem; the mutation without a lead-in shows that the
  first byte is lost then. After a break nothing is claimed.
- **Order of the bytes to the line.** `Due` is what is queued beyond the cursor
  and then what is unread. The invariant says that byte *i* of it is the one *i*
  places after the last on the line (`InOrder`), and adds that the peer's next
  byte follows on the last due (`NextFollows`; without it a write would break
  the order) and that the peer is dialled with nothing due (`DialledEmpty`).
  Compaction, reads and the modem's demand for bits each move the front of `Due`
  or the boundary inside it. `SessionTypes` and `SessionInOrder` follow, for all
  sizes, also those with which a full queue leaves the peer unread.
- **line_sim.** The invariant is `TypeOK /\ MovedInBlock /\ SlipBounded /\
  OneBlockEach /\ FifoFollowsSlip`. A FIFO at cushion plus slip is not enough: it
  could run dry if the slip were not within its bound, and the level counts what
  has been moved of the block in hand. `LineConserves` and `LineFifo` follow.

- **The start-up of two V.22bis modems** (`TrainingInvariant`, `RatesAgreed`,
  `ListenerThere`). A modem knows the other only by what it hears, a line's delay
  late, and both properties say that two state machines that run on timers alone
  come out together. `TrainingInv` therefore numbers symbols. Until the answerer
  has settled on a rate, `Before` says what each side may have sent. The symbol
  with which it settles has number 0; of the *k* symbols it has sent since, the
  caller has heard *u*, the rest is on the line; the caller sends one for each it
  hears, and the answerer has heard *v* of those. The stage and the timers of each
  modem and every symbol on the line are functions of *k*, *u* and *v*, in a
  course at 1200 (`Slow`) and one at 2400 (`Fast`): only the answerer's choice
  between them is open, and the proof shows that the caller takes the same one from
  what it hears. `TrainingAssumption` is what the times of the code must meet:
  600 baud, an S1 that is longer than what it takes to recognise it, a level
  detector that is no further ahead than warm-up and acquisition last, and an
  equalizer that settles while the 200 ms of ones at 2400 leave enough of them to
  be counted. The durations of the stages are those of the code; the delay of the
  line, detector, equalizer and limits of the modems are any. Both statements are
  about a clean line, one that has not faded.

Only model-checked: liveness, which needs fairness and `ENABLED` and is out of
the prover's reach. Every safety and action property that a passing run checks is
proved for every value of the constants; what `reg_backoff_starved` checks is false.

## What is not modelled

SIP text, digest, codecs and the signal processing of the modems and of
`line_sim` (filters, equalizer, tone detection, noise, symbol errors): pure
computation, of which the models take the outcome as a choice. Synchronous
framing (`-y`) of `modem_fsk`. A failing `pthread_create`, whose result
`call_start` ignores, and concurrent `gethostbyname` are undefined or unspecified
behaviour and stay outside. Other traffic that keeps the main loop from its
timers (`sip_interface.c:374`). What is left of the plan:

1. Synchronous framing (`-y`) in `FskFraming`.
2. Decision errors in `V22Handshake`.
