----------------------------- MODULE CallServer -----------------------------
(***************************************************************************)
(* Inbound calls of sip_interface: the main loop (run_register_answer or   *)
(* run_passive), the call table with its cap, the dispatch pipes, and one  *)
(* thread per call (call_thread), against callers that retransmit over a   *)
(* network that loses and reorders.                                        *)
(*                                                                         *)
(* Only the main thread touches the table (calls_mutex is never contended),*)
(* so a pass of the main loop is two steps: route what select returned,    *)
(* then reap.  Threads run between them.  The list srv->calls is a set:    *)
(* OneCallPerId makes its order unobservable.                              *)
(*                                                                         *)
(* The timers of call_thread (retransmission of the 200, the 32 s wait for *)
(* the ACK) may fire at any time; Registration models such a schedule.     *)
(***************************************************************************)
EXTENDS Naturals, Sequences, FiniteSets

CONSTANTS
    Ids, NoId,      \* Call-IDs; the value of an unused entry
    Threads,        \* call_t objects; none free: calloc, pipe or thread limits reached
    MaxCalls,       \* srv->max_calls, 0 for unlimited
    Passive,        \* run_passive rather than run_register_answer
    StreamHeader,   \* srv->stream_header (-H)
    Vanishes,       \* callers may disappear without a BYE
    DelayedInvites, \* an INVITE may be in flight after its caller has been answered
    PipeCap,        \* bound: messages a pipe holds before a write to it blocks
    MaxNet          \* bound: datagrams in flight in each direction

ASSUME SetsAssumption == IsFiniteSet(Ids) /\ IsFiniteSet(Threads) /\ NoId \notin Ids
ASSUME BoundsAssumption ==
    /\ MaxCalls \in Nat /\ PipeCap \in Nat \ {0} /\ MaxNet \in Nat
    /\ {Passive, StreamHeader, Vanishes, DelayedInvites} \subseteq BOOLEAN

Methods == {"INVITE", "ACK", "BYE", "CANCEL"}
Requests == [id : Ids, method : Methods]
Responses == [id : Ids, kind : {"ok", "fail", "byeok"}]     \* provisionals change nothing

VARIABLES
    main,       \* where the main loop is: "select", "write" (blocked) or "reap"
    routing,    \* while main = "write": the request being written, in a set
    calls,      \* the call table
    call_id,    \* the Call-ID of a call
    pc,         \* where the thread of a call is
    pipe,       \* the dispatch pipe of a call, as the messages written to it
    tcp,        \* the audio socket of a call is open
    net,        \* requests in flight to us
    resp,       \* responses in flight to the callers
    caller,     \* what each caller believes about its call
    pass_dead   \* history: threads that had ended when the current pass began

threadVars == <<pc, pipe, tcp>>
vars == <<main, routing, calls, call_id, threadVars, net, resp, caller, pass_dead>>

Dead == {t \in Threads : pc[t] = "done"}
Live == {t \in Threads : pc[t] \notin {"free", "done"}}
Free == {t \in Threads : pc[t] = "free"}
CallsOf(id) == {t \in calls : call_id[t] = id}

\* A datagram sent beyond the bound is lost.
Send(flying, msgs) == IF Cardinality(flying \cup msgs) <= MaxNet THEN flying \cup msgs
                      ELSE flying
Request(id, method) == [id |-> id, method |-> method]
Response(id, kind) == [id |-> id, kind |-> kind]

Init ==
    /\ main = "select" /\ routing = {} /\ calls = {}
    /\ call_id = [t \in Threads |-> NoId]
    /\ pc = [t \in Threads |-> "free"]
    /\ pipe = [t \in Threads |-> <<>>]
    /\ tcp = [t \in Threads |-> FALSE]
    /\ net = {} /\ resp = {}
    /\ caller = [i \in Ids |-> "idle"]
    /\ pass_dead = {}

-----------------------------------------------------------------------------
(* The main loop. *)

\* call_dispatch: the write goes into the pipe of the call; if its thread is gone
\* it fails with EPIPE and the message is lost; a full pipe blocks the main loop.
Dispatch(req, t) ==
    /\ \/ /\ pc[t] = "done"
          /\ main' = "reap" /\ routing' = {}
          /\ UNCHANGED pipe
       \/ /\ pc[t] # "done" /\ Len(pipe[t]) < PipeCap
          /\ pipe' = [pipe EXCEPT ![t] = Append(@, req.method)]
          /\ main' = "reap" /\ routing' = {}
       \/ /\ pc[t] # "done" /\ Len(pipe[t]) = PipeCap
          /\ main' = "write" /\ routing' = {req}
          /\ UNCHANGED pipe
    /\ UNCHANGED <<calls, call_id, pc, tcp, resp>>

\* Mutation of Busy: off by one.
BusyLate == MaxCalls > 0 /\ Cardinality(calls) > MaxCalls

Busy == MaxCalls > 0 /\ Cardinality(calls) >= MaxCalls

\* call_start: 486 at the cap, 415 for an offer without a usable codec, no answer
\* when an allocation fails; otherwise a thread is created and entered in the table.
CallStart(id) ==
    /\ main' = "reap" /\ UNCHANGED routing
    /\ \/ /\ resp' = Send(resp, {Response(id, "fail")})        \* 486 or 415
          /\ UNCHANGED <<calls, call_id, threadVars>>
       \/ /\ ~Busy /\ Free = {}
          /\ UNCHANGED <<calls, call_id, threadVars, resp>>
       \/ /\ ~Busy
          /\ \E t \in Free :
                /\ calls' = calls \cup {t}
                /\ call_id' = [call_id EXCEPT ![t] = id]
                /\ pc' = [pc EXCEPT ![t] = "connect"]
          /\ UNCHANGED <<pipe, tcp, resp>>

\* Mutation of Receive: a retransmitted INVITE is not looked up in the table.
ReceiveAlwaysStarts(req) ==
    /\ main = "select" /\ req \in net
    /\ net' = net \ {req}
    /\ pass_dead' = Dead
    /\ \/ req.method # "INVITE" /\ \E t \in CallsOf(req.id) : Dispatch(req, t)
       \/ req.method = "INVITE" /\ CallStart(req.id)
       \/ /\ CallsOf(req.id) = {} /\ req.method # "INVITE"
          /\ main' = "reap"
          /\ UNCHANGED <<routing, calls, call_id, threadVars, resp>>
    /\ UNCHANGED caller

\* select returned a request: route_request.
Receive(req) ==
    /\ main = "select" /\ req \in net
    /\ net' = net \ {req}
    /\ pass_dead' = Dead
    /\ \/ \E t \in CallsOf(req.id) : Dispatch(req, t)
       \/ /\ CallsOf(req.id) = {} /\ req.method = "INVITE"
          /\ CallStart(req.id)
       \/ /\ CallsOf(req.id) = {} /\ req.method # "INVITE"
          /\ main' = "reap"
          /\ UNCHANGED <<routing, calls, call_id, threadVars, resp>>
    /\ UNCHANGED caller

\* The blocked write of a dispatch goes through, or fails when the thread ends.
FinishWrite ==
    /\ main = "write"
    /\ \E req \in routing : \E t \in CallsOf(req.id) :
          /\ Len(pipe[t]) < PipeCap \/ pc[t] = "done"
          /\ Dispatch(req, t)
    /\ UNCHANGED <<net, caller, pass_dead>>

\* Mutation of OtherTraffic: a datagram that is no request of a call ends the pass
\* before call_reap.
OtherTrafficSkipsReap ==
    /\ main = "select"
    /\ pass_dead' = Dead
    /\ UNCHANGED <<main, routing, calls, call_id, threadVars, net, resp, caller>>

\* select returned something else: a REGISTER or the answer to one of ours.
OtherTraffic ==
    /\ main = "select"
    /\ main' = "reap"
    /\ pass_dead' = Dead
    /\ UNCHANGED <<routing, calls, call_id, threadVars, net, resp, caller>>

\* select timed out: run_passive goes on to reap, run_register_answer serves a
\* timer of the registration and continues with the next pass.
TimerPass ==
    /\ main = "select"
    /\ main' = IF Passive THEN "reap" ELSE "select"
    /\ pass_dead' = Dead
    /\ UNCHANGED <<routing, calls, call_id, threadVars, net, resp, caller>>

\* Mutation of Reap: it does not wait for a dispatch in progress.
ReapAnyTime ==
    /\ main \in {"reap", "write"}
    /\ main' = IF main = "reap" THEN "select" ELSE main
    /\ calls' = calls \ Dead
    /\ pc' = [t \in Threads |-> IF t \in Dead THEN "free" ELSE pc[t]]
    /\ call_id' = [t \in Threads |-> IF t \in Dead THEN NoId ELSE call_id[t]]
    /\ UNCHANGED <<routing, pipe, tcp, net, resp, caller, pass_dead>>

\* call_reap: joins every thread that has ended and drops its entry.
Reap ==
    /\ main = "reap"
    /\ main' = "select"
    /\ calls' = calls \ Dead
    /\ pc' = [t \in Threads |-> IF t \in Dead THEN "free" ELSE pc[t]]
    /\ call_id' = [t \in Threads |-> IF t \in Dead THEN NoId ELSE call_id[t]]
    /\ UNCHANGED <<routing, pipe, tcp, net, resp, caller, pass_dead>>

MainLoop == (\E req \in Requests : Receive(req)) \/ FinishWrite \/ TimerPass \/ Reap

-----------------------------------------------------------------------------
(* The thread of a call: call_thread. *)

\* done: closes the sockets and its end of the pipe and ends.
Exit(t) ==
    /\ pc' = [pc EXCEPT ![t] = "done"]
    /\ pipe' = [pipe EXCEPT ![t] = <<>>]
    /\ tcp' = [tcp EXCEPT ![t] = FALSE]

\* tcp_connect, then the stream header; a header that cannot be written closes
\* the socket and the call goes on without it.
Connect(t) ==
    /\ pc[t] = "connect"
    /\ \/ /\ Exit(t)
          /\ resp' = Send(resp, {Response(call_id[t], "fail")})
       \/ /\ pc' = [pc EXCEPT ![t] = "answer"]
          /\ \E written \in {TRUE} \cup {~StreamHeader} : tcp' = [tcp EXCEPT ![t] = written]
          /\ UNCHANGED <<pipe, resp>>
    /\ UNCHANGED <<main, routing, calls, call_id, net, caller, pass_dead>>

\* Mutation of Answer: audio starts with the 200, without waiting for the ACK.
AnswerWithoutAck(t) ==
    /\ pc[t] = "answer"
    /\ pc' = [pc EXCEPT ![t] = "bridge"]
    /\ resp' = Send(resp, {Response(call_id[t], "ok")})
    /\ UNCHANGED <<main, routing, calls, call_id, pipe, tcp, net, caller, pass_dead>>

\* bind_rtp: answers with 200 OK, or 500 if no RTP port can be bound.
Answer(t) ==
    /\ pc[t] = "answer"
    /\ \/ /\ Exit(t)
          /\ resp' = Send(resp, {Response(call_id[t], "fail")})
       \/ /\ pc' = [pc EXCEPT ![t] = "await_ack"]
          /\ resp' = Send(resp, {Response(call_id[t], "ok")})
          /\ UNCHANGED <<pipe, tcp>>
    /\ UNCHANGED <<main, routing, calls, call_id, net, caller, pass_dead>>

\* The wait for the ACK reads the pipe.  A read takes everything that was
\* written since the last one, and sip_method sees the first message only.
ReadAwaitingAck(t) ==
    /\ pc[t] = "await_ack" /\ pipe[t] # <<>>
    /\ pipe' = [pipe EXCEPT ![t] = <<>>]
    /\ pc' = IF Head(pipe[t]) = "ACK" THEN [pc EXCEPT ![t] = "bridge"] ELSE pc
    /\ resp' = IF Head(pipe[t]) = "INVITE"
               THEN Send(resp, {Response(call_id[t], "ok")}) ELSE resp
    /\ UNCHANGED <<main, routing, calls, call_id, tcp, net, caller, pass_dead>>

ResendOk(t) ==
    /\ pc[t] = "await_ack"
    /\ resp' = Send(resp, {Response(call_id[t], "ok")})
    /\ UNCHANGED <<main, routing, calls, call_id, threadVars, net, caller, pass_dead>>

AckTimeout(t) ==
    /\ pc[t] = "await_ack"
    /\ Exit(t)
    /\ UNCHANGED <<main, routing, calls, call_id, net, resp, caller, pass_dead>>

\* Mutations of ReadBridging: a BYE is answered but the loop goes on; only a BYE is
\* taken from the pipe.
ReadBridgingGoesOn(t) ==
    /\ pc[t] = "bridge" /\ pipe[t] # <<>>
    /\ pipe' = [pipe EXCEPT ![t] = <<>>]
    /\ resp' = CASE Head(pipe[t]) = "BYE" -> Send(resp, {Response(call_id[t], "byeok")})
                 [] Head(pipe[t]) = "INVITE" -> Send(resp, {Response(call_id[t], "ok")})
                 [] OTHER -> resp
    /\ UNCHANGED <<main, routing, calls, call_id, pc, tcp, net, caller, pass_dead>>
ReadBridgingByeOnly(t) ==
    /\ pc[t] = "bridge" /\ pipe[t] # <<>> /\ Head(pipe[t]) = "BYE"
    /\ Exit(t)
    /\ resp' = Send(resp, {Response(call_id[t], "byeok")})
    /\ UNCHANGED <<main, routing, calls, call_id, net, caller, pass_dead>>

\* io_loop reads the pipe: only a BYE ends the call.
ReadBridging(t) ==
    /\ pc[t] = "bridge" /\ pipe[t] # <<>>
    /\ \/ /\ Head(pipe[t]) = "BYE"
          /\ Exit(t)
          /\ resp' = Send(resp, {Response(call_id[t], "byeok")})
       \/ /\ Head(pipe[t]) = "INVITE"
          /\ pipe' = [pipe EXCEPT ![t] = <<>>]
          /\ resp' = Send(resp, {Response(call_id[t], "ok")})
          /\ UNCHANGED <<pc, tcp>>
       \/ /\ Head(pipe[t]) \notin {"BYE", "INVITE"}
          /\ pipe' = [pipe EXCEPT ![t] = <<>>]
          /\ UNCHANGED <<pc, tcp, resp>>
    /\ UNCHANGED <<main, routing, calls, call_id, net, caller, pass_dead>>

\* io_loop sees the TCP peer close, or a write to it fails: the socket is closed,
\* the loop goes on.
TcpCloses(t) ==
    /\ pc[t] = "bridge" /\ tcp[t]
    /\ tcp' = [tcp EXCEPT ![t] = FALSE]
    /\ UNCHANGED <<main, routing, calls, call_id, pc, pipe, net, resp, caller, pass_dead>>

ThreadStep(t) ==
    Connect(t) \/ Answer(t) \/ ReadAwaitingAck(t) \/ AckTimeout(t) \/ ReadBridging(t)

-----------------------------------------------------------------------------
(* The callers and the network (external): RFC 3261 user agents. *)

CallerSends(id, from, to, methods) ==
    /\ caller[id] \in from
    /\ caller' = [caller EXCEPT ![id] = to]
    /\ net' = Send(net, {Request(id, m) : m \in methods})
    /\ UNCHANGED <<main, routing, calls, call_id, threadVars, resp, pass_dead>>

Invite(id) == CallerSends(id, {"idle"}, "calling", {"INVITE"})
Cancel(id) == CallerSends(id, {"calling"}, "cancelling", {"CANCEL"})
HangUp(id) == CallerSends(id, {"up"}, "hanging", {"BYE"})

Retransmit(id) ==
    \/ CallerSends(id, {"calling"}, "calling", {"INVITE"})
    \/ CallerSends(id, {"hanging"}, "hanging", {"BYE"})

\* What a caller believes after a response, and what it sends: it ACKs every 200;
\* one that had cancelled hangs up at once.
Turn(was, kind) ==
    CASE kind = "ok" /\ was = "calling" -> "up"
      [] kind = "ok" /\ was = "cancelling" -> "hanging"
      [] kind = "fail" /\ was \in {"calling", "cancelling"} -> "over"
      [] kind = "byeok" /\ was = "hanging" -> "over"
      [] OTHER -> was
Replies(was, kind) ==
    IF kind = "ok" /\ was \in {"calling", "cancelling", "up", "hanging"}
    THEN {"ACK"} \cup (IF was = "cancelling" THEN {"BYE"} ELSE {})
    ELSE {}

CallerReceives(r) ==
    /\ r \in resp
    /\ resp' = resp \ {r}
    /\ caller' = [caller EXCEPT ![r.id] = Turn(@, r.kind)]
    /\ LET late == IF r.kind = "ok" /\ ~DelayedInvites THEN {Request(r.id, "INVITE")} ELSE {}
       IN  net' = Send(net \ late, {Request(r.id, m) : m \in Replies(caller[r.id], r.kind)})
    /\ UNCHANGED <<main, routing, calls, call_id, threadVars, pass_dead>>

Vanish(id) ==
    /\ Vanishes
    /\ caller[id] \notin {"idle", "over"}
    /\ caller' = [caller EXCEPT ![id] = "over"]
    /\ UNCHANGED <<main, routing, calls, call_id, threadVars, net, resp, pass_dead>>

Lose ==
    /\ \/ \E req \in net : net' = net \ {req} /\ UNCHANGED resp
       \/ \E r \in resp : resp' = resp \ {r} /\ UNCHANGED net
    /\ UNCHANGED <<main, routing, calls, call_id, threadVars, caller, pass_dead>>

-----------------------------------------------------------------------------
Next ==
    \/ MainLoop \/ OtherTraffic
    \/ \E t \in Threads : ThreadStep(t) \/ ResendOk(t) \/ TcpCloses(t)
    \/ \E id \in Ids : Invite(id) \/ Cancel(id) \/ HangUp(id) \/ Retransmit(id) \/ Vanish(id)
    \/ \E r \in Responses : CallerReceives(r)
    \/ Lose

Spec == Init /\ [][Next]_vars

\* Threads and the main loop are scheduled; the wait for the ACK is over after 32 s
\* whatever is read meanwhile; a datagram that is sent again and again is received
\* again and again; a caller that hangs up keeps sending its BYE.  A server that has
\* registered renews for ever (NeverSilent of Registration), so a main loop that keeps
\* coming to select keeps finding the registrar's answers there; in passive mode nobody
\* owes the server a datagram.
FairSpec ==
    /\ Spec
    /\ WF_vars(FinishWrite) /\ WF_vars(TimerPass) /\ WF_vars(Reap)
    /\ ~Passive => SF_vars(OtherTraffic)
    /\ \A req \in Requests : []<>(req \in net) => []<><<Receive(req)>>_vars
    /\ \A t \in Threads : WF_vars(ThreadStep(t)) /\ WF_vars(AckTimeout(t))
    /\ \A id \in Ids : WF_vars(Retransmit(id))

-----------------------------------------------------------------------------
(* Properties. *)

TypeOK ==
    /\ main \in {"select", "write", "reap"}
    /\ routing \in SUBSET Requests
    /\ calls \in SUBSET Threads
    /\ call_id \in [Threads -> Ids \cup {NoId}]
    /\ pc \in [Threads -> {"free", "connect", "answer", "await_ack", "bridge", "done"}]
    /\ pipe \in [Threads -> Seq(Methods)] /\ \A t \in Threads : Len(pipe[t]) <= PipeCap
    /\ tcp \in [Threads -> BOOLEAN]
    /\ net \in SUBSET Requests /\ resp \in SUBSET Responses
    /\ caller \in [Ids -> {"idle", "calling", "cancelling", "up", "hanging", "over"}]
    /\ pass_dead \in SUBSET Threads

\* The table holds exactly the calls whose thread exists, running or ended: no
\* thread is lost to the reaper and no entry outlives its thread.
TableMatchesThreads == calls = Threads \ Free

\* A Call-ID has at most one entry, however often its INVITE was retransmitted,
\* delayed past the end of the call or raced with the thread's exit.
OneCallPerId == \A t, u \in calls : call_id[t] = call_id[u] => t = u

\* The cap on concurrent calls holds for the threads, not only when an INVITE is
\* checked.
CapRespected == MaxCalls > 0 => Cardinality(Live) <= MaxCalls

\* A message the main loop is blocked on belongs to a call that is in the table, so
\* the write end it is blocked on stays open and its call is not freed under it.
WriteHasTarget ==
    main = "write" => \E req \in routing : \E t \in calls : call_id[t] = req.id

\* A call is answered only with its audio socket open (call.c:684: a failure to
\* reach the peer surfaces as 500 "instead of as a dead call").
AnsweredHasBackend == \A t \in Threads : pc[t] = "await_ack" => tcp[t]

\* A thread that had ended when a pass of the main loop began is gone when the pass
\* is over (call.c:779: "any already-terminated threads will be cleared by
\* call_reap() on the main loop's next pass").
ReapedByNextPass == main = "select" => pass_dead \cap Dead = {}

\* Every call that ends is reaped in the end.  With a registrar the timer passes do
\* not reap (sip_interface.c:398), only those that serve a datagram do: the entry of an
\* ended call, which counts against the cap, waits for one.
EndedIsReaped == \A t \in Threads : pc[t] = "done" ~> pc[t] = "free"

\* A caller that hangs up and keeps sending its BYE frees the call, even when the
\* BYE overtakes the ACK or is read together with an earlier message.
HangUpEndsCall ==
    \A id \in Ids : caller[id] = "hanging" ~> \A t \in Live : call_id[t] # id

\* The main loop never stays blocked in the write to a dispatch pipe.
MainLoopReturns == main # "select" ~> main = "select"

\* The end of the TCP connection ends the call (README.md:100: "Either side closing
\* the TCP connection ends the bridge").
TcpCloseEndsCall ==
    \A t \in Threads : pc[t] = "bridge" /\ ~tcp[t] ~> pc[t] # "bridge"

\* The phase of the call of a Call-ID, as CallLifecycle sees it.
PhaseOf == [connect |-> "ringing", answer |-> "ringing", await_ack |-> "answered",
            bridge |-> "up", done |-> "ended"]
Phase(id) == IF CallsOf(id) = {} THEN "none"
             ELSE PhaseOf[pc[CHOOSE t \in CallsOf(id) : TRUE]]

Lifecycle == INSTANCE CallLifecycle WITH phase <- [id \in Ids |-> Phase(id)]

\* The server implements CallLifecycle: every step of the main loop, of a thread, of
\* a caller or of the network is a step of some call's life or changes none.  A
\* Call-ID is not answered twice, does not ring again before the thread of its last
\* call is reaped, and never rings beyond the cap.
ImplementsLifecycle == Lifecycle!Spec
=============================================================================
