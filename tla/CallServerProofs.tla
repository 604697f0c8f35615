-------------------------- MODULE CallServerProofs --------------------------
(***************************************************************************)
(* Safety of the call table, and that CallServer implements CallLifecycle, *)
(* for any set of Call-IDs and call objects, any cap and any bounds of the *)
(* pipes and of the network.                                               *)
(***************************************************************************)
EXTENDS CallServer, FiniteSetTheorems, FunctionTheorems, TLAPS

\* CapRespected speaks of running threads, which no action counts: what call_start
\* keeps below the cap is the table, ended calls included.
TableWithinCap == MaxCalls > 0 => Cardinality(calls) <= MaxCalls

\* The answers a thread sends name its call: an entry of the table has a Call-ID.
EntriesNamed == \A t \in calls : call_id[t] \in Ids

Table ==
    /\ TableMatchesThreads /\ OneCallPerId /\ TableWithinCap
    /\ WriteHasTarget /\ EntriesNamed

IInv == TypeOK /\ Table

-----------------------------------------------------------------------------
(* Lemmas. *)

\* Sending keeps a set of datagrams a set of datagrams of the same kind.
LEMMA SendType ==
    ASSUME NEW S, NEW flying \in SUBSET S, NEW msgs \in SUBSET S
    PROVE  Send(flying, msgs) \in SUBSET S
BY DEF Send

\* The messages the code and the callers exchange are in the model's alphabets.
LEMMA MessageType ==
    ASSUME NEW id \in Ids
    PROVE  /\ \A m \in Methods : Request(id, m) \in Requests
           /\ \A k \in {"ok", "fail", "byeok"} : Response(id, k) \in Responses
BY DEF Requests, Responses, Request, Response

\* A step that leaves the main loop, the table, the Call-IDs and the number of
\* threads alone keeps what the table promises.
LEMMA TableUntouched ==
    ASSUME IInv, UNCHANGED <<main, routing, calls, call_id>>, Free' = Free
    PROVE  Table'
BY DEF IInv, Table, TableMatchesThreads, OneCallPerId, TableWithinCap, WriteHasTarget,
       EntriesNamed

\* Every table is finite and removing entries never exceeds the cap.
LEMMA TableFinite ==
    ASSUME NEW S \in SUBSET Threads, NEW U \in SUBSET S
    PROVE  /\ IsFiniteSet(S) /\ IsFiniteSet(U)
           /\ Cardinality(S) \in Nat /\ Cardinality(U) \in Nat
           /\ Cardinality(U) <= Cardinality(S)
<1>1. IsFiniteSet(S)
  BY SetsAssumption, FS_Subset
<1>2. IsFiniteSet(U) /\ Cardinality(U) <= Cardinality(S)
  BY <1>1, FS_Subset
<1> QED
  BY <1>1, <1>2, FS_CardinalityType

-----------------------------------------------------------------------------
(* The steps. *)

\* The initial state: an empty table.
LEMMA InitIInv == Init => IInv
<1> SUFFICES ASSUME Init PROVE IInv
  OBVIOUS
<1>1. TypeOK
  <2>1. <<>> \in Seq(Methods) /\ Len(<<>>) = 0
    OBVIOUS
  <2> QED
    BY <2>1, BoundsAssumption DEF Init, TypeOK
<1>2. TableMatchesThreads /\ OneCallPerId /\ WriteHasTarget /\ EntriesNamed
  BY DEF Init, TableMatchesThreads, OneCallPerId, WriteHasTarget, EntriesNamed, Free
<1>3. TableWithinCap
  BY FS_EmptySet, BoundsAssumption DEF Init, TableWithinCap
<1> QED
  BY <1>1, <1>2, <1>3 DEF IInv, Table

\* A write to a dispatch pipe, done, failed or blocked.
LEMMA DispatchKeepsIInv ==
    ASSUME IInv, NEW req \in Requests, NEW t \in CallsOf(req.id), Dispatch(req, t),
           net' \in SUBSET Requests, UNCHANGED caller, pass_dead' \in SUBSET Threads
    PROVE  IInv'
<1>1. t \in Threads /\ req.method \in Methods
  BY DEF IInv, TypeOK, CallsOf, Requests
<1>2. Append(pipe[t], req.method) \in Seq(Methods)
  BY <1>1 DEF IInv, TypeOK
<1>3. TypeOK'
  <2>1. pipe' \in [Threads -> Seq(Methods)] /\ \A u \in Threads : Len(pipe'[u]) <= PipeCap
    <3>1. Len(Append(pipe[t], req.method)) = Len(pipe[t]) + 1 /\ Len(pipe[t]) \in Nat
      BY <1>1 DEF IInv, TypeOK
    <3>2. CASE UNCHANGED pipe
      BY <3>2 DEF IInv, TypeOK
    <3>3. CASE Len(pipe[t]) < PipeCap /\ pipe' = [pipe EXCEPT ![t] = Append(@, req.method)]
      BY <1>1, <1>2, <3>1, <3>3, BoundsAssumption DEF IInv, TypeOK
    <3> QED
      BY <3>2, <3>3 DEF Dispatch
  <2> QED
    BY <2>1 DEF IInv, TypeOK, Dispatch
<1>4. TableMatchesThreads' /\ OneCallPerId' /\ TableWithinCap' /\ EntriesNamed'
  BY DEF IInv, Table, TableMatchesThreads, OneCallPerId, TableWithinCap, EntriesNamed,
         Free, Dispatch
<1>5. WriteHasTarget'
  BY DEF WriteHasTarget, Dispatch, CallsOf
<1> QED
  BY <1>3, <1>4, <1>5 DEF IInv, Table

\* A new INVITE: refused, dropped, or entered in the table with a new thread.
LEMMA CallStartKeepsIInv ==
    ASSUME IInv, NEW id \in Ids, CallsOf(id) = {}, CallStart(id),
           net' \in SUBSET Requests, UNCHANGED caller, pass_dead' \in SUBSET Threads
    PROVE  IInv'
<1>1. Response(id, "fail") \in Responses
  BY MessageType
<1>2. CASE UNCHANGED <<calls, call_id, threadVars>> /\ resp' \in SUBSET Responses
  <2>1. TypeOK'
    BY <1>2 DEF IInv, TypeOK, CallStart, threadVars
  <2>2. Table'
    BY <1>2 DEF IInv, Table, TableMatchesThreads, OneCallPerId, TableWithinCap,
                WriteHasTarget, EntriesNamed, Free, CallStart, threadVars
  <2> QED
    BY <2>1, <2>2 DEF IInv
<1>3. ASSUME ~Busy, NEW t \in Free,
             calls' = calls \cup {t},
             call_id' = [call_id EXCEPT ![t] = id],
             pc' = [pc EXCEPT ![t] = "connect"],
             UNCHANGED <<pipe, tcp, resp>>
      PROVE  IInv'
  <2>1. t \in Threads /\ t \notin calls
    BY DEF IInv, Table, TableMatchesThreads, Free
  <2>2. TypeOK'
    BY <1>3, <2>1 DEF IInv, TypeOK, CallStart
  <2>3. TableMatchesThreads'
    BY <1>3, <2>1 DEF IInv, TypeOK, Table, TableMatchesThreads, Free
  <2>4. OneCallPerId' /\ EntriesNamed'
    BY <1>3, <2>1 DEF IInv, TypeOK, Table, OneCallPerId, EntriesNamed, CallsOf
  <2>5. TableWithinCap'
    <3> SUFFICES ASSUME MaxCalls > 0 PROVE Cardinality(calls') <= MaxCalls
      BY DEF TableWithinCap
    <3>1. IsFiniteSet(calls) /\ Cardinality(calls) \in Nat
      BY TableFinite DEF IInv, TypeOK
    <3>2. Cardinality(calls') = Cardinality(calls) + 1
      BY <3>1, <1>3, <2>1, FS_AddElement
    <3>3. Cardinality(calls) < MaxCalls
      BY <3>1, <1>3, BoundsAssumption DEF Busy
    <3> QED
      BY <3>1, <3>2, <3>3, BoundsAssumption
  <2>6. WriteHasTarget'
    BY DEF WriteHasTarget, CallStart
  <2> QED
    BY <2>2, <2>3, <2>4, <2>5, <2>6 DEF IInv, Table
<1>4. CASE resp' = Send(resp, {Response(id, "fail")})
           /\ UNCHANGED <<calls, call_id, threadVars>>
  <2>1. resp' \in SUBSET Responses
    BY <1>4, <1>1, SendType DEF IInv, TypeOK
  <2> QED
    BY <2>1, <1>2, <1>4
<1>5. CASE UNCHANGED <<calls, call_id, threadVars, resp>>
  BY <1>2, <1>5 DEF IInv, TypeOK
<1> QED
  BY <1>3, <1>4, <1>5 DEF CallStart

\* A pass of the main loop: routing, finishing a blocked write, other traffic, a
\* timer, reaping.
LEMMA MainLoopKeepsIInv ==
    ASSUME IInv, MainLoop \/ OtherTraffic
    PROVE  IInv'
<1>0. Dead \in SUBSET Threads
  BY DEF Dead
<1>1. ASSUME NEW req \in Requests, Receive(req) PROVE IInv'
  <2>1. net' \in SUBSET Requests /\ UNCHANGED caller /\ pass_dead' \in SUBSET Threads
    BY <1>0, <1>1 DEF Receive, IInv, TypeOK
  <2>2. ASSUME NEW t \in CallsOf(req.id), Dispatch(req, t) PROVE IInv'
    BY <2>1, <2>2, DispatchKeepsIInv
  <2>3. CASE CallsOf(req.id) = {} /\ CallStart(req.id)
    <3>1. req.id \in Ids
      BY DEF Requests
    <3> QED
      BY <2>1, <2>3, <3>1, CallStartKeepsIInv
  <2>4. CASE main' = "reap" /\ UNCHANGED <<routing, calls, call_id, threadVars, resp>>
    BY <2>1, <2>4 DEF IInv, TypeOK, Table, TableMatchesThreads, OneCallPerId,
                      TableWithinCap, WriteHasTarget, EntriesNamed, Free, threadVars
  <2> QED
    BY <1>1, <2>2, <2>3, <2>4 DEF Receive
<1>2. CASE FinishWrite
  <2>1. PICK req \in routing : \E t \in CallsOf(req.id) : Dispatch(req, t)
    BY <1>2 DEF FinishWrite
  <2>2. req \in Requests
    BY <2>1 DEF IInv, TypeOK
  <2>3. net' \in SUBSET Requests /\ UNCHANGED caller /\ pass_dead' \in SUBSET Threads
    BY <1>2 DEF FinishWrite, IInv, TypeOK
  <2> QED
    BY <2>1, <2>2, <2>3, DispatchKeepsIInv
<1>3. CASE TimerPass \/ OtherTraffic
  <2>1. TypeOK'
    BY <1>0, <1>3 DEF TimerPass, OtherTraffic, IInv, TypeOK, threadVars
  <2>2. Table'
    BY <1>3 DEF TimerPass, OtherTraffic, IInv, Table, TableMatchesThreads,
                OneCallPerId, TableWithinCap, WriteHasTarget, EntriesNamed, Free, threadVars
  <2> QED
    BY <2>1, <2>2 DEF IInv
<1>4. CASE Reap
  <2>1. TypeOK'
    BY <1>4 DEF Reap, IInv, TypeOK
  <2>2. TableMatchesThreads'
    BY <1>4 DEF Reap, IInv, TypeOK, Table, TableMatchesThreads, Free, Dead
  <2>3. OneCallPerId' /\ EntriesNamed'
    BY <1>4 DEF Reap, IInv, TypeOK, Table, OneCallPerId, EntriesNamed
  <2>4. TableWithinCap'
    <3>1. calls \in SUBSET Threads /\ calls' \in SUBSET calls
      BY <1>4 DEF Reap, IInv, TypeOK
    <3>2. /\ Cardinality(calls) \in Nat /\ Cardinality(calls') \in Nat
          /\ Cardinality(calls') <= Cardinality(calls)
      BY <3>1, TableFinite
    <3> QED
      BY <3>2, BoundsAssumption DEF IInv, Table, TableWithinCap
  <2>5. WriteHasTarget'
    BY <1>4 DEF Reap, WriteHasTarget
  <2> QED
    BY <2>1, <2>2, <2>3, <2>4, <2>5 DEF IInv, Table
<1> QED
  BY <1>1, <1>2, <1>3, <1>4 DEF MainLoop

\* What an answered or ending thread changes: its pc, its pipe, its socket and what
\* is in flight to the callers, never which threads exist.
LEMMA ThreadStepFrame ==
    ASSUME IInv, NEW t \in Threads, pc[t] # "free",
           NEW p \in {"answer", "await_ack", "bridge", "done"},
           pc' = [pc EXCEPT ![t] = p],
           pipe' \in {pipe, [pipe EXCEPT ![t] = <<>>]},
           NEW open \in BOOLEAN, tcp' \in {tcp, [tcp EXCEPT ![t] = open]},
           NEW k \in {"ok", "fail", "byeok"},
           resp' \in {resp, Send(resp, {Response(call_id[t], k)})},
           UNCHANGED <<main, routing, calls, call_id, net, caller, pass_dead>>
    PROVE  IInv'
<1>1. call_id[t] \in Ids
  BY DEF IInv, Table, TableMatchesThreads, EntriesNamed, Free
<1>2. resp' \in SUBSET Responses
  BY <1>1, MessageType, SendType DEF IInv, TypeOK
<1>3. pipe' \in [Threads -> Seq(Methods)] /\ \A u \in Threads : Len(pipe'[u]) <= PipeCap
  <2>1. <<>> \in Seq(Methods) /\ Len(<<>>) = 0 /\ 0 <= PipeCap
    BY BoundsAssumption
  <2>2. pipe \in [Threads -> Seq(Methods)] /\ \A u \in Threads : Len(pipe[u]) <= PipeCap
    BY DEF IInv, TypeOK
  <2>3. CASE pipe' = [pipe EXCEPT ![t] = <<>>]
    <3>1. pipe' \in [Threads -> Seq(Methods)]
      BY <2>1, <2>2, <2>3
    <3>2. ASSUME NEW u \in Threads PROVE Len(pipe'[u]) <= PipeCap
      BY <2>1, <2>2, <2>3
    <3> QED
      BY <3>1, <3>2
  <2> QED
    BY <2>2, <2>3
<1>4. TypeOK'
  BY <1>2, <1>3 DEF IInv, TypeOK
<1>5. Free' = Free
  BY DEF IInv, TypeOK, Free
<1> QED
  BY <1>4, <1>5, TableUntouched DEF IInv

\* A step of the thread of a call.
LEMMA ThreadKeepsIInv ==
    ASSUME IInv, NEW t \in Threads, ThreadStep(t) \/ ResendOk(t) \/ TcpCloses(t)
    PROVE  IInv'
<1>0. pc[t] \in {"connect", "answer", "await_ack", "bridge"} /\ pc = [pc EXCEPT ![t] = pc[t]]
  BY DEF IInv, TypeOK, ThreadStep, ResendOk, TcpCloses, Connect, Answer,
         ReadAwaitingAck, AckTimeout, ReadBridging
<1>1. CASE Connect(t)
  <2>1. CASE Exit(t) /\ resp' = Send(resp, {Response(call_id[t], "fail")})
    BY <1>0, <1>1, <2>1, ThreadStepFrame DEF Connect, Exit
  <2>2. CASE /\ pc' = [pc EXCEPT ![t] = "answer"]
             /\ \E written \in {TRUE} \cup {~StreamHeader} : tcp' = [tcp EXCEPT ![t] = written]
             /\ UNCHANGED <<pipe, resp>>
    <3>1. PICK written \in BOOLEAN : tcp' = [tcp EXCEPT ![t] = written]
      BY <2>2, BoundsAssumption
    <3> QED
      BY <1>0, <1>1, <2>2, <3>1, ThreadStepFrame DEF Connect
  <2> QED
    BY <1>1, <2>1, <2>2 DEF Connect
<1>2. CASE Answer(t)
  BY <1>0, <1>2, ThreadStepFrame DEF Answer, Exit
<1>3. CASE ReadAwaitingAck(t)
  <2>1. pc' \in {[pc EXCEPT ![t] = "await_ack"], [pc EXCEPT ![t] = "bridge"]}
    BY <1>0, <1>3 DEF ReadAwaitingAck
  <2>2. resp' \in {resp, Send(resp, {Response(call_id[t], "ok")})}
    BY <1>3 DEF ReadAwaitingAck
  <2> QED
    BY <1>0, <1>3, <2>1, <2>2, ThreadStepFrame DEF ReadAwaitingAck
<1>4. CASE AckTimeout(t)
  BY <1>0, <1>4, ThreadStepFrame DEF AckTimeout, Exit
<1>5. CASE ReadBridging(t)
  <2>1. CASE Exit(t) /\ resp' = Send(resp, {Response(call_id[t], "byeok")})
    BY <1>0, <1>5, <2>1, ThreadStepFrame DEF ReadBridging, Exit
  <2>2. CASE /\ pipe' = [pipe EXCEPT ![t] = <<>>]
             /\ resp' \in {resp, Send(resp, {Response(call_id[t], "ok")})}
             /\ UNCHANGED <<pc, tcp>>
    BY <1>0, <1>5, <2>2, ThreadStepFrame DEF ReadBridging
  <2> QED
    BY <1>5, <2>1, <2>2 DEF ReadBridging
<1>6. CASE ResendOk(t)
  BY <1>0, <1>6, ThreadStepFrame DEF ResendOk, threadVars
<1>7. CASE TcpCloses(t)
  BY <1>0, <1>7, ThreadStepFrame DEF TcpCloses
<1> QED
  BY <1>1, <1>2, <1>3, <1>4, <1>5, <1>6, <1>7 DEF ThreadStep

\* A step of a caller or of the network only moves datagrams.
LEMMA OutsideKeepsIInv ==
    ASSUME IInv, UNCHANGED <<main, routing, calls, call_id, threadVars, pass_dead>>,
           net' \in SUBSET Requests, resp' \in SUBSET Responses,
           caller' \in [Ids -> {"idle", "calling", "cancelling", "up", "hanging", "over"}]
    PROVE  IInv'
<1>1. TypeOK'
  BY DEF IInv, TypeOK, threadVars
<1>2. Free' = Free
  BY DEF Free, threadVars
<1> QED
  BY <1>1, <1>2, TableUntouched DEF IInv

\* A caller's own move: dialling, cancelling, hanging up, retransmitting, vanishing.
LEMMA CallerKeepsIInv ==
    ASSUME IInv, NEW id \in Ids,
           Invite(id) \/ Cancel(id) \/ HangUp(id) \/ Retransmit(id) \/ Vanish(id)
    PROVE  IInv'
<1>1. ASSUME NEW from, NEW to \in {"calling", "cancelling", "hanging"},
             NEW methods \in SUBSET Methods, CallerSends(id, from, to, methods)
      PROVE  IInv'
  <2>1. {Request(id, m) : m \in methods} \in SUBSET Requests
    BY MessageType
  <2>2. net' \in SUBSET Requests
    BY <1>1, <2>1, SendType DEF CallerSends, IInv, TypeOK
  <2>3. caller' \in [Ids -> {"idle", "calling", "cancelling", "up", "hanging", "over"}]
    BY <1>1 DEF CallerSends, IInv, TypeOK
  <2> QED
    BY <1>1, <2>2, <2>3, OutsideKeepsIInv DEF CallerSends, IInv, TypeOK
<1>2. {"INVITE"} \in SUBSET Methods /\ {"CANCEL"} \in SUBSET Methods
      /\ {"BYE"} \in SUBSET Methods
  BY DEF Methods
<1>3. CASE Invite(id) \/ Cancel(id) \/ HangUp(id) \/ Retransmit(id)
  BY <1>1, <1>2, <1>3 DEF Invite, Cancel, HangUp, Retransmit
<1>4. CASE Vanish(id)
  BY <1>4, OutsideKeepsIInv DEF Vanish, IInv, TypeOK
<1> QED
  BY <1>3, <1>4

\* A caller receiving a response.
LEMMA AnswerToCallerKeepsIInv ==
    ASSUME IInv, NEW r \in Responses, CallerReceives(r)
    PROVE  IInv'
<1>1. r.id \in Ids
  BY DEF Responses
<1>2. caller' \in [Ids -> {"idle", "calling", "cancelling", "up", "hanging", "over"}]
  BY <1>1 DEF CallerReceives, Turn, IInv, TypeOK
<1> DEFINE methods == Replies(caller[r.id], r.kind)
           late == IF r.kind = "ok" /\ ~DelayedInvites THEN {Request(r.id, "INVITE")} ELSE {}
<1>3. net' = Send(net \ late, {Request(r.id, m) : m \in methods})
  BY DEF CallerReceives
<1>4. {Request(r.id, m) : m \in methods} \in SUBSET Requests
  <2>1. methods \in SUBSET Methods
    BY DEF Replies, Methods
  <2> QED
    BY <2>1, <1>1, MessageType
<1>5. net \ late \in SUBSET Requests
  BY DEF IInv, TypeOK
<1> HIDE DEF methods, late
<1>6. net' \in SUBSET Requests
  BY <1>3, <1>4, <1>5, SendType
<1>7. resp' \in SUBSET Responses
  BY DEF CallerReceives, IInv, TypeOK
<1>8. UNCHANGED <<main, routing, calls, call_id, threadVars, pass_dead>>
  BY DEF CallerReceives
<1> QED
  BY <1>2, <1>6, <1>7, <1>8, OutsideKeepsIInv

\* Every step preserves the invariant.
LEMMA NextKeepsIInv == IInv /\ [Next]_vars => IInv'
<1> SUFFICES ASSUME IInv, [Next]_vars PROVE IInv'
  OBVIOUS
<1>1. CASE MainLoop \/ OtherTraffic
  BY <1>1, MainLoopKeepsIInv
<1>2. ASSUME NEW t \in Threads, ThreadStep(t) \/ ResendOk(t) \/ TcpCloses(t)
      PROVE  IInv'
  BY <1>2, ThreadKeepsIInv
<1>3. ASSUME NEW id \in Ids,
             Invite(id) \/ Cancel(id) \/ HangUp(id) \/ Retransmit(id) \/ Vanish(id)
      PROVE  IInv'
  BY <1>3, CallerKeepsIInv
<1>4. ASSUME NEW r \in Responses, CallerReceives(r) PROVE IInv'
  BY <1>4, AnswerToCallerKeepsIInv
<1>5. CASE Lose
  BY <1>5, OutsideKeepsIInv DEF Lose, IInv, TypeOK
<1>6. CASE UNCHANGED vars
  <2>1. Free' = Free
    BY <1>6 DEF vars, threadVars, Free
  <2>2. TypeOK'
    BY <1>6 DEF vars, threadVars, IInv, TypeOK
  <2> QED
    BY <1>6, <2>1, <2>2, TableUntouched DEF vars, IInv
<1> QED
  BY <1>1, <1>2, <1>3, <1>4, <1>5, <1>6 DEF Next

-----------------------------------------------------------------------------
(* Theorems. *)

\* The inductive invariant holds in every reachable state.
THEOREM ServerInvariant == Spec => []IInv
<1>1. Init => IInv
  BY InitIInv
<1>2. IInv /\ [Next]_vars => IInv'
  BY NextKeepsIInv
<1> QED
  BY <1>1, <1>2, PTL DEF Spec

\* Types, for any callers and call objects.
THEOREM ServerTypes == Spec => []TypeOK
<1>1. IInv => TypeOK
  BY DEF IInv
<1> QED
  BY <1>1, ServerInvariant, PTL

\* No call thread is ever lost to the reaper and no entry outlives its thread.
THEOREM ServerTable == Spec => []TableMatchesThreads
<1>1. IInv => TableMatchesThreads
  BY DEF IInv, Table
<1> QED
  BY <1>1, ServerInvariant, PTL

\* A Call-ID never has two calls.
THEOREM ServerOneCall == Spec => []OneCallPerId
<1>1. IInv => OneCallPerId
  BY DEF IInv, Table
<1> QED
  BY <1>1, ServerInvariant, PTL

\* The message the main loop is blocked on has its call.
THEOREM ServerWrite == Spec => []WriteHasTarget
<1>1. IInv => WriteHasTarget
  BY DEF IInv, Table
<1> QED
  BY <1>1, ServerInvariant, PTL

\* The running threads never exceed the cap: they are all in the table.
THEOREM ServerCap == Spec => []CapRespected
<1>1. IInv => CapRespected
  <2> SUFFICES ASSUME IInv, MaxCalls > 0 PROVE Cardinality(Live) <= MaxCalls
    BY DEF CapRespected
  <2>1. calls \in SUBSET Threads /\ Live \in SUBSET calls
    BY DEF IInv, TypeOK, Table, TableMatchesThreads, Live, Free
  <2>2. /\ Cardinality(Live) \in Nat /\ Cardinality(calls) \in Nat
        /\ Cardinality(Live) <= Cardinality(calls)
    BY <2>1, TableFinite
  <2>3. Cardinality(calls) <= MaxCalls
    BY DEF IInv, Table, TableWithinCap
  <2> QED
    BY <2>2, <2>3, BoundsAssumption
<1> QED
  BY <1>1, ServerInvariant, PTL

-----------------------------------------------------------------------------
(***************************************************************************)
(* The refinement.  Its mapping reads the phase of a Call-ID off the       *)
(* program counter of its thread, and needs IInv: without one entry per    *)
(* Call-ID a step of one thread would move the phase of two calls, and     *)
(* without an entry for every thread a call would be forgotten while its   *)
(* thread runs.                                                            *)
(***************************************************************************)

\* The phases of all Call-IDs, the value of CallLifecycle's variable.
phases == [id \in Ids |-> Phase(id)]

\* A step of the life cycle, or none.
LifecycleStep == Lifecycle!Next \/ phases' = phases

(* The mapping. *)

\* The phases of a thread that is not free.
LEMMA PhaseValues ==
    /\ PhaseOf["connect"] = "ringing" /\ PhaseOf["answer"] = "ringing"
    /\ PhaseOf["await_ack"] = "answered" /\ PhaseOf["bridge"] = "up"
    /\ PhaseOf["done"] = "ended"
BY DEF PhaseOf

\* An entry of the table is the only one of its Call-ID and decides its phase.
LEMMA PhaseOfEntry ==
    ASSUME IInv, NEW t \in calls
    PROVE  /\ t \in Threads /\ call_id[t] \in Ids
           /\ CallsOf(call_id[t]) = {t}
           /\ Phase(call_id[t]) = PhaseOf[pc[t]]
<1>1. t \in Threads /\ call_id[t] \in Ids
  BY DEF IInv, TypeOK, Table, EntriesNamed
<1>2. CallsOf(call_id[t]) = {t}
  BY DEF IInv, Table, OneCallPerId, CallsOf
<1>3. (CHOOSE u \in {t} : TRUE) = t
  OBVIOUS
<1>. QED BY <1>1, <1>2, <1>3 DEF Phase

\* A Call-ID that is known has an entry.
LEMMA EntryOfPhase ==
    ASSUME NEW id \in Ids, Phase(id) # "none"
    PROVE  \E t \in calls : call_id[t] = id
BY DEF Phase, CallsOf

\* Phases follow the table, the Call-IDs and the threads alone.
LEMMA PhasesKept == UNCHANGED <<calls, call_id, pc>> => phases' = phases
BY DEF phases, Phase, CallsOf

\* A step of one thread is a step of one call.
LEMMA ThreadMoves ==
    ASSUME IInv, NEW t \in Threads, pc[t] # "free", NEW x,
           pc' = [pc EXCEPT ![t] = x], UNCHANGED <<calls, call_id>>
    PROVE  /\ call_id[t] \in Ids /\ phases[call_id[t]] = PhaseOf[pc[t]]
           /\ phases' = [phases EXCEPT ![call_id[t]] = PhaseOf[x]]
<1>1. t \in calls
  BY DEF IInv, Table, TableMatchesThreads, Free
<1>2. /\ call_id[t] \in Ids /\ CallsOf(call_id[t]) = {t}
      /\ Phase(call_id[t]) = PhaseOf[pc[t]]
  BY <1>1, PhaseOfEntry
<1>3. pc \in [Threads -> {"free", "connect", "answer", "await_ack", "bridge", "done"}]
  BY DEF IInv, TypeOK
<1>4. \A id \in Ids : CallsOf(id)' = CallsOf(id)
  BY DEF CallsOf
<1>5. ASSUME NEW id \in Ids
      PROVE  Phase(id)' = IF id = call_id[t] THEN PhaseOf[x] ELSE Phase(id)
  <2>1. CASE id = call_id[t]
    <3>1. CallsOf(id)' = {t} /\ (CHOOSE u \in {t} : TRUE) = t
      BY <2>1, <1>2, <1>4
    <3>2. pc'[t] = x
      BY <1>3
    <3>. QED BY <2>1, <3>1, <3>2 DEF Phase
  <2>2. CASE id # call_id[t] /\ CallsOf(id) = {}
    BY <2>2, <1>4 DEF Phase
  <2>3. CASE id # call_id[t] /\ CallsOf(id) # {}
    <3>1. PICK u \in calls : call_id[u] = id
      BY <2>3 DEF CallsOf
    <3>2. CallsOf(id) = {u} /\ (CHOOSE v \in {u} : TRUE) = u /\ u # t /\ u \in Threads
      BY <3>1, <2>3, PhaseOfEntry
    <3>3. pc'[u] = pc[u]
      BY <3>2, <1>3
    <3>. QED BY <2>3, <3>2, <3>3, <1>4 DEF Phase
  <2>. QED BY <2>1, <2>2, <2>3
<1>. QED BY <1>2, <1>5 DEF phases

-----------------------------------------------------------------------------
(* The steps. *)

\* A step of a thread, by the phase it leaves and the phase it enters.
LEMMA ThreadStepIsLifecycle ==
    ASSUME IInv, NEW t \in Threads, ThreadStep(t) \/ ResendOk(t) \/ TcpCloses(t)
    PROVE  LifecycleStep
<1>1. UNCHANGED <<calls, call_id>>
  BY DEF ThreadStep, Connect, Answer, ReadAwaitingAck, AckTimeout, ReadBridging, ResendOk,
         TcpCloses, threadVars
<1>2. CASE pc' = pc
  BY <1>1, <1>2, PhasesKept DEF LifecycleStep
<1>3. CASE pc[t] \in {"connect", "answer", "await_ack", "bridge"}
           /\ pc' = [pc EXCEPT ![t] = "done"]
  <2>0. /\ call_id[t] \in Ids /\ phases[call_id[t]] = PhaseOf[pc[t]]
        /\ phases' = [phases EXCEPT ![call_id[t]] = PhaseOf["done"]]
    <3>1. pc[t] # "free"
      BY <1>3
    <3>. QED BY <1>1, <1>3, <3>1, ThreadMoves
  <2>1. /\ call_id[t] \in Ids /\ phases[call_id[t]] = PhaseOf[pc[t]]
        /\ phases' = [phases EXCEPT ![call_id[t]] = "ended"]
    BY <1>3, <2>0, PhaseValues
  <2>2. phases[call_id[t]] \in {"ringing", "answered", "up"}
    BY <2>1, <1>3, PhaseValues
  <2>3. Lifecycle!End(call_id[t])
    BY <2>1, <2>2 DEF Lifecycle!End, Lifecycle!Move, phases
  <2>. QED BY <2>1, <2>3 DEF LifecycleStep, Lifecycle!Next
<1>4. CASE pc[t] = "connect" /\ pc' = [pc EXCEPT ![t] = "answer"]
  <2>0. /\ call_id[t] \in Ids /\ phases[call_id[t]] = PhaseOf[pc[t]]
        /\ phases' = [phases EXCEPT ![call_id[t]] = PhaseOf["answer"]]
    <3>1. pc[t] # "free"
      BY <1>4
    <3>. QED BY <1>1, <1>4, <3>1, ThreadMoves
  <2>1. /\ call_id[t] \in Ids /\ phases[call_id[t]] = "ringing"
        /\ phases' = [phases EXCEPT ![call_id[t]] = "ringing"]
    BY <1>4, <2>0, PhaseValues
  <2>2. phases' = phases
    BY <2>1 DEF phases
  <2>. QED BY <2>2 DEF LifecycleStep
<1>5. CASE pc[t] = "answer" /\ pc' = [pc EXCEPT ![t] = "await_ack"]
  <2>0. /\ call_id[t] \in Ids /\ phases[call_id[t]] = PhaseOf[pc[t]]
        /\ phases' = [phases EXCEPT ![call_id[t]] = PhaseOf["await_ack"]]
    <3>1. pc[t] # "free"
      BY <1>5
    <3>. QED BY <1>1, <1>5, <3>1, ThreadMoves
  <2>1. /\ call_id[t] \in Ids /\ phases[call_id[t]] = "ringing"
        /\ phases' = [phases EXCEPT ![call_id[t]] = "answered"]
    BY <1>5, <2>0, PhaseValues
  <2>2. Lifecycle!PickUp(call_id[t])
    BY <2>1 DEF Lifecycle!PickUp, Lifecycle!Move, phases
  <2>. QED BY <2>1, <2>2 DEF LifecycleStep, Lifecycle!Next
<1>6. CASE pc[t] = "await_ack" /\ pc' = [pc EXCEPT ![t] = "bridge"]
  <2>0. /\ call_id[t] \in Ids /\ phases[call_id[t]] = PhaseOf[pc[t]]
        /\ phases' = [phases EXCEPT ![call_id[t]] = PhaseOf["bridge"]]
    <3>1. pc[t] # "free"
      BY <1>6
    <3>. QED BY <1>1, <1>6, <3>1, ThreadMoves
  <2>1. /\ call_id[t] \in Ids /\ phases[call_id[t]] = "answered"
        /\ phases' = [phases EXCEPT ![call_id[t]] = "up"]
    BY <1>6, <2>0, PhaseValues
  <2>2. Lifecycle!Establish(call_id[t])
    BY <2>1 DEF Lifecycle!Establish, Lifecycle!Move, phases
  <2>. QED BY <2>1, <2>2 DEF LifecycleStep, Lifecycle!Next
<1>7. \/ pc' = pc
      \/ pc[t] \in {"connect", "answer", "await_ack", "bridge"} /\ pc' = [pc EXCEPT ![t] = "done"]
      \/ pc[t] = "connect" /\ pc' = [pc EXCEPT ![t] = "answer"]
      \/ pc[t] = "answer" /\ pc' = [pc EXCEPT ![t] = "await_ack"]
      \/ pc[t] = "await_ack" /\ pc' = [pc EXCEPT ![t] = "bridge"]
  BY DEF ThreadStep, Connect, Answer, ReadAwaitingAck, AckTimeout, ReadBridging, ResendOk,
         TcpCloses, Exit, threadVars
<1>. QED BY <1>2, <1>3, <1>4, <1>5, <1>6, <1>7

\* There are no more known Call-IDs than entries: what call_start counts is enough.
LEMMA KnownWithinTable ==
    ASSUME IInv
    PROVE  Cardinality(Lifecycle!Known) <= Cardinality(calls)
<1>. DEFINE known == {id \in Ids : phases[id] # "none"}
            name == [t \in calls |-> call_id[t]]
<1>1. \A t \in calls : call_id[t] \in known
  <2>. SUFFICES ASSUME NEW t \in calls PROVE call_id[t] \in known
    OBVIOUS
  <2>1. t \in Threads /\ call_id[t] \in Ids /\ Phase(call_id[t]) = PhaseOf[pc[t]]
    BY PhaseOfEntry
  <2>2. pc[t] \in {"connect", "answer", "await_ack", "bridge", "done"}
    BY <2>1 DEF IInv, TypeOK, Table, TableMatchesThreads, Free
  <2>3. Phase(call_id[t]) # "none"
    BY <2>1, <2>2, PhaseValues
  <2>. QED BY <2>1, <2>3 DEF phases
<1>2. \A id \in known : \E t \in calls : call_id[t] = id
  BY EntryOfPhase DEF phases
<1>3. name \in Surjection(calls, known)
  <2>1. name \in [calls -> known]
    BY <1>1
  <2>2. \A id \in known : \E t \in calls : name[t] = id
    BY <1>2
  <2>. HIDE DEF known, name
  <2>. QED BY <2>1, <2>2 DEF Surjection
<1>4. IsFiniteSet(calls)
  BY TableFinite DEF IInv, TypeOK
<1>5. Cardinality(known) <= Cardinality(calls)
  <2>. HIDE DEF known, name
  <2>. QED BY <1>3, <1>4, FS_Surjection
<1>6. Lifecycle!Known = known
  BY DEF Lifecycle!Known, phases
<1>. QED BY <1>5, <1>6

\* A new INVITE rings, or changes nothing.
LEMMA StartIsLifecycle ==
    ASSUME IInv, NEW id \in Ids, CallsOf(id) = {}, CallStart(id)
    PROVE  LifecycleStep
<1>1. CASE UNCHANGED <<calls, call_id, threadVars>>
  BY <1>1, PhasesKept DEF LifecycleStep, threadVars
<1>2. ASSUME ~Busy, NEW t \in Free, calls' = calls \cup {t},
             call_id' = [call_id EXCEPT ![t] = id], pc' = [pc EXCEPT ![t] = "connect"]
      PROVE  LifecycleStep
  <2>1. t \in Threads /\ t \notin calls 
        /\ pc \in [Threads -> {"free", "connect", "answer", "await_ack", "bridge", "done"}]
        /\ call_id \in [Threads -> Ids \cup {NoId}] /\ calls \in SUBSET Threads
    BY DEF IInv, TypeOK, Table, TableMatchesThreads, Free
  <2>2. CallsOf(id)' = {t} /\ pc'[t] = "connect"
    BY <1>2, <2>1 DEF CallsOf
  <2>3. Phase(id) = "none" /\ Phase(id)' = "ringing"
    <3>1. (CHOOSE u \in {t} : TRUE) = t
      OBVIOUS
    <3>2. Phase(id)' = PhaseOf[pc'[t]]
      BY <2>2, <3>1 DEF Phase
    <3>3. Phase(id) = "none"
      BY DEF Phase
    <3>. QED BY <2>2, <3>2, <3>3, PhaseValues
  <2>4. ASSUME NEW i \in Ids, i # id PROVE Phase(i)' = Phase(i)
    <3>1. CallsOf(i)' = CallsOf(i) /\ CallsOf(i) \subseteq Threads \ {t}
      BY <1>2, <2>1, <2>4 DEF CallsOf
    <3>2. CASE CallsOf(i) = {}
      BY <3>1, <3>2 DEF Phase
    <3>3. CASE CallsOf(i) # {}
      <4>1. PICK u \in calls : call_id[u] = i
        BY <3>3 DEF CallsOf
      <4>2. CallsOf(i) = {u} /\ (CHOOSE v \in {u} : TRUE) = u
        BY <4>1, PhaseOfEntry
      <4>3. pc'[u] = pc[u]
        BY <1>2, <2>1, <3>1, <4>2
      <4>. QED BY <3>1, <4>2, <4>3 DEF Phase
    <3>. QED BY <3>2, <3>3
  <2>5. phases[id] = "none" /\ phases' = [phases EXCEPT ![id] = "ringing"]
    BY <2>3, <2>4 DEF phases
  <2>6. MaxCalls > 0 => Cardinality(Lifecycle!Known) < MaxCalls
    <3>1. /\ Cardinality(calls) \in Nat /\ Cardinality(Lifecycle!Known) <= Cardinality(calls)
          /\ Cardinality(Lifecycle!Known) \in Nat
      <4>1. IsFiniteSet(Lifecycle!Known)
        BY SetsAssumption, FS_Subset DEF Lifecycle!Known
      <4>. QED BY <4>1, KnownWithinTable, TableFinite, FS_CardinalityType DEF IInv, TypeOK
    <3>2. MaxCalls > 0 => Cardinality(calls) < MaxCalls
      BY <1>2, <3>1, BoundsAssumption DEF Busy
    <3>. QED BY <3>1, <3>2, BoundsAssumption
  <2>7. Lifecycle!Move(id, {"none"}, "ringing")
    BY <2>5 DEF Lifecycle!Move, phases
  <2>8. Lifecycle!Ring(id)
    <3>1. Lifecycle!Cardinality(Lifecycle!Known) = Cardinality(Lifecycle!Known)
      BY DEF Cardinality, Lifecycle!Cardinality
    <3>. QED BY <2>6, <2>7, <3>1 DEF Lifecycle!Ring
  <2>. QED BY <2>8 DEF LifecycleStep, Lifecycle!Next
<1>. QED BY <1>1, <1>2 DEF CallStart

\* The reaper forgets the calls that have ended, all of them and no other.
LEMMA ReapIsLifecycle ==
    ASSUME IInv, Reap
    PROVE  LifecycleStep
<1>1. /\ calls' = calls \ Dead
      /\ call_id' = [t \in Threads |-> IF t \in Dead THEN NoId ELSE call_id[t]]
      /\ pc' = [t \in Threads |-> IF t \in Dead THEN "free" ELSE pc[t]]
  BY DEF Reap
<1>2. ASSUME NEW id \in Ids
      PROVE  /\ Phase(id)' = IF Phase(id) = "ended" THEN "none" ELSE Phase(id)
             /\ Phase(id) = "ended" <=> \E t \in CallsOf(id) : t \in Dead
  <2>1. CASE CallsOf(id) = {}
    <3>1. CallsOf(id)' = {}
      BY <2>1, <1>1 DEF CallsOf, IInv, TypeOK
    <3>. QED BY <2>1, <3>1 DEF Phase
  <2>2. CASE CallsOf(id) # {}
    <3>1. PICK t \in calls : call_id[t] = id
      BY <2>2 DEF CallsOf
    <3>2. /\ t \in Threads /\ CallsOf(id) = {t} /\ Phase(id) = PhaseOf[pc[t]]
          /\ (CHOOSE v \in {t} : TRUE) = t
      BY <3>1, PhaseOfEntry
    <3>3. pc[t] \in {"connect", "answer", "await_ack", "bridge", "done"}
      BY <3>1, <3>2 DEF IInv, TypeOK, Table, TableMatchesThreads, Free
    <3>4. CASE t \in Dead
      <4>1. Phase(id) = "ended"
        BY <3>2, <3>4, PhaseValues DEF Dead
      <4>2. CallsOf(id)' = {}
        BY <3>2, <3>4, <1>1 DEF CallsOf, IInv, TypeOK
      <4>. QED BY <4>1, <4>2, <3>2, <3>4 DEF Phase
    <3>5. CASE t \notin Dead
      <4>1. Phase(id) \in {"ringing", "answered", "up"}
        BY <3>2, <3>3, <3>5, PhaseValues DEF Dead
      <4>2. CallsOf(id)' = {t} /\ pc'[t] = pc[t]
        BY <3>1, <3>2, <3>5, <1>1 DEF CallsOf, IInv, TypeOK
      <4>3. Phase(id)' = Phase(id)
        BY <4>2, <3>2 DEF Phase
      <4>. QED BY <4>1, <4>3, <3>2, <3>5
    <3>. QED BY <3>4, <3>5
  <2>. QED BY <2>1, <2>2
<1>3. phases' = [id \in Ids |-> IF phases[id] = "ended" THEN "none" ELSE phases[id]]
  BY <1>2 DEF phases
<1>4. CASE \E id \in Ids : phases[id] = "ended"
  BY <1>3, <1>4 DEF LifecycleStep, Lifecycle!Next, Lifecycle!Forget, phases
<1>5. CASE ~\E id \in Ids : phases[id] = "ended"
  <2>1. phases' = phases
    BY <1>3, <1>5 DEF phases
  <2>. QED BY <2>1 DEF LifecycleStep
<1>. QED BY <1>4, <1>5

\* What the main loop does: a new call, the reaper, or nothing a phase depends on.
LEMMA MainLoopIsLifecycle ==
    ASSUME IInv, MainLoop \/ OtherTraffic
    PROVE  LifecycleStep
<1>1. ASSUME NEW req \in Requests, Receive(req) PROVE LifecycleStep
  <2>1. req.id \in Ids
    BY DEF Requests
  <2>2. ASSUME NEW t \in CallsOf(req.id), Dispatch(req, t) PROVE LifecycleStep
    BY <2>2, PhasesKept DEF Dispatch, LifecycleStep
  <2>3. CASE CallsOf(req.id) = {} /\ CallStart(req.id)
    BY <2>1, <2>3, StartIsLifecycle
  <2>4. CASE UNCHANGED <<calls, call_id, threadVars>>
    BY <2>4, PhasesKept DEF LifecycleStep, threadVars
  <2>. QED BY <1>1, <2>2, <2>3, <2>4 DEF Receive
<1>2. CASE FinishWrite
  <2>1. UNCHANGED <<calls, call_id, pc>>
    BY <1>2 DEF FinishWrite, Dispatch
  <2>. QED BY <2>1, PhasesKept DEF LifecycleStep
<1>3. CASE TimerPass \/ OtherTraffic
  <2>1. UNCHANGED <<calls, call_id, pc>>
    BY <1>3 DEF TimerPass, OtherTraffic, threadVars
  <2>. QED BY <2>1, PhasesKept DEF LifecycleStep
<1>4. CASE Reap
  BY <1>4, ReapIsLifecycle
<1>. QED BY <1>1, <1>2, <1>3, <1>4 DEF MainLoop

\* Every step of the server, its threads, the callers and the network.
LEMMA NextIsLifecycle == IInv /\ [Next]_vars => LifecycleStep
<1>. SUFFICES ASSUME IInv, [Next]_vars PROVE LifecycleStep
  OBVIOUS
<1>1. CASE MainLoop \/ OtherTraffic
  BY <1>1, MainLoopIsLifecycle
<1>2. ASSUME NEW t \in Threads, ThreadStep(t) \/ ResendOk(t) \/ TcpCloses(t)
      PROVE  LifecycleStep
  BY <1>2, ThreadStepIsLifecycle
<1>3. ASSUME NEW id \in Ids,
             Invite(id) \/ Cancel(id) \/ HangUp(id) \/ Retransmit(id) \/ Vanish(id)
      PROVE  LifecycleStep
  <2>1. UNCHANGED <<calls, call_id, pc>>
    BY <1>3 DEF Invite, Cancel, HangUp, Retransmit, Vanish, CallerSends, threadVars
  <2>. QED BY <2>1, PhasesKept DEF LifecycleStep
<1>4. ASSUME NEW r \in Responses, CallerReceives(r) PROVE LifecycleStep
  <2>1. UNCHANGED <<calls, call_id, pc>>
    BY <1>4 DEF CallerReceives, threadVars
  <2>. QED BY <2>1, PhasesKept DEF LifecycleStep
<1>5. CASE Lose \/ UNCHANGED vars
  <2>1. UNCHANGED <<calls, call_id, pc>>
    BY <1>5 DEF Lose, vars, threadVars
  <2>. QED BY <2>1, PhasesKept DEF LifecycleStep
<1>. QED BY <1>1, <1>2, <1>3, <1>4, <1>5 DEF Next

-----------------------------------------------------------------------------
\* The server keeps the promise of CallLifecycle whatever the callers, the cap and the
\* sizes: a Call-ID is answered once, does not ring again before its ended call is
\* reaped, and never rings beyond the cap (sip_interface.c:225-298, call.c:730-800).
THEOREM ServerImplements == Spec => ImplementsLifecycle
<1>1. Init => Lifecycle!Init
  <2>. SUFFICES ASSUME Init PROVE \A id \in Ids : Phase(id) = "none"
    BY DEF Lifecycle!Init
  <2>. QED BY DEF Init, Phase, CallsOf
<1>2. IInv /\ [Next]_vars => [Lifecycle!Next]_[id \in Ids |-> Phase(id)]
  BY NextIsLifecycle DEF LifecycleStep, phases
<1>. QED BY <1>1, <1>2, ServerInvariant, PTL DEF Spec, ImplementsLifecycle, Lifecycle!Spec
=============================================================================
