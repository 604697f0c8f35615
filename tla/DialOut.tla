------------------------------ MODULE DialOut ------------------------------
(***************************************************************************)
(* Dial-out mode (-D): run_dialout, the thread of the one call it places   *)
(* (call_thread_uac), and the far end, over a network that loses and       *)
(* reorders.                                                               *)
(*                                                                         *)
(* The thread sends an INVITE, sends it again with credentials for each    *)
(* challenge, and waits for a final answer; it opens its audio socket on   *)
(* early media or on the answer, and when that fails takes the call back,  *)
(* with CANCEL before the answer and with BYE after it.  An INVITE is told *)
(* by its CSeq number: a challenge makes a new one.                        *)
(*                                                                         *)
(* Timer A may fire at any time.  Timer B is armed or expired: a challenge *)
(* arms it again.  io_loop is here for its dispatch pipe only; AudioBridge *)
(* models the rest of it.                                                  *)
(***************************************************************************)
EXTENDS Naturals, Sequences, FiniteSets

CONSTANTS
    MaxAuth,        \* challenges that are answered (2)
    MaxNet          \* bound: datagrams in flight in each direction

ASSUME BoundsAssumption == MaxAuth \in Nat /\ MaxNet \in Nat

CSeqs == 1..(MaxAuth + 1)
NoAck == [method |-> "ACK", cseq |-> 0, to |-> 0]

\* What we send: cseq is the CSeq number and, for INVITE, CANCEL and the ACK of a
\* failure, the branch; to is the INVITE whose response gave the To header.
Requests ==
    [method : {"INVITE", "CANCEL"}, cseq : CSeqs, to : {0}] \cup
    [method : {"ACK"}, cseq : CSeqs, to : CSeqs] \cup
    [method : {"BYE"}, cseq : 2..(MaxAuth + 2), to : CSeqs]

\* What we get: an answer to INVITE to, "cancelled" the 200 of its CANCEL, or the
\* BYE of the call that INVITE made.
Answers == {"100", "18x", "challenge", "refusal", "200"}
Messages == [kind : Answers \cup {"cancelled", "BYE"}, to : CSeqs]

VARIABLES
    running,        \* run_dialout has not returned
    pc,             \* the thread: "invite", "bridge" or "done"
    pipe,           \* what is in the dispatch pipe, as far as it will be looked at
    cseq_num, auth_tries, provisional, cancelling,
    tcp,            \* tcp_sock >= 0
    ok_buf,         \* the ACK of the 2xx (the others kept in it are never sent again)
    giveup,         \* timer B has expired
    net, resp,      \* requests and messages in flight
    uas,            \* what the far end does with each INVITE
    disturbed       \* history: a datagram was lost, or a challenge sent a second time

threadVars == <<pc, pipe, cseq_num, auth_tries, provisional, cancelling, tcp, ok_buf>>
farVars == <<uas, disturbed>>
vars == <<running, threadVars, giveup, net, resp, farVars>>

\* A datagram sent beyond the bound is lost.
Fits(flying, msgs) == Cardinality(flying \cup msgs) <= MaxNet
Send(flying, msgs) == IF Fits(flying, msgs) THEN flying \cup msgs ELSE flying

InviteReq(k) == [method |-> "INVITE", cseq |-> k, to |-> 0]
CancelReq == [method |-> "CANCEL", cseq |-> cseq_num, to |-> 0]
Ack(m) == [method |-> "ACK", cseq |-> cseq_num, to |-> m.to]
Bye(m) == [method |-> "BYE", cseq |-> cseq_num + 1, to |-> m.to]

Init ==
    /\ running = TRUE
    /\ pc = "invite" /\ pipe = <<>>
    /\ cseq_num = 1 /\ auth_tries = 0 /\ provisional = FALSE /\ cancelling = FALSE
    /\ tcp = FALSE /\ ok_buf = NoAck /\ giveup = FALSE
    /\ net = {InviteReq(1)} /\ resp = {}
    /\ uas = [k \in CSeqs |-> "none"]
    /\ disturbed = FALSE

-----------------------------------------------------------------------------
(* The thread of the call. *)

Transmits(msgs) ==
    /\ net' = Send(net, msgs)
    /\ disturbed' = (disturbed \/ ~Fits(net, msgs))

\* done: closes the sockets and its end of the pipe, frees the context and ends.
Exit ==
    /\ pc' = "done" /\ tcp' = FALSE /\ pipe' = <<>>
    /\ cseq_num' = 1 /\ auth_tries' = 0 /\ provisional' = FALSE /\ cancelling' = FALSE
    /\ ok_buf' = NoAck /\ giveup' = FALSE

\* A read takes all that was written since the last one; the thread looks at the first
\* message only.
Goes(on) ==
    /\ pc' = on /\ pipe' = <<>>
    /\ UNCHANGED <<cseq_num, auth_tries, giveup>>

\* Mutation of AnswerCancelled: an answer that crossed the CANCEL is only ACKed.
AnswerCancelledAckOnly(m) ==
    /\ cancelling
    /\ \/ m.kind \in {"challenge", "refusal", "200"} /\ Transmits({Ack(m)}) /\ Exit
       \/ /\ m.kind \in {"100", "18x", "cancelled", "BYE"} /\ Transmits({})
          /\ Goes("invite") /\ UNCHANGED <<provisional, cancelling, tcp, ok_buf>>

\* After our CANCEL: the final answer to the INVITE is still ACKed, and an answer
\* that crossed the CANCEL is hung up.
AnswerCancelled(m) ==
    /\ cancelling
    /\ \/ m.kind \in {"challenge", "refusal"} /\ Transmits({Ack(m)}) /\ Exit
       \/ m.kind = "200" /\ Transmits({Ack(m), Bye(m)}) /\ Exit
       \/ /\ m.kind \in {"100", "18x", "cancelled", "BYE"} /\ Transmits({})
          /\ Goes("invite") /\ UNCHANGED <<provisional, cancelling, tcp, ok_buf>>

\* 1xx: of what comes from the callee some is early media, which opens the audio
\* socket or else cancels the call.
AnswerProvisional(m) ==
    /\ ~cancelling /\ m.kind \in {"100", "18x"}
    /\ provisional' = TRUE
    /\ Goes("invite") /\ UNCHANGED ok_buf
    /\ \/ /\ tcp' \in {tcp} \cup {m.kind = "18x" \/ tcp}
          /\ Transmits({}) /\ UNCHANGED cancelling
       \/ /\ m.kind = "18x" /\ ~tcp
          /\ cancelling' = TRUE /\ Transmits({CancelReq}) /\ UNCHANGED tcp

\* 401 or 407: ACKed and answered with a new INVITE, MaxAuth times.
AnswerChallenge(m) ==
    /\ ~cancelling /\ m.kind = "challenge"
    /\ \/ auth_tries + 1 > MaxAuth /\ Transmits({Ack(m)}) /\ Exit
       \/ /\ auth_tries + 1 <= MaxAuth
          /\ Transmits({Ack(m), InviteReq(cseq_num + 1)})
          /\ auth_tries' = auth_tries + 1 /\ cseq_num' = cseq_num + 1
          /\ provisional' = FALSE /\ giveup' = FALSE
          /\ pipe' = <<>>
          /\ UNCHANGED <<pc, cancelling, tcp, ok_buf>>

\* Mutation of AnswerOk: the answered call is left without a BYE when the audio socket
\* cannot be opened.
AnswerOkNoBye(m) ==
    /\ ~cancelling /\ m.kind = "200"
    /\ Transmits({Ack(m)})
    /\ \/ Exit
       \/ /\ ok_buf' = Ack(m)
          /\ Goes("bridge") /\ tcp' = TRUE /\ UNCHANGED <<provisional, cancelling>>

\* 2xx: ACKed; hung up again if it has no usable audio or the audio socket cannot
\* be opened, else the bridge starts.
AnswerOk(m) ==
    /\ ~cancelling /\ m.kind = "200"
    /\ \/ Transmits({Ack(m), Bye(m)}) /\ Exit
       \/ /\ Transmits({Ack(m)}) /\ ok_buf' = Ack(m)
          /\ Goes("bridge") /\ tcp' = TRUE /\ UNCHANGED <<provisional, cancelling>>

\* Any other final answer; what is not an answer is passed over.
AnswerOther(m) ==
    /\ ~cancelling
    /\ \/ m.kind = "refusal" /\ Transmits({Ack(m)}) /\ Exit
       \/ /\ m.kind \in {"BYE", "cancelled"} /\ Transmits({})
          /\ Goes("invite") /\ UNCHANGED <<provisional, cancelling, tcp, ok_buf>>

ReadInviting ==
    /\ pc = "invite" /\ ~giveup /\ pipe # <<>>
    /\ LET m == Head(pipe)
       IN  \/ AnswerCancelled(m) \/ AnswerProvisional(m) \/ AnswerChallenge(m)
           \/ AnswerOk(m) \/ AnswerOther(m)
    /\ UNCHANGED <<running, resp, uas>>

\* Mutation of GiveUp: a provisional response stops timer B as it stops timer A.
GiveUpUnlessRinging ==
    /\ pc = "invite" /\ giveup /\ ~provisional
    /\ Exit
    /\ UNCHANGED <<running, net, resp, farVars>>

\* Timer B, looked at on every turn of the loop.
GiveUp ==
    /\ pc = "invite" /\ giveup
    /\ Exit
    /\ UNCHANGED <<running, net, resp, farVars>>

\* Timer A.
RetransmitInvite ==
    /\ pc = "invite" /\ ~giveup /\ pipe = <<>> /\ ~provisional
    /\ net' = Send(net, {InviteReq(cseq_num)})
    /\ UNCHANGED <<running, threadVars, giveup, resp, farVars>>

\* io_loop: a BYE ends the call, a 2xx sent again gets the ACK again.
ReadBridging ==
    /\ pc = "bridge" /\ pipe # <<>>
    /\ \/ Head(pipe).kind = "BYE" /\ Exit /\ Transmits({})
       \/ /\ Head(pipe).kind \in {"200", "cancelled"}
          /\ Transmits({ok_buf})
          /\ Goes("bridge") /\ UNCHANGED <<provisional, cancelling, tcp, ok_buf>>
       \/ /\ Head(pipe).kind \notin {"BYE", "200", "cancelled"}
          /\ Transmits({})
          /\ Goes("bridge") /\ UNCHANGED <<provisional, cancelling, tcp, ok_buf>>
    /\ UNCHANGED <<running, resp, uas>>

Thread == ReadInviting \/ GiveUp \/ ReadBridging

-----------------------------------------------------------------------------
(* The main loop: run_dialout. *)

\* Dispatches a message to the call; its thread may be gone.  What is written behind
\* another message is read with it and lost.
Pump(m) ==
    /\ running /\ m \in resp
    /\ resp' = resp \ {m}
    /\ \/ pc = "done" /\ UNCHANGED pipe
       \/ pc # "done" /\ pipe' = IF pipe = <<>> THEN <<m>> ELSE pipe
    /\ UNCHANGED <<running, pc, cseq_num, auth_tries, provisional, cancelling, tcp, ok_buf,
                   giveup, net, farVars>>

\* Mutation of Finish: the wait for a datagram has no time limit.
FinishOnTraffic ==
    /\ running /\ pc = "done" /\ resp # {}
    /\ running' = FALSE /\ resp' = {}
    /\ UNCHANGED <<threadVars, giveup, net, farVars>>

\* call_reap joins the thread; with no call left the program ends and its socket is
\* closed.
Finish ==
    /\ running /\ pc = "done"
    /\ running' = FALSE /\ resp' = {}
    /\ UNCHANGED <<threadVars, giveup, net, farVars>>

-----------------------------------------------------------------------------
(* The clock and the network (external). *)

TimerB ==
    /\ pc = "invite" /\ ~giveup
    /\ giveup' = TRUE
    /\ UNCHANGED <<running, threadVars, net, resp, farVars>>

Lose ==
    /\ \/ \E q \in net : net' = net \ {q} /\ UNCHANGED resp
       \/ \E m \in resp : resp' = resp \ {m} /\ UNCHANGED net
    /\ disturbed' = TRUE
    /\ UNCHANGED <<running, threadVars, giveup, uas>>

-----------------------------------------------------------------------------
(* The far end (external): RFC 3261 servers, one transaction per INVITE. *)

\* A socket that is closed receives nothing.
Receives(msgs) ==
    /\ resp' = IF running THEN Send(resp, msgs) ELSE resp
    /\ disturbed' = (disturbed \/ (running /\ ~Fits(resp, msgs)))

UasSends(k, state, kind) ==
    /\ uas' = [uas EXCEPT ![k] = state]
    /\ Receives({[kind |-> kind, to |-> k]})
    /\ UNCHANGED <<running, threadVars, giveup, net>>

\* A proxy tries and challenges before the callee rings.
Ring(k) ==
    \/ uas[k] = "proceeding" /\ UasSends(k, "proceeding", "100")
    \/ uas[k] \in {"proceeding", "ringing"} /\ UasSends(k, "ringing", "18x")

Decide(k) ==
    \/ uas[k] = "proceeding" /\ UasSends(k, "challenged", "challenge")
    \/ uas[k] \in {"proceeding", "ringing"} /\ UasSends(k, "refused", "refusal")
    \/ uas[k] \in {"proceeding", "ringing"} /\ UasSends(k, "answered", "200")

\* A final answer is sent again until it is ACKed, a BYE until it is answered.
Resend(k) ==
    \/ uas[k] = "refused" /\ UasSends(k, "refused", "refusal")
    \/ uas[k] = "answered" /\ UasSends(k, "answered", "200")
    \/ uas[k] = "hanging" /\ UasSends(k, "hanging", "BYE")

ResendChallenge(k) ==
    /\ uas[k] = "challenged" /\ running
    /\ resp' = Send(resp, {[kind |-> "challenge", to |-> k]})
    /\ disturbed' = TRUE
    /\ UNCHANGED <<running, threadVars, giveup, net, uas>>

CalleeHangsUp(k) == uas[k] = "confirmed" /\ UasSends(k, "hanging", "BYE")

\* Timer H: an answer that is never ACKed is taken back with a BYE, a failure is
\* forgotten.
AckNeverComes(k) ==
    \/ uas[k] = "answered" /\ UasSends(k, "hanging", "BYE")
    \/ /\ uas[k] \in {"challenged", "refused"}
       /\ uas' = [uas EXCEPT ![k] = "over"]
       /\ UNCHANGED <<running, threadVars, giveup, net, resp, disturbed>>

\* The effect of a request on the transaction it belongs to: the ACK of a failure is
\* matched by branch, that of a 2xx by dialog and CSeq number, a BYE by dialog.
UasTurn(q) ==
    CASE q.method = "INVITE" /\ uas[q.cseq] = "none" -> [uas EXCEPT ![q.cseq] = "proceeding"]
      [] q.method = "ACK" /\ uas[q.cseq] \in {"challenged", "refused"} -> [uas EXCEPT ![q.cseq] = "over"]
      [] q.method = "ACK" /\ uas[q.cseq] = "answered" /\ q.to = q.cseq -> [uas EXCEPT ![q.cseq] = "confirmed"]
      [] q.method = "BYE" /\ uas[q.to] \in {"answered", "confirmed"} -> [uas EXCEPT ![q.to] = "over"]
      [] OTHER -> uas

UasReceives(q) ==
    /\ q \in net
    /\ net' = net \ {q}
    /\ \/ /\ q.method = "CANCEL" /\ uas[q.cseq] \in {"proceeding", "ringing"}
          /\ uas' = [uas EXCEPT ![q.cseq] = "refused"]
          /\ Receives({[kind |-> kind, to |-> q.cseq] : kind \in {"refusal", "cancelled"}})
       \/ /\ ~(q.method = "CANCEL" /\ uas[q.cseq] \in {"proceeding", "ringing"})
          /\ uas' = UasTurn(q) /\ UNCHANGED <<resp, disturbed>>
    /\ UNCHANGED <<running, threadVars, giveup>>

-----------------------------------------------------------------------------
Next ==
    \/ Thread \/ RetransmitInvite \/ Finish \/ TimerB \/ Lose
    \/ \E m \in Messages : Pump(m)
    \/ \E k \in CSeqs :
        \/ Ring(k) \/ Decide(k) \/ Resend(k) \/ ResendChallenge(k)
        \/ CalleeHangsUp(k) \/ AckNeverComes(k)
    \/ \E q \in Requests : UasReceives(q)

Spec == Init /\ [][Next]_vars

\* Thread and main loop are scheduled and timer B runs out; the far end reads what
\* reaches it, repeats its BYE until it is answered and does not wait for an ACK for
\* ever; of the BYEs it sends again and again we receive some.
FairSpec ==
    /\ Spec
    /\ WF_vars(Thread) /\ WF_vars(Finish) /\ WF_vars(TimerB) /\ WF_vars(\E m \in Messages : Pump(m))
    /\ WF_vars(\E q \in Requests : UasReceives(q))
    /\ \A k \in CSeqs :
        /\ WF_vars(AckNeverComes(k))
        /\ WF_vars(uas[k] = "hanging" /\ Resend(k))
        /\ SF_vars(Pump([kind |-> "BYE", to |-> k]))

-----------------------------------------------------------------------------
(* Properties. *)

TypeOK ==
    /\ running \in BOOLEAN /\ pc \in {"invite", "bridge", "done"}
    /\ pipe \in Seq(Messages) /\ Len(pipe) <= 1
    /\ cseq_num \in CSeqs /\ auth_tries \in 0..(MaxAuth + 1)
    /\ {provisional, cancelling, tcp, giveup, disturbed} \subseteq BOOLEAN
    /\ ok_buf \in Requests \cup {NoAck}
    /\ net \in SUBSET Requests /\ resp \in SUBSET Messages
    /\ uas \in [CSeqs -> {"none", "proceeding", "ringing", "challenged", "refused", "answered",
                          "confirmed", "hanging", "over"}]

\* A call the far end holds to be established is never left behind by a thread that
\* has ended: its BYE is on the way (call.c:1040, 1095, 1113), unless the network lost
\* something or repeated a challenge.
NoCallLeftBehind ==
    \A k \in CSeqs :
        pc = "done" /\ uas[k] = "confirmed" /\ ~disturbed
        => \E q \in net : q.method = "BYE" /\ q.to = k

\* A call that was cancelled is over at the far end too, also when its answer crossed
\* the CANCEL (README.md:161: "aborts the call cleanly").
CancelSettles ==
    cancelling ~>
        \/ disturbed
        \/ \A k \in CSeqs : uas[k] \notin {"proceeding", "ringing", "answered", "confirmed"}

\* The attempt ends, answered or not, however often it is challenged: the wait for an
\* answer, that every challenge starts again, is not put off for ever.
SetupEnds == pc = "invite" ~> pc # "invite"

\* When the callee hangs up, or gives up waiting for our ACK, the program ends
\* (README.md:157: "exit when it ends or fails").
HangUpEndsProgram == (\E k \in CSeqs : uas[k] = "hanging") ~> ~running

\* The ACK of a failure has the branch of the INVITE it answers (call.c:901: "a
\* non-2xx ACK must reuse the INVITE's branch").
AckReusesBranch ==
    \A q \in net : q.method = "ACK" /\ pc = "invite" => q.cseq = q.to
=============================================================================
