---------------------------- MODULE DialOutProofs ----------------------------
(***************************************************************************)
(* No call is left behind at the far end by the thread of a dial-out call, *)
(* for any number of challenges and any bound on the network.              *)
(***************************************************************************)
EXTENDS DialOut, TLAPS

States == {"none", "proceeding", "ringing", "challenged", "refused", "answered",
           "confirmed", "hanging", "over"}

AckOf(k) == [method |-> "ACK", cseq |-> k, to |-> k]
Answer(kind, k) == [kind |-> kind, to |-> k]

\* A message the thread may still look at.
Pending(m) == m \in resp \/ (pipe # <<>> /\ m = Head(pipe))

Types ==
    /\ pc \in {"invite", "bridge", "done"}
    /\ pipe = <<>> \/ \E m \in Messages : pipe = <<m>>
    /\ cseq_num \in CSeqs /\ auth_tries \in 0..MaxAuth /\ cseq_num = auth_tries + 1
    /\ net \subseteq Requests /\ resp \subseteq Messages
    /\ uas \in [CSeqs -> States]
    /\ ok_buf \in Requests \cup {NoAck}

Flags == {running, provisional, cancelling, tcp, giveup, disturbed} \subseteq BOOLEAN

\* What the far end is in that sent a message.
MessagesTrue ==
    \A k \in CSeqs :
        /\ Pending(Answer("challenge", k)) => uas[k] \in {"challenged", "over"}
        /\ Pending(Answer("refusal", k)) => uas[k] \in {"refused", "over"}
        /\ Pending(Answer("200", k)) => uas[k] \in {"answered", "confirmed", "hanging", "over"}
        /\ Pending(Answer("BYE", k)) => uas[k] \in {"hanging", "over"}
        /\ Pending(Answer("challenge", k)) =>
              ~Pending(Answer("200", k)) /\ ~Pending(Answer("BYE", k))

\* An INVITE is ACKed after its final answer; while the thread waits for an answer,
\* no ACK on its way confirms a call.
AcksTrue ==
    /\ \A k \in CSeqs : AckOf(k) \in net => uas[k] \notin {"none", "proceeding", "ringing"}
    /\ pc = "invite" => \A k \in CSeqs :
          /\ uas[k] # "confirmed"
          /\ AckOf(k) \in net => uas[k] # "answered"
    /\ pc = "bridge" => ok_buf \in Requests /\ ok_buf.method = "ACK"
    /\ pc = "bridge" => \A k \in CSeqs :
          ok_buf = AckOf(k) => uas[k] \notin {"none", "proceeding", "ringing"}

\* While nothing was disturbed, only the current INVITE is open at the far end, and a
\* challenge to it is looked at once.
OneOpen ==
    pc # "done" /\ ~disturbed =>
        /\ \A k \in CSeqs :
              /\ k > cseq_num => uas[k] = "none" /\ InviteReq(k) \notin net
              /\ k < cseq_num => uas[k] \in {"challenged", "over"}
              /\ \A kind \in {"challenge", "200", "BYE"} :
                    Pending(Answer(kind, k)) => k = cseq_num
              /\ Answer("challenge", k) \in resp => pipe # <<Answer("challenge", k)>>

\* The BYE of a call that is, or is about to be, confirmed is on its way.
ByeUnderWay ==
    pc = "done" /\ ~disturbed =>
        \A k \in CSeqs :
            uas[k] = "confirmed" \/ (uas[k] = "answered" /\ AckOf(k) \in net)
            => \E q \in net : q.method = "BYE" /\ q.to = k

DialInv == Types /\ MessagesTrue /\ AcksTrue /\ OneOpen /\ ByeUnderWay

-----------------------------------------------------------------------------
(* Datagrams. *)

\* The messages and requests by name.
LEMMA Names ==
    /\ \A k \in CSeqs : AckOf(k) \in Requests /\ InviteReq(k) \in Requests
    /\ \A k \in CSeqs : \A kind \in Answers \cup {"cancelled", "BYE"} : Answer(kind, k) \in Messages
    /\ \A m \in Messages : m.to \in CSeqs /\ m = Answer(m.kind, m.to)
    /\ \A j, k \in CSeqs : \A kind, type \in Answers \cup {"cancelled", "BYE"} :
          Answer(kind, j) = Answer(type, k) => kind = type /\ j = k
    /\ \A j, k \in CSeqs : /\ AckOf(j) = AckOf(k) => j = k
                           /\ InviteReq(j) = InviteReq(k) => j = k
                           /\ AckOf(j) # InviteReq(k)
BY DEF AckOf, Answer, InviteReq, Requests, Messages

\* What is sent comes to what is in flight, all of it unless that is a loss.
LEMMA TransmitsFacts ==
    ASSUME NEW msgs \in SUBSET Requests, net \subseteq Requests, Transmits(msgs)
    PROVE  /\ net' \subseteq Requests /\ net' \subseteq net \cup msgs /\ net \subseteq net'
           /\ ~disturbed' => ~disturbed /\ net' = net \cup msgs
BY DEF Transmits, Send

LEMMA ReceivesFacts ==
    ASSUME NEW msgs \in SUBSET Messages, resp \subseteq Messages, Receives(msgs)
    PROVE  /\ resp' \subseteq Messages /\ resp' \subseteq resp \cup msgs
           /\ ~disturbed' => ~disturbed
BY DEF Receives, Send

-----------------------------------------------------------------------------
(* Steps that move no transaction of the far end. *)

\* Messages that are looked at or dropped leave the others true.
LEMMA MessagesKept ==
    ASSUME MessagesTrue, uas' = uas, \A m : Pending(m)' => Pending(m)
    PROVE  MessagesTrue'
BY DEF MessagesTrue

\* The thread stays where it is: messages are taken from the network or looked at, and
\* nothing new is said.
LEMMA QuietKeeps ==
    ASSUME DialInv,
           UNCHANGED <<pc, cseq_num, auth_tries, ok_buf, uas>>,
           resp' \subseteq resp,
           \/ pipe' \in {pipe, <<>>}
           \/ \E m \in resp : pipe' = <<m>> /\ resp' = resp \ {m},
           net' \subseteq Requests,
           \A k \in CSeqs : AckOf(k) \in net' =>
               AckOf(k) \in net \/ (pc = "bridge" /\ ok_buf = AckOf(k)),
           \A k \in CSeqs : InviteReq(k) \in net' => InviteReq(k) \in net \/ k = cseq_num,
           ~disturbed' => ~disturbed,
           ~disturbed' /\ pc = "done" => \A q \in net \ net' :
               q.method = "BYE" => uas[q.to] \notin {"answered", "confirmed"}
    PROVE  DialInv'
<1>1. Types /\ MessagesTrue /\ AcksTrue /\ OneOpen /\ ByeUnderWay
  BY DEF DialInv
<1>2. \A m : Pending(m)' => Pending(m)
  BY DEF Pending
<1>3. Types'
  BY <1>1 DEF Types
<1>4. MessagesTrue'
  BY <1>1, <1>2, MessagesKept
<1>5. AcksTrue'
  BY <1>1 DEF AcksTrue
<1>6. OneOpen'
  <2>. SUFFICES ASSUME pc # "done", ~disturbed', NEW k \in CSeqs
                PROVE  (/\ k > cseq_num => uas[k] = "none" /\ InviteReq(k) \notin net
                        /\ k < cseq_num => uas[k] \in {"challenged", "over"}
                        /\ \A kind \in {"challenge", "200", "BYE"} :
                              Pending(Answer(kind, k)) => k = cseq_num
                        /\ Answer("challenge", k) \in resp => pipe # <<Answer("challenge", k)>>)'
    BY DEF OneOpen
  <2>1. /\ k > cseq_num => uas[k] = "none" /\ InviteReq(k) \notin net
        /\ k < cseq_num => uas[k] \in {"challenged", "over"}
        /\ \A kind \in {"challenge", "200", "BYE"} : Pending(Answer(kind, k)) => k = cseq_num
        /\ Answer("challenge", k) \in resp => pipe # <<Answer("challenge", k)>>
    BY <1>1 DEF OneOpen
  <2>2. k > cseq_num => k # cseq_num
    BY <1>1 DEF Types, CSeqs
  <2>3. Answer("challenge", k) \in resp' => pipe' # <<Answer("challenge", k)>>
    BY <2>1
  <2>. QED BY <1>2, <2>1, <2>2, <2>3
<1>7. ByeUnderWay'
  <2>. SUFFICES ASSUME pc = "done", ~disturbed', NEW k \in CSeqs,
                       uas[k] = "confirmed" \/ (uas[k] = "answered" /\ AckOf(k) \in net')
                PROVE  \E q \in net' : q.method = "BYE" /\ q.to = k
    BY DEF ByeUnderWay
  <2>1. PICK q \in net : q.method = "BYE" /\ q.to = k
    BY <1>1 DEF ByeUnderWay
  <2>. QED BY <2>1
<1>. QED BY <1>3, <1>4, <1>5, <1>6, <1>7 DEF DialInv

\* The main loop, the clocks and a loss.
LEMMA LoopKeeps ==
    DialInv /\ (RetransmitInvite \/ Finish \/ TimerB \/ Lose \/ \E m \in Messages : Pump(m))
    => DialInv'
<1>. SUFFICES ASSUME DialInv,
                     RetransmitInvite \/ Finish \/ TimerB \/ Lose \/ \E m \in Messages : Pump(m)
              PROVE  DialInv'
  OBVIOUS
<1>1. Types
  BY DEF DialInv
<1>2. CASE RetransmitInvite
  <2>1. net' \subseteq Requests /\ net \subseteq net' /\ net' \subseteq net \cup {InviteReq(cseq_num)}
    BY <1>1, <1>2, Names DEF RetransmitInvite, Send, Types
  <2>. QED
    BY <1>1, <1>2, <2>1, Names, QuietKeeps DEF RetransmitInvite, threadVars, farVars, Types
<1>3. CASE Finish
  BY <1>1, <1>3, QuietKeeps DEF Finish, threadVars, farVars, Types
<1>4. CASE TimerB
  BY <1>1, <1>4, QuietKeeps DEF TimerB, threadVars, farVars, Types
<1>5. CASE Lose
  BY <1>1, <1>5, QuietKeeps DEF Lose, threadVars, Types
<1>6. CASE \E m \in Messages : Pump(m)
  <2>1. PICK m \in resp : Pump(m)
    BY <1>6 DEF Pump
  <2>2. pipe' = pipe \/ (pipe' = <<m>> /\ resp' = resp \ {m})
    BY <2>1 DEF Pump
  <2>. QED
    BY <1>1, <2>1, <2>2, QuietKeeps DEF Pump, farVars, Types
<1>. QED BY <1>2, <1>3, <1>4, <1>5, <1>6

-----------------------------------------------------------------------------
(* Steps of the thread. *)

\* The first message of the pipe is one of ours to look at.
LEMMA HeadPending ==
    ASSUME Types, pipe # <<>>
    PROVE  Head(pipe) \in Messages /\ Pending(Head(pipe)) /\ pipe = <<Head(pipe)>>
BY DEF Types, Pending

\* A thread ends: what it has just sent ACKs what has a final answer, and hangs up what
\* it ACKs or has ACKed.
LEMMA ExitKeeps ==
    ASSUME DialInv, Exit, UNCHANGED <<resp, uas>>, net' \subseteq Requests,
           \A k \in CSeqs : AckOf(k) \in net' => uas[k] \notin {"none", "proceeding", "ringing"},
           ~disturbed' => \A k \in CSeqs :
               uas[k] = "confirmed" \/ (uas[k] = "answered" /\ AckOf(k) \in net')
               => \E q \in net' : q.method = "BYE" /\ q.to = k
    PROVE  DialInv'
<1>1. Types /\ MessagesTrue
  BY DEF DialInv
<1>2. Types'
  BY <1>1, BoundsAssumption DEF Types, Exit, CSeqs
<1>3. MessagesTrue'
  <2>1. \A m : Pending(m)' => Pending(m)
    BY DEF Pending, Exit
  <2>. QED BY <1>1, <2>1, MessagesKept
<1>4. AcksTrue' /\ OneOpen' /\ ByeUnderWay'
  BY DEF AcksTrue, OneOpen, ByeUnderWay, Exit
<1>. QED BY <1>2, <1>3, <1>4 DEF DialInv

\* A thread that waits for an answer has confirmed no call: it may end with the ACK of a
\* failure, or with that of an answer and a BYE behind it.
LEMMA InvitingExitKeeps ==
    ASSUME DialInv, pc = "invite", Exit, UNCHANGED <<resp, uas>>,
           NEW m \in Messages, Pending(m), NEW msgs, Transmits(msgs),
           \/ m.kind \in {"challenge", "refusal"} /\ msgs = {Ack(m)}
           \/ m.kind = "200" /\ msgs = {Ack(m), Bye(m)}
    PROVE  DialInv'
<1>1. Types /\ MessagesTrue /\ AcksTrue
  BY DEF DialInv
<1>2. Ack(m) \in Requests /\ Bye(m) \in Requests /\ m.to \in CSeqs /\ m = Answer(m.kind, m.to)
  BY <1>1, BoundsAssumption, Names DEF Types, Ack, Bye, Requests, CSeqs
<1>3. msgs \in SUBSET Requests /\ net \subseteq Requests
  BY <1>1, <1>2 DEF Types
<1>4. /\ net' \subseteq Requests /\ net' \subseteq net \cup msgs
      /\ ~disturbed' => ~disturbed /\ net' = net \cup msgs
  BY <1>3, TransmitsFacts
<1>5. \A k \in CSeqs : AckOf(k) \in msgs => k = m.to
  BY DEF AckOf, Ack, Bye
<1>6. uas[m.to] \in {"challenged", "refused", "answered", "confirmed", "hanging", "over"}
  BY <1>1, <1>2 DEF MessagesTrue
<1>7. ASSUME NEW k \in CSeqs, AckOf(k) \in net'
      PROVE  uas[k] \notin {"none", "proceeding", "ringing"}
  BY <1>1, <1>4, <1>5, <1>6, <1>7 DEF AcksTrue
<1>8. ASSUME ~disturbed', NEW k \in CSeqs,
             uas[k] = "confirmed" \/ (uas[k] = "answered" /\ AckOf(k) \in net')
      PROVE  \E q \in net' : q.method = "BYE" /\ q.to = k
  <2>1. k = m.to /\ uas[k] = "answered"
    BY <1>1, <1>4, <1>5, <1>8 DEF AcksTrue
  <2>2. m.kind = "200"
    BY <1>1, <1>2, <2>1 DEF MessagesTrue
  <2>3. Bye(m) \in net' /\ Bye(m).method = "BYE" /\ Bye(m).to = k
    BY <1>4, <1>8, <2>1, <2>2 DEF Bye
  <2>. QED BY <2>3
<1>. QED BY <1>4, <1>7, <1>8, ExitKeeps


\* A challenge is ACKed and answered with a new INVITE: the old one is closed at the far
\* end, the new one is unknown there.
LEMMA ChallengeKeeps ==
    ASSUME DialInv, pc = "invite", UNCHANGED <<resp, uas>>,
           NEW m \in Messages, Pending(m), m = Head(pipe), m.kind = "challenge", pipe # <<>>,
           auth_tries + 1 <= MaxAuth,
           Transmits({Ack(m), InviteReq(cseq_num + 1)}),
           auth_tries' = auth_tries + 1, cseq_num' = cseq_num + 1, pipe' = <<>>,
           UNCHANGED <<pc, ok_buf>>
    PROVE  DialInv'
<1>. DEFINE msgs == {Ack(m), InviteReq(cseq_num + 1)}
<1>1. Types /\ MessagesTrue /\ AcksTrue /\ OneOpen
  BY DEF DialInv
<1>2. /\ cseq_num + 1 \in CSeqs /\ m.to \in CSeqs /\ m = Answer("challenge", m.to)
      /\ cseq_num \in Nat /\ CSeqs \subseteq Nat
  BY <1>1, BoundsAssumption, Names DEF Types, CSeqs
<1>3. Ack(m) \in Requests /\ InviteReq(cseq_num + 1) \in Requests
  BY <1>1, <1>2, Names DEF Types, Ack, Requests
<1>4. msgs \in SUBSET Requests /\ net \subseteq Requests
  BY <1>1, <1>3 DEF Types
<1>5. /\ net' \subseteq Requests /\ net' \subseteq net \cup msgs
      /\ ~disturbed' => ~disturbed
  BY <1>4, TransmitsFacts
<1>6. /\ \A k \in CSeqs : AckOf(k) \in msgs => k = m.to
      /\ \A k \in CSeqs : InviteReq(k) \in msgs => k = cseq_num + 1
  BY <1>2, Names DEF AckOf, Ack, InviteReq
<1>7. uas[m.to] \in {"challenged", "over"}
  BY <1>1, <1>2 DEF MessagesTrue
<1>8. Types'
  BY <1>1, <1>2, <1>5, BoundsAssumption DEF Types
<1>9. MessagesTrue'
  <2>1. \A n : Pending(n)' => Pending(n)
    BY DEF Pending
  <2>. QED BY <1>1, <2>1, MessagesKept
<1>10. AcksTrue'
  BY <1>1, <1>5, <1>6, <1>7 DEF AcksTrue
<1>11. OneOpen'
  <2>. SUFFICES ASSUME ~disturbed', NEW k \in CSeqs
                PROVE  (/\ k > cseq_num => uas[k] = "none" /\ InviteReq(k) \notin net
                        /\ k < cseq_num => uas[k] \in {"challenged", "over"}
                        /\ \A kind \in {"challenge", "200", "BYE"} :
                              Pending(Answer(kind, k)) => k = cseq_num
                        /\ Answer("challenge", k) \in resp => pipe # <<Answer("challenge", k)>>)'
    BY DEF OneOpen
  <2>1. /\ \A j \in CSeqs : /\ j > cseq_num => uas[j] = "none" /\ InviteReq(j) \notin net
                            /\ j < cseq_num => uas[j] \in {"challenged", "over"}
                            /\ \A kind \in {"challenge", "200", "BYE"} :
                                  Pending(Answer(kind, j)) => j = cseq_num
                            /\ Answer("challenge", j) \in resp =>
                                  pipe # <<Answer("challenge", j)>>
    BY <1>1, <1>5 DEF OneOpen
  <2>2. m.to = cseq_num
    BY <1>2, <2>1
  <2>3. k > cseq_num + 1 => uas[k] = "none" /\ InviteReq(k) \notin net'
    <3>1. k > cseq_num + 1 => k > cseq_num /\ k # cseq_num + 1
      BY <1>2
    <3>. QED BY <1>5, <1>6, <2>1, <3>1
  <2>4. k < cseq_num + 1 => uas[k] \in {"challenged", "over"}
    <3>1. k < cseq_num + 1 => k < cseq_num \/ k = cseq_num
      BY <1>2
    <3>. QED BY <1>7, <2>1, <2>2, <3>1
  <2>5. ASSUME NEW kind \in {"challenge", "200", "BYE"} PROVE Answer(kind, k) \notin resp
    <3>1. CASE k = cseq_num
      <4>1. Pending(Answer("challenge", k)) /\ pipe = <<Answer("challenge", k)>>
        BY <1>1, <1>2, <2>2, <3>1, HeadPending
      <4>2. ~Pending(Answer("200", k)) /\ ~Pending(Answer("BYE", k))
        BY <1>1, <4>1 DEF MessagesTrue
      <4>. QED BY <2>1, <4>1, <4>2 DEF Pending
    <3>2. CASE k # cseq_num
      BY <2>1, <3>2 DEF Pending
    <3>. QED BY <3>1, <3>2
  <2>6. \A n : Pending(n)' => n \in resp
    BY DEF Pending
  <2>. QED BY <2>3, <2>4, <2>5, <2>6
<1>12. ByeUnderWay'
  BY DEF ByeUnderWay
<1>. QED BY <1>8, <1>9, <1>10, <1>11, <1>12 DEF DialInv

\* The call is answered: its ACK is sent now, and again with every further 2xx.
LEMMA OkKeeps ==
    ASSUME DialInv, pc = "invite", UNCHANGED <<resp, uas, cseq_num, auth_tries>>,
           NEW m \in Messages, Pending(m), m.kind = "200",
           Transmits({Ack(m)}), ok_buf' = Ack(m), pc' = "bridge", pipe' = <<>>
    PROVE  DialInv'
<1>1. Types /\ MessagesTrue /\ AcksTrue /\ OneOpen
  BY DEF DialInv
<1>2. Ack(m) \in Requests /\ m.to \in CSeqs /\ m = Answer("200", m.to)
  BY <1>1, Names DEF Types, Ack, Requests
<1>3. /\ net' \subseteq Requests /\ net' \subseteq net \cup {Ack(m)}
      /\ ~disturbed' => ~disturbed
  BY <1>1, <1>2, TransmitsFacts DEF Types
<1>4. \A k \in CSeqs : AckOf(k) = Ack(m) => k = m.to
  BY DEF AckOf, Ack
<1>5. \A k \in CSeqs : InviteReq(k) # Ack(m)
  BY DEF InviteReq, Ack
<1>6. uas[m.to] \notin {"none", "proceeding", "ringing"}
  BY <1>1, <1>2 DEF MessagesTrue
<1>7. \A n : Pending(n)' => Pending(n)
  BY DEF Pending
<1>8. Types'
  BY <1>1, <1>2, <1>3 DEF Types
<1>9. MessagesTrue'
  BY <1>1, <1>7, MessagesKept
<1>10. AcksTrue'
  <2>1. Ack(m).method = "ACK"
    BY DEF Ack
  <2>. QED BY <1>1, <1>2, <1>3, <1>4, <1>6, <2>1 DEF AcksTrue
<1>11. OneOpen'
  BY <1>1, <1>3, <1>5, <1>7 DEF OneOpen
<1>12. ByeUnderWay'
  BY DEF ByeUnderWay
<1>. QED BY <1>8, <1>9, <1>10, <1>11, <1>12 DEF DialInv

\* Every answer the thread may get while it waits for one.
LEMMA ReadInvitingKeeps == DialInv /\ ReadInviting => DialInv'
<1>. SUFFICES ASSUME DialInv, ReadInviting PROVE DialInv'
  OBVIOUS
<1>. DEFINE m == Head(pipe)
<1>1. Types
  BY DEF DialInv
<1>2. /\ pc = "invite" /\ pipe # <<>> /\ UNCHANGED <<resp, uas>>
      /\ m \in Messages /\ Pending(m)
  BY <1>1, HeadPending DEF ReadInviting
<1>3. ASSUME NEW msgs \in SUBSET {CancelReq}, Transmits(msgs), Goes("invite"), UNCHANGED ok_buf
      PROVE  DialInv'
  <2>1. CancelReq \in Requests
    BY <1>1 DEF Types, CancelReq, Requests
  <2>2. /\ \A k \in CSeqs : AckOf(k) # CancelReq /\ InviteReq(k) # CancelReq
        /\ net \subseteq Requests /\ msgs \in SUBSET Requests
    BY <1>1, <2>1 DEF AckOf, InviteReq, CancelReq, Types
  <2>3. /\ net' \subseteq Requests /\ net' \subseteq net \cup msgs /\ net \subseteq net'
        /\ ~disturbed' => ~disturbed
    BY <1>3, <2>2, TransmitsFacts
  <2>4. UNCHANGED <<pc, cseq_num, auth_tries, ok_buf, uas, resp>> /\ pipe' = <<>>
    BY <1>2, <1>3 DEF Goes
  <2>. QED BY <2>2, <2>3, <2>4, QuietKeeps
<1>4. ASSUME NEW msgs, Transmits(msgs), Exit,
             \/ m.kind \in {"challenge", "refusal"} /\ msgs = {Ack(m)}
             \/ m.kind = "200" /\ msgs = {Ack(m), Bye(m)}
      PROVE  DialInv'
  BY <1>2, <1>4, InvitingExitKeeps
<1>5. CASE AnswerCancelled(m)
  BY <1>3, <1>4, <1>5 DEF AnswerCancelled
<1>6. CASE AnswerProvisional(m)
  BY <1>3, <1>6 DEF AnswerProvisional
<1>7. CASE AnswerChallenge(m)
  BY <1>2, <1>4, <1>7, ChallengeKeeps DEF AnswerChallenge
<1>8. CASE AnswerOk(m)
  <2>1. CASE Transmits({Ack(m), Bye(m)}) /\ Exit
    BY <1>4, <1>8, <2>1 DEF AnswerOk
  <2>2. CASE Transmits({Ack(m)}) /\ ok_buf' = Ack(m) /\ Goes("bridge")
    BY <1>2, <1>8, <2>2, OkKeeps DEF AnswerOk, Goes
  <2>. QED BY <1>8, <2>1, <2>2 DEF AnswerOk
<1>9. CASE AnswerOther(m)
  BY <1>3, <1>4, <1>9 DEF AnswerOther
<1>. QED BY <1>5, <1>6, <1>7, <1>8, <1>9 DEF ReadInviting

\* Timer B: there is no call to hang up yet.
LEMMA GiveUpKeeps == DialInv /\ GiveUp => DialInv'
<1>. SUFFICES ASSUME DialInv, GiveUp PROVE DialInv'
  OBVIOUS
<1>1. Types /\ AcksTrue
  BY DEF DialInv
<1>2. pc = "invite" /\ Exit /\ UNCHANGED <<resp, uas, net>>
  BY DEF GiveUp, farVars
<1>3. net' \subseteq Requests
  BY <1>1, <1>2 DEF Types
<1>4. \A k \in CSeqs : AckOf(k) \in net' => uas[k] \notin {"none", "proceeding", "ringing"}
  BY <1>1, <1>2 DEF AcksTrue
<1>5. \A k \in CSeqs : ~(uas[k] = "confirmed" \/ (uas[k] = "answered" /\ AckOf(k) \in net'))
  BY <1>1, <1>2 DEF AcksTrue
<1>. QED BY <1>2, <1>3, <1>4, <1>5, ExitKeeps

\* The bridge: the callee's BYE ends the thread, and no other INVITE of ours is open.
LEMMA ReadBridgingKeeps == DialInv /\ ReadBridging => DialInv'
<1>. SUFFICES ASSUME DialInv, ReadBridging PROVE DialInv'
  OBVIOUS
<1>. DEFINE m == Head(pipe)
<1>1. Types /\ MessagesTrue /\ AcksTrue /\ OneOpen
  BY DEF DialInv
<1>2. /\ pc = "bridge" /\ pipe # <<>> /\ UNCHANGED <<resp, uas>>
      /\ m \in Messages /\ Pending(m) /\ m.to \in CSeqs /\ m = Answer(m.kind, m.to)
      /\ ok_buf \in Requests /\ net \subseteq Requests
  BY <1>1, HeadPending, Names DEF ReadBridging, AcksTrue, Types
<1>3. CASE m.kind = "BYE" /\ Exit /\ Transmits({})
  <2>1. net' = net /\ (~disturbed' => ~disturbed)
    <3>1. {} \in SUBSET Requests /\ net \subseteq Requests
      BY <1>2
    <3>. QED BY <1>3, <3>1, TransmitsFacts
  <2>2. ASSUME ~disturbed, NEW k \in CSeqs PROVE uas[k] \notin {"answered", "confirmed"}
    <3>1. m.to = cseq_num /\ uas[m.to] \in {"hanging", "over"}
      BY <1>1, <1>2, <1>3, <2>2 DEF OneOpen, MessagesTrue
    <3>2. k = cseq_num \/ uas[k] \in {"none", "challenged", "over"}
      <4>1. k < cseq_num \/ k = cseq_num \/ k > cseq_num
        BY <1>1, BoundsAssumption DEF Types, CSeqs
      <4>. QED BY <1>1, <1>2, <2>2, <4>1 DEF OneOpen
    <3>. QED BY <3>1, <3>2
  <2>3. \A k \in CSeqs : AckOf(k) \in net' => uas[k] \notin {"none", "proceeding", "ringing"}
    BY <1>1, <2>1 DEF AcksTrue
  <2>. QED BY <1>2, <1>3, <2>1, <2>2, <2>3, ExitKeeps
<1>4. ASSUME NEW msgs \in SUBSET {ok_buf}, Transmits(msgs), Goes("bridge"), UNCHANGED ok_buf
      PROVE  DialInv'
  <2>1. /\ net' \subseteq Requests /\ net' \subseteq net \cup msgs /\ net \subseteq net'
        /\ ~disturbed' => ~disturbed
    BY <1>2, <1>4, TransmitsFacts
  <2>2. UNCHANGED <<pc, cseq_num, auth_tries, ok_buf, uas, resp>> /\ pipe' = <<>>
    BY <1>2, <1>4 DEF Goes
  <2>3. \A k \in CSeqs : InviteReq(k) \in net' => InviteReq(k) \in net \/ k = cseq_num
    <3>1. ok_buf.method # "INVITE"
      BY <1>1, <1>2 DEF AcksTrue
    <3>. QED BY <2>1, <3>1 DEF InviteReq
  <2>. QED BY <1>2, <2>1, <2>2, <2>3, QuietKeeps
<1>5. CASE m.kind # "BYE"
  BY <1>4, <1>5 DEF ReadBridging
<1>. QED BY <1>3, <1>4, <1>5 DEF ReadBridging

-----------------------------------------------------------------------------
(* Steps of the far end. *)

\* What the far end says with a transaction it leaves in each state.
Says == [state \in States |->
    CASE state \in {"proceeding", "ringing"} -> {"100", "18x"}
      [] state = "challenged" -> {"challenge"}
      [] state = "refused" -> {"refusal", "cancelled"}
      [] state = "answered" -> {"200"}
      [] state = "hanging" -> {"BYE"}
      [] OTHER -> {}]

\* The steps of a transaction: it begins with its INVITE and is confirmed by its ACK;
\* a challenge that is sent again counts as a disturbance.
Moves(k, state) ==
    \/ uas[k] = "none" /\ state = "proceeding" /\ InviteReq(k) \in net
    \/ uas[k] \in {"proceeding", "ringing"}
       /\ state \in {"proceeding", "ringing", "refused", "answered"}
    \/ uas[k] = "proceeding" /\ state = "challenged"
    \/ uas[k] = "challenged" /\ state = "challenged" /\ disturbed'
    \/ uas[k] = state /\ state \in {"refused", "answered", "hanging"}
    \/ uas[k] \in {"challenged", "refused"} /\ state = "over"
    \/ uas[k] = "answered" /\ state = "confirmed" /\ AckOf(k) \in net
    \/ uas[k] \in {"answered", "confirmed"} /\ state \in {"hanging", "over"}

\* A step of transaction k: it may take a request and says what its state calls for.  A
\* BYE it takes ends the call.
FarStep(k, state, sent) ==
    /\ UNCHANGED <<pc, pipe, cseq_num, auth_tries, ok_buf>>
    /\ Moves(k, state) /\ uas' = [uas EXCEPT ![k] = state]
    /\ sent \subseteq {Answer(kind, k) : kind \in Says[state]}
    /\ resp' \subseteq resp \cup sent /\ net' \subseteq net
    /\ \A q \in net \ net' : q.method = "BYE" => q.to = k /\ state = "over"
    /\ ~disturbed' => ~disturbed

\* What such a step says and leaves alone.
LEMMA FarStepFacts ==
    ASSUME Types, NEW k \in CSeqs, NEW state \in States, NEW sent, FarStep(k, state, sent)
    PROVE  /\ uas'[k] = state /\ \A j \in CSeqs \ {k} : uas'[j] = uas[j]
           /\ \A kind \in Answers \cup {"cancelled", "BYE"}, j \in CSeqs :
                 Pending(Answer(kind, j))' => \/ Pending(Answer(kind, j))
                                              \/ j = k /\ kind \in Says[state]
           /\ Says[state] \subseteq Answers \cup {"cancelled", "BYE"}
<1>1. uas'[k] = state /\ \A j \in CSeqs \ {k} : uas'[j] = uas[j]
  BY DEF Types, FarStep
<1>2. Says[state] \subseteq Answers \cup {"cancelled", "BYE"}
  BY DEF Says, Answers
<1>3. ASSUME NEW kind \in Answers \cup {"cancelled", "BYE"}, NEW j \in CSeqs,
             Pending(Answer(kind, j))', ~Pending(Answer(kind, j))
      PROVE  j = k /\ kind \in Says[state]
  <2>1. Answer(kind, j) \in sent
    BY <1>3 DEF Pending, FarStep, Answer
  <2>2. PICK type \in Says[state] : Answer(kind, j) = Answer(type, k)
    BY <2>1 DEF FarStep
  <2>. QED BY <1>2, <2>2, Names
<1>. QED BY <1>1, <1>2, <1>3

\* What each state says, and no other.
LEMMA SaysFacts ==
    ASSUME NEW state \in States
    PROVE  /\ "challenge" \in Says[state] => state = "challenged"
           /\ "refusal" \in Says[state] => state = "refused"
           /\ "200" \in Says[state] => state = "answered"
           /\ "BYE" \in Says[state] => state = "hanging"
BY DEF Says, States

\* The step keeps the messages true.
LEMMA FarKeepsMessages ==
    ASSUME DialInv, NEW k \in CSeqs, NEW state \in States, NEW sent, FarStep(k, state, sent)
    PROVE  Types' /\ MessagesTrue'
<1>1. Types /\ MessagesTrue /\ Moves(k, state)
  BY DEF DialInv, FarStep
<1>2. /\ uas'[k] = state /\ \A j \in CSeqs \ {k} : uas'[j] = uas[j]
      /\ \A kind \in Answers \cup {"cancelled", "BYE"}, j \in CSeqs :
            Pending(Answer(kind, j))' => \/ Pending(Answer(kind, j))
                                         \/ j = k /\ kind \in Says[state]
      /\ Says[state] \subseteq Answers \cup {"cancelled", "BYE"}
  BY <1>1, FarStepFacts
<1>3. Types'
  <2>1. {Answer(kind, k) : kind \in Says[state]} \subseteq Messages
    BY <1>2, Names
  <2>. QED BY <1>1, <2>1 DEF Types, FarStep
<1>4. {"challenge", "refusal", "200", "BYE"} \subseteq Answers \cup {"cancelled", "BYE"}
  BY DEF Answers
<1>5. ASSUME NEW j \in CSeqs
      PROVE  (/\ Pending(Answer("challenge", j)) => uas[j] \in {"challenged", "over"}
              /\ Pending(Answer("refusal", j)) => uas[j] \in {"refused", "over"}
              /\ Pending(Answer("200", j)) =>
                    uas[j] \in {"answered", "confirmed", "hanging", "over"}
              /\ Pending(Answer("BYE", j)) => uas[j] \in {"hanging", "over"}
              /\ Pending(Answer("challenge", j)) =>
                    ~Pending(Answer("200", j)) /\ ~Pending(Answer("BYE", j)))'
  <2>1. /\ Pending(Answer("challenge", j)) => uas[j] \in {"challenged", "over"}
        /\ Pending(Answer("refusal", j)) => uas[j] \in {"refused", "over"}
        /\ Pending(Answer("200", j)) => uas[j] \in {"answered", "confirmed", "hanging", "over"}
        /\ Pending(Answer("BYE", j)) => uas[j] \in {"hanging", "over"}
        /\ Pending(Answer("challenge", j)) =>
              ~Pending(Answer("200", j)) /\ ~Pending(Answer("BYE", j))
    BY <1>1 DEF MessagesTrue
  <2>2. CASE j # k
    BY <1>2, <1>4, <2>1, <2>2
  <2>3. CASE j = k
    <3>1. /\ Pending(Answer("challenge", k))' => Pending(Answer("challenge", k)) \/ state = "challenged"
          /\ Pending(Answer("refusal", k))' => Pending(Answer("refusal", k)) \/ state = "refused"
          /\ Pending(Answer("200", k))' => Pending(Answer("200", k)) \/ state = "answered"
          /\ Pending(Answer("BYE", k))' => Pending(Answer("BYE", k)) \/ state = "hanging"
      BY <1>2, <1>4, SaysFacts
    <3>. QED BY <1>1, <1>2, <2>1, <2>3, <3>1 DEF Moves
  <2>. QED BY <2>2, <2>3
<1>6. MessagesTrue'
  BY <1>5 DEF MessagesTrue
<1>. QED BY <1>3, <1>6

\* The step keeps what is known of the ACKs on their way and of the BYE behind them.
LEMMA FarKeepsAcks ==
    ASSUME DialInv, NEW k \in CSeqs, NEW state \in States, NEW sent, FarStep(k, state, sent)
    PROVE  AcksTrue' /\ ByeUnderWay'
<1>1. /\ Types /\ AcksTrue /\ ByeUnderWay /\ Moves(k, state)
      /\ UNCHANGED <<pc, pipe, cseq_num, auth_tries, ok_buf>> /\ net' \subseteq net
      /\ ~disturbed' => ~disturbed
  BY DEF DialInv, FarStep
<1>2. uas'[k] = state /\ \A j \in CSeqs \ {k} : uas'[j] = uas[j]
  BY <1>1, FarStepFacts
<1>3. AcksTrue'
  <2>1. \A j \in CSeqs : uas[j] \notin {"none", "proceeding", "ringing"}
            => uas'[j] \notin {"none", "proceeding", "ringing"}
    BY <1>1, <1>2 DEF Moves
  <2>2. ASSUME pc = "invite", NEW j \in CSeqs
        PROVE  uas'[j] # "confirmed" /\ (AckOf(j) \in net' => uas'[j] # "answered")
    BY <1>1, <1>2, <2>2 DEF AcksTrue, Moves
  <2>. QED BY <1>1, <2>1, <2>2 DEF AcksTrue
<1>4. ByeUnderWay'
  <2>. SUFFICES ASSUME pc = "done", ~disturbed', NEW j \in CSeqs,
                       uas'[j] = "confirmed" \/ (uas'[j] = "answered" /\ AckOf(j) \in net')
                PROVE  \E q \in net' : q.method = "BYE" /\ q.to = j
    BY <1>1 DEF ByeUnderWay
  <2>1. uas[j] = "confirmed" \/ (uas[j] = "answered" /\ AckOf(j) \in net)
    BY <1>1, <1>2 DEF AcksTrue, Moves
  <2>2. PICK q \in net : q.method = "BYE" /\ q.to = j
    BY <1>1, <2>1 DEF ByeUnderWay
  <2>3. q \in net'
    BY <1>2, <2>2 DEF FarStep
  <2>. QED BY <2>2, <2>3
<1>. QED BY <1>3, <1>4

\* The step is one of the current INVITE, or closes an old one.
LEMMA FarKeepsOneOpen ==
    ASSUME DialInv, NEW k \in CSeqs, NEW state \in States, NEW sent, FarStep(k, state, sent)
    PROVE  OneOpen'
<1>. SUFFICES ASSUME pc # "done", ~disturbed', NEW j \in CSeqs
              PROVE  (/\ j > cseq_num => uas[j] = "none" /\ InviteReq(j) \notin net
                      /\ j < cseq_num => uas[j] \in {"challenged", "over"}
                      /\ \A kind \in {"challenge", "200", "BYE"} :
                            Pending(Answer(kind, j)) => j = cseq_num
                      /\ Answer("challenge", j) \in resp =>
                            pipe # <<Answer("challenge", j)>>)'
  BY DEF OneOpen, FarStep
<1>1. /\ Types /\ MessagesTrue /\ OneOpen /\ Moves(k, state)
      /\ UNCHANGED <<pc, pipe, cseq_num, auth_tries, ok_buf>> /\ net' \subseteq net
      /\ ~disturbed' => ~disturbed
  BY DEF DialInv, FarStep
<1>2. /\ uas'[k] = state /\ \A i \in CSeqs \ {k} : uas'[i] = uas[i]
      /\ \A kind \in Answers \cup {"cancelled", "BYE"}, i \in CSeqs :
            Pending(Answer(kind, i))' => \/ Pending(Answer(kind, i))
                                         \/ i = k /\ kind \in Says[state]
  BY <1>1, FarStepFacts
<1>3. \A i \in CSeqs :
          /\ i > cseq_num => uas[i] = "none" /\ InviteReq(i) \notin net
          /\ i < cseq_num => uas[i] \in {"challenged", "over"}
          /\ \A kind \in {"challenge", "200", "BYE"} : Pending(Answer(kind, i)) => i = cseq_num
          /\ Answer("challenge", i) \in resp => pipe # <<Answer("challenge", i)>>
  BY <1>1 DEF OneOpen
<1>4. k = cseq_num \/ (k < cseq_num /\ state = "over")
  <2>1. k < cseq_num \/ k = cseq_num \/ k > cseq_num
    BY <1>1, BoundsAssumption DEF Types, CSeqs
  <2>2. ~(k > cseq_num)
    BY <1>1, <1>3 DEF Moves
  <2>3. k < cseq_num => state = "over"
    BY <1>1, <1>3 DEF Moves
  <2>. QED BY <2>1, <2>2, <2>3
<1>5. j > cseq_num => uas'[j] = "none" /\ InviteReq(j) \notin net'
  <2>1. j > cseq_num => j # k
    BY <1>1, <1>4, BoundsAssumption DEF Types, CSeqs
  <2>. QED BY <1>1, <1>2, <1>3, <2>1
<1>6. j < cseq_num => uas'[j] \in {"challenged", "over"}
  <2>1. j < cseq_num /\ j = k => state = "over"
    BY <1>1, <1>4, BoundsAssumption DEF Types, CSeqs
  <2>. QED BY <1>2, <1>3, <2>1
<1>7. ASSUME NEW kind \in {"challenge", "200", "BYE"}, Pending(Answer(kind, j))'
      PROVE  j = cseq_num
  <2>1. kind \in Says["over"] => FALSE
    BY DEF Says, States
  <2>2. kind \in Answers \cup {"cancelled", "BYE"}
    BY DEF Answers
  <2>. QED BY <1>2, <1>3, <1>4, <1>7, <2>1, <2>2
<1>8. Answer("challenge", j) \in resp' => pipe # <<Answer("challenge", j)>>
  <2>. SUFFICES ASSUME Answer("challenge", j) \in resp', pipe = <<Answer("challenge", j)>>
                PROVE  FALSE
    OBVIOUS
  <2>1. Answer("challenge", j) \notin resp /\ Pending(Answer("challenge", j))
    BY <1>3 DEF Pending
  <2>2. uas[j] \in {"challenged", "over"}
    BY <1>1, <2>1 DEF MessagesTrue
  <2>3. Answer("challenge", j) \in sent
    BY <2>1 DEF FarStep
  <2>4. PICK type \in Says[state] : Answer("challenge", j) = Answer(type, k)
    BY <2>3 DEF FarStep
  <2>5. type = "challenge" /\ j = k
    BY <2>4 DEF Answer
  <2>6. state = "challenged"
    BY <2>4, <2>5, SaysFacts
  <2>. QED BY <1>1, <2>2, <2>5, <2>6 DEF Moves
<1>. QED BY <1>1, <1>5, <1>6, <1>7, <1>8

\* A step of the far end keeps the invariant.
LEMMA FarKeeps ==
    ASSUME DialInv, NEW k \in CSeqs, NEW state \in States, NEW sent, FarStep(k, state, sent)
    PROVE  DialInv'
BY FarKeepsMessages, FarKeepsAcks, FarKeepsOneOpen DEF DialInv

\* A transaction moves and says so.
LEMMA UasSendsKeeps ==
    ASSUME DialInv, NEW k \in CSeqs, NEW state \in States, NEW kind \in Says[state],
           UasSends(k, state, kind), Moves(k, state)
    PROVE  DialInv'
<1>. DEFINE sent == {Answer(kind, k)}
<1>1. Types
  BY DEF DialInv
<1>2. kind \in Answers \cup {"cancelled", "BYE"}
  BY DEF Says, Answers
<1>3. Receives(sent) /\ UNCHANGED <<threadVars, net>> /\ uas' = [uas EXCEPT ![k] = state]
  BY DEF UasSends, Answer
<1>4. sent \in SUBSET Messages /\ resp \subseteq Messages
  BY <1>1, <1>2, Names DEF Types
<1>5. resp' \subseteq resp \cup sent /\ (~disturbed' => ~disturbed)
  BY <1>3, <1>4, ReceivesFacts
<1>6. FarStep(k, state, sent)
  BY <1>3, <1>5 DEF FarStep, threadVars
<1>. QED BY <1>6, FarKeeps

\* What each state may say.
LEMMA SaysNames ==
    /\ "100" \in Says["proceeding"] /\ "18x" \in Says["ringing"]
    /\ "challenge" \in Says["challenged"] /\ "200" \in Says["answered"]
    /\ "refusal" \in Says["refused"] /\ "cancelled" \in Says["refused"]
    /\ "BYE" \in Says["hanging"]
    /\ {"proceeding", "ringing", "challenged", "answered", "refused", "hanging",
        "confirmed", "over"} \subseteq States
BY DEF Says, States

\* What the far end does of itself.
LEMMA UasActsKeep ==
    ASSUME DialInv, NEW k \in CSeqs,
           \/ Ring(k) \/ Decide(k) \/ Resend(k) \/ ResendChallenge(k)
           \/ CalleeHangsUp(k) \/ AckNeverComes(k)
    PROVE  DialInv'
<1>1. CASE Ring(k)
  BY <1>1, SaysNames, UasSendsKeeps DEF Ring, Moves
<1>2. CASE Decide(k)
  BY <1>2, SaysNames, UasSendsKeeps DEF Decide, Moves
<1>3. CASE Resend(k)
  BY <1>3, SaysNames, UasSendsKeeps DEF Resend, Moves
<1>4. CASE ResendChallenge(k)
  <2>. DEFINE sent == {Answer("challenge", k)}
  <2>1. Moves(k, "challenged") /\ uas' = [uas EXCEPT ![k] = "challenged"]
    BY <1>4 DEF ResendChallenge, Moves, DialInv, Types
  <2>2. resp' \subseteq resp \cup sent
    BY <1>4 DEF ResendChallenge, Send, Answer
  <2>3. FarStep(k, "challenged", sent)
    BY <1>4, <2>1, <2>2, SaysNames DEF FarStep, ResendChallenge, threadVars
  <2>. QED BY <2>3, SaysNames, FarKeeps
<1>5. CASE CalleeHangsUp(k)
  BY <1>5, SaysNames, UasSendsKeeps DEF CalleeHangsUp, Moves
<1>6. CASE AckNeverComes(k)
  <2>1. CASE uas[k] = "answered" /\ UasSends(k, "hanging", "BYE")
    BY <2>1, SaysNames, UasSendsKeeps DEF Moves
  <2>2. CASE /\ uas[k] \in {"challenged", "refused"}
             /\ uas' = [uas EXCEPT ![k] = "over"]
             /\ UNCHANGED <<running, threadVars, giveup, net, resp, disturbed>>
    <3>1. FarStep(k, "over", {})
      BY <2>2 DEF FarStep, Moves, threadVars
    <3>. QED BY <3>1, SaysNames, FarKeeps
  <2>. QED BY <1>6, <2>1, <2>2 DEF AckNeverComes
<1>. QED BY <1>1, <1>2, <1>3, <1>4, <1>5, <1>6

\* A request reaches the far end: it moves its transaction, or it is too late or too
\* early for it.
LEMMA UasReceivesKeeps ==
    ASSUME DialInv, NEW q \in Requests, UasReceives(q)
    PROVE  DialInv'
<1>1. Types
  BY DEF DialInv
<1>2. /\ q \in net /\ net' = net \ {q} /\ net' \subseteq Requests
      /\ UNCHANGED <<pc, pipe, cseq_num, auth_tries, ok_buf>>
  BY <1>1 DEF UasReceives, threadVars, Types
<1>3. CASE /\ q.method = "CANCEL" /\ uas[q.cseq] \in {"proceeding", "ringing"}
           /\ uas' = [uas EXCEPT ![q.cseq] = "refused"]
           /\ Receives({[kind |-> kind, to |-> q.cseq] : kind \in {"refusal", "cancelled"}})
  <2>. DEFINE k == q.cseq
              sent == {Answer(kind, k) : kind \in {"refusal", "cancelled"}}
  <2>1. k \in CSeqs
    BY <1>3 DEF Requests
  <2>2. sent \in SUBSET Messages /\ sent \subseteq {Answer(kind, k) : kind \in Says["refused"]}
    BY <2>1, Names, SaysNames DEF Answers
  <2>3. resp' \subseteq resp \cup sent /\ (~disturbed' => ~disturbed)
    <3>1. Receives(sent) /\ resp \subseteq Messages
      BY <1>1, <1>3 DEF Answer, Types
    <3>. QED BY <2>2, <3>1, ReceivesFacts
  <2>4. FarStep(k, "refused", sent)
    BY <1>2, <1>3, <2>2, <2>3 DEF FarStep, Moves
  <2>. QED BY <2>1, <2>4, SaysNames, FarKeeps
<1>4. CASE uas' = UasTurn(q) /\ UNCHANGED <<resp, disturbed>>
  <2>1. ASSUME NEW k \in CSeqs, NEW state \in States, uas' = [uas EXCEPT ![k] = state],
               Moves(k, state), q.method = "BYE" => q.to = k /\ state = "over"
        PROVE  DialInv'
    <3>1. FarStep(k, state, {})
      BY <1>2, <1>4, <2>1 DEF FarStep
    <3>. QED BY <3>1, FarKeeps
  <2>2. CASE q.method = "INVITE" /\ uas[q.cseq] = "none"
    <3>1. q.cseq \in CSeqs /\ q = InviteReq(q.cseq)
      BY <2>2 DEF Requests, InviteReq
    <3>2. uas' = [uas EXCEPT ![q.cseq] = "proceeding"]
      BY <1>4, <2>2 DEF UasTurn
    <3>. QED BY <1>2, <2>1, <2>2, <3>1, <3>2, SaysNames DEF Moves
  <2>3. CASE q.method = "ACK" /\ uas[q.cseq] \in {"challenged", "refused"}
    <3>1. q.cseq \in CSeqs
      BY <2>3 DEF Requests
    <3>2. uas' = [uas EXCEPT ![q.cseq] = "over"]
      BY <1>4, <2>3 DEF UasTurn
    <3>. QED BY <2>1, <2>3, <3>1, <3>2, SaysNames DEF Moves
  <2>4. CASE q.method = "ACK" /\ uas[q.cseq] = "answered" /\ q.to = q.cseq
    <3>1. q.cseq \in CSeqs /\ q = AckOf(q.cseq)
      BY <2>4 DEF Requests, AckOf
    <3>2. uas' = [uas EXCEPT ![q.cseq] = "confirmed"]
      BY <1>4, <2>4 DEF UasTurn
    <3>. QED BY <1>2, <2>1, <2>4, <3>1, <3>2, SaysNames DEF Moves
  <2>5. CASE q.method = "BYE" /\ uas[q.to] \in {"answered", "confirmed"}
    <3>1. q.to \in CSeqs
      BY <2>5 DEF Requests
    <3>2. uas' = [uas EXCEPT ![q.to] = "over"]
      BY <1>4, <2>5 DEF UasTurn
    <3>. QED BY <2>1, <2>5, <3>1, <3>2, SaysNames DEF Moves
  <2>6. CASE /\ ~(q.method = "INVITE" /\ uas[q.cseq] = "none")
             /\ ~(q.method = "ACK" /\ uas[q.cseq] \in {"challenged", "refused"})
             /\ ~(q.method = "ACK" /\ uas[q.cseq] = "answered" /\ q.to = q.cseq)
             /\ ~(q.method = "BYE" /\ uas[q.to] \in {"answered", "confirmed"})
    <3>1. uas' = uas
      BY <1>4, <2>6 DEF UasTurn
    <3>2. \A p \in net \ net' : p = q
      BY <1>2
    <3>. QED BY <1>2, <1>4, <2>6, <3>1, <3>2, QuietKeeps
  <2>. QED BY <2>2, <2>3, <2>4, <2>5, <2>6
<1>. QED BY <1>3, <1>4 DEF UasReceives

-----------------------------------------------------------------------------
(* The theorems. *)

\* The invariant holds when the INVITE has just been sent.
LEMMA InitHolds == Init => DialInv
<1>. SUFFICES ASSUME Init PROVE DialInv
  OBVIOUS
<1>1. 1 \in CSeqs /\ \A k \in CSeqs : k >= 1
  BY BoundsAssumption DEF CSeqs
<1>2. Types
  BY <1>1, Names, BoundsAssumption DEF Init, Types, States, NoAck
<1>3. MessagesTrue
  BY DEF Init, MessagesTrue, Pending
<1>4. AcksTrue
  BY <1>1, Names DEF Init, AcksTrue
<1>5. OneOpen
  <2>1. \A k \in CSeqs : k > 1 => InviteReq(k) # InviteReq(1)
    BY <1>1, Names
  <2>2. \A k \in CSeqs : ~(k < 1)
    BY DEF CSeqs
  <2>. QED BY <2>1, <2>2 DEF Init, OneOpen, Pending
<1>6. ByeUnderWay
  BY DEF Init, ByeUnderWay
<1>. QED BY <1>2, <1>3, <1>4, <1>5, <1>6 DEF DialInv

\* Every step keeps it.
LEMMA NextKeeps == DialInv /\ [Next]_vars => DialInv'
<1>. SUFFICES ASSUME DialInv, [Next]_vars PROVE DialInv'
  OBVIOUS
<1>1. CASE Thread
  BY <1>1, ReadInvitingKeeps, GiveUpKeeps, ReadBridgingKeeps DEF Thread
<1>2. CASE RetransmitInvite \/ Finish \/ TimerB \/ Lose \/ \E m \in Messages : Pump(m)
  BY <1>2, LoopKeeps
<1>3. CASE \E k \in CSeqs : \/ Ring(k) \/ Decide(k) \/ Resend(k) \/ ResendChallenge(k)
                            \/ CalleeHangsUp(k) \/ AckNeverComes(k)
  BY <1>3, UasActsKeep
<1>4. CASE \E q \in Requests : UasReceives(q)
  BY <1>4, UasReceivesKeeps
<1>5. CASE UNCHANGED vars
  BY <1>5 DEF vars, threadVars, farVars, DialInv, Types, MessagesTrue, AcksTrue, OneOpen,
              ByeUnderWay, Pending
<1>. QED BY <1>1, <1>2, <1>3, <1>4, <1>5 DEF Next

\* Whatever the network loses, drops or reorders, what is on its way is true of the far
\* end, and the BYE of a call that an ACK confirms is sent behind that ACK
\* (call.c:1040, 1095, 1113).
THEOREM DialInvariant == Spec => []DialInv
<1>1. Init => DialInv
  BY InitHolds
<1>2. DialInv /\ [Next]_vars => DialInv'
  BY NextKeeps
<1>. QED BY <1>1, <1>2, PTL DEF Spec

\* A call the far end holds to be established is never left behind by the thread.
THEOREM NothingLeftBehind == Spec => []NoCallLeftBehind
<1>1. DialInv => NoCallLeftBehind
  BY DEF DialInv, ByeUnderWay, NoCallLeftBehind
<1>. QED BY <1>1, DialInvariant, PTL

\* The flags of the loop, the thread and the network are Boolean.
LEMMA FlagsKept == Flags /\ DialInv /\ [Next]_vars => Flags'
<1>. SUFFICES ASSUME Flags, DialInv, [Next]_vars PROVE Flags'
  OBVIOUS
<1>1. CASE Thread
  BY <1>1 DEF Flags, Thread, ReadInviting, GiveUp, ReadBridging, Exit, Goes, Transmits,
              AnswerCancelled, AnswerProvisional, AnswerChallenge, AnswerOk, AnswerOther, farVars
<1>2. CASE RetransmitInvite \/ Finish \/ TimerB \/ Lose \/ \E m \in Messages : Pump(m)
  BY <1>2 DEF Flags, RetransmitInvite, Finish, TimerB, Lose, Pump, threadVars, farVars
<1>3. CASE \E k \in CSeqs : \/ Ring(k) \/ Decide(k) \/ Resend(k) \/ ResendChallenge(k)
                            \/ CalleeHangsUp(k) \/ AckNeverComes(k)
  BY <1>3, ZenonT(30) DEF Flags, Ring, Decide, Resend, ResendChallenge, CalleeHangsUp, AckNeverComes,
              UasSends, Receives, threadVars
<1>4. CASE \E q \in Requests : UasReceives(q)
  BY <1>4 DEF Flags, UasReceives, Receives, threadVars
<1>5. CASE UNCHANGED vars
  BY <1>5 DEF Flags, vars, threadVars, farVars
<1>. QED BY <1>1, <1>2, <1>3, <1>4, <1>5 DEF Next

\* Every variable keeps its type; what waits in the dispatch pipe is at most the one
\* message that will be looked at, and no challenge is answered beyond MaxAuth.
THEOREM DialTypes == Spec => []TypeOK
<1>1. Init => Flags
  BY DEF Init, Flags
<1>2. Types /\ Flags => TypeOK
  <2>. SUFFICES ASSUME Types, Flags PROVE TypeOK
    OBVIOUS
  <2>1. pipe \in Seq(Messages) /\ Len(pipe) <= 1
    <3>1. CASE pipe = <<>>
      BY <3>1
    <3>2. CASE \E m \in Messages : pipe = <<m>>
      BY <3>2
    <3>. QED BY <3>1, <3>2 DEF Types
  <2>2. auth_tries \in 0..(MaxAuth + 1)
    BY BoundsAssumption DEF Types
  <2>3. running \in BOOLEAN /\ {provisional, cancelling, tcp, giveup, disturbed} \subseteq BOOLEAN
    BY DEF Flags
  <2>. QED BY <2>1, <2>2, <2>3 DEF Types, TypeOK, States
<1>3. DialInv => Types
  BY DEF DialInv
<1>4. Flags /\ DialInv /\ [Next]_vars => Flags'
  BY FlagsKept
<1>. QED BY <1>1, <1>2, <1>3, <1>4, DialInvariant, PTL DEF Spec
=============================================================================
