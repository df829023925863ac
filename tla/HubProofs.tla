----------------------------- MODULE HubProofs ------------------------------
(***************************************************************************)
(* The WebSocket hub for any number of connections and owners and any      *)
(* buffer size.                                                            *)
(*                                                                         *)
(* What an open connection was owed is what it has been sent, then what    *)
(* its writer holds, then what is buffered.  Only an event dropped for a   *)
(* full buffer breaks the equation, and then the hub dispatches nothing    *)
(* until it has closed that connection, after which nothing is written to  *)
(* it: what is in the line stays a prefix of what was owed (LineInv).      *)
(***************************************************************************)
EXTENDS Hub, TLAPS

(* s is the beginning of t, element by element. *)
Begins(s, t) == Len(s) <= Len(t) /\ \A i \in 1..Len(s) : s[i] = t[i]

(* On its way to connection c: written, in the writer's hand, buffered. *)
Line(c) == (sent[c] \o hand[c]) \o buf[c]

(* The hub is closing connections exactly as long as there are some to      *)
(* close, and it knows those that have registered.                          *)
ClosingInv ==
  /\ hub = "closing" <=> toClose # {}
  /\ \A c \in toClose : conn[c] # "new"

(* Nothing has happened to a connection that is not there yet. *)
NewInv ==
  \A c \in Conns : conn[c] = "new" =>
    ~writer[c] /\ sent[c] = <<>> /\ hand[c] = <<>> /\ buf[c] = <<>> /\ due[c] = <<>>

LineInv ==
  \A c \in Conns :
    /\ Begins(sent[c], due[c])
    /\ conn[c] = "open" /\ writer[c] =>
         /\ Begins(Line(c), due[c])
         /\ c \notin toClose => Line(c) = due[c]

HInv == TypeOK /\ ClosingInv /\ NewInv /\ LineInv

USE HubAssumption, FaultsAssumption

-----------------------------------------------------------------------------
(* Sequences. *)

LEMMA BeginsIsPrefix ==
  ASSUME NEW S, NEW s \in Seq(S), NEW t \in Seq(S), Begins(s, t)
  PROVE  IsPrefix(s, t)
<1>1. Len(s) \in Nat /\ Len(t) \in Nat /\ Len(s) <= Len(t)
  BY DEF Begins
<1>2. SubSeq(s, 1, Len(s)) = SubSeq(t, 1, Len(s))
  BY <1>1 DEF Begins
<1> QED
  BY <1>1, <1>2 DEF IsPrefix

LEMMA BeginsLonger ==
  ASSUME NEW S, NEW s \in Seq(S), NEW t \in Seq(S), NEW e \in S, Begins(s, t)
  PROVE  Begins(s, Append(t, e))
BY DEF Begins

LEMMA BeginsPart ==
  ASSUME NEW S, NEW s \in Seq(S), NEW h \in Seq(S), NEW b \in Seq(S), NEW t \in Seq(S),
         Begins((s \o h) \o b, t)
  PROVE  Begins(s \o h, t)
<1> DEFINE u == s \o h
<1>1. u \in Seq(S)
  OBVIOUS
<1> HIDE DEF u
<1>2. Begins(u \o b, t) => Begins(u, t)
  BY <1>1 DEF Begins
<1> QED
  BY <1>2 DEF u

LEMMA BeginsItself ==
  ASSUME NEW S, NEW s \in Seq(S)
  PROVE  Begins(s, s)
BY DEF Begins

(* writePump moves the head of the buffer to its hand, and its hand to the  *)
(* socket; the hub appends to the buffer.                                   *)
LEMMA MoveToHand ==
  ASSUME NEW S, NEW s \in Seq(S), NEW b \in Seq(S), b # <<>>
  PROVE  (s \o <<Head(b)>>) \o Tail(b) = (s \o <<>>) \o b
<1>1. s \o <<>> = s
  OBVIOUS
<1>2. Head(b) \in S /\ Tail(b) \in Seq(S) /\ Len(b) \in Nat \ {0}
  OBVIOUS
<1>3. (s \o <<Head(b)>>) \o Tail(b) = s \o b
  BY <1>2
<1> QED
  BY <1>1, <1>3

LEMMA MoveToSocket ==
  ASSUME NEW S, NEW s \in Seq(S), NEW h \in Seq(S), NEW b \in Seq(S)
  PROVE  ((s \o h) \o <<>>) \o b = (s \o h) \o b
OBVIOUS

LEMMA AppendToBuffer ==
  ASSUME NEW S, NEW u \in Seq(S), NEW b \in Seq(S), NEW e \in S
  PROVE  u \o Append(b, e) = Append(u \o b, e)
OBVIOUS

-----------------------------------------------------------------------------
(* One pass over the subscribers, seen from one of them. *)
LEMMA DispatchStep ==
  ASSUME HInv, Dispatch
  PROVE  HInv'
<1> DEFINE e == Head(queue)
<1>1. e \in Events /\ queue' \in Seq(Events)
  BY DEF HInv, TypeOK, Dispatch
<1>2. /\ buf' = [c \in Conns |-> IF Wants(c, e) /\ HasRoom(c) THEN Append(buf[c], e) ELSE buf[c]]
      /\ due' = [c \in Conns |-> IF Wants(c, e) THEN Append(due[c], e) ELSE due[c]]
      /\ toClose' = Slow(e)
      /\ hub' = IF Slow(e) = {} THEN "select" ELSE "closing"
      /\ UNCHANGED <<last, stopping, conn, hand, writer, sent, faults>>
  BY DEF Dispatch, NoFault
<1>3. toClose = {}
  BY DEF Dispatch, HInv, ClosingInv
<1> HIDE DEF e
<1>4. ASSUME NEW c \in Conns
      PROVE  /\ buf[c] \in Seq(Events) /\ hand[c] \in Seq(Events) /\ Len(buf[c]) <= Buffer
             /\ sent[c] \in Seq(Events) /\ due[c] \in Seq(Events) /\ Line(c) \in Seq(Events)
  BY DEF HInv, TypeOK, Line
<1>5. TypeOK'
  <2>1. \A c \in Conns : buf'[c] \in Seq(Events) /\ Len(buf'[c]) <= Buffer /\ due'[c] \in Seq(Events)
    BY <1>1, <1>2, <1>4 DEF HasRoom
  <2>2. Slow(e) \subseteq Conns
    BY DEF Slow
  <2> QED
    BY <1>1, <1>2, <2>1, <2>2 DEF HInv, TypeOK, FaultsTypeOK
<1>6. ClosingInv'
  BY <1>2 DEF HInv, ClosingInv, Slow, Wants, Registered
<1>7. NewInv'
  BY <1>2 DEF HInv, NewInv, Wants, Registered
<1>8. LineInv'
  <2> SUFFICES ASSUME NEW c \in Conns
               PROVE  /\ Begins(sent'[c], due'[c])
                      /\ conn'[c] = "open" /\ writer'[c] =>
                           /\ Begins(Line(c)', due'[c])
                           /\ c \notin toClose' => Line(c)' = due'[c]
    BY DEF LineInv
  <2>1. Begins(sent[c], due[c])
    BY DEF HInv, LineInv
  <2>2. Begins(sent'[c], due'[c])
    <3>1. sent'[c] = sent[c] /\ due'[c] = IF Wants(c, e) THEN Append(due[c], e) ELSE due[c]
      BY <1>2
    <3> QED
      BY <1>1, <1>4, <2>1, <3>1, BeginsLonger
  <2>3. ASSUME conn'[c] = "open", writer'[c]
        PROVE  /\ Begins(Line(c)', due'[c])
               /\ c \notin toClose' => Line(c)' = due'[c]
    <3>1. Line(c) = due[c]
      BY <1>2, <1>3, <2>3 DEF HInv, LineInv
    <3>2. CASE Wants(c, e) /\ HasRoom(c)
      <4>1. Line(c)' = (sent[c] \o hand[c]) \o Append(buf[c], e)
        BY Zenon, <1>2, <3>2 DEF Line
      <4>2. Line(c)' = Append(Line(c), e)
        <5> DEFINE u == sent[c] \o hand[c]
        <5>1. u \in Seq(Events) /\ buf[c] \in Seq(Events)
          BY <1>4
        <5>2. Line(c) = u \o buf[c] /\ Line(c)' = u \o Append(buf[c], e)
          BY <4>1 DEF Line
        <5> HIDE DEF u
        <5>3. u \o Append(buf[c], e) = Append(u \o buf[c], e)
          BY <1>1, <5>1, AppendToBuffer
        <5> QED
          BY <5>2, <5>3
      <4>3. Line(c)' = due'[c]
        BY <1>2, <3>1, <3>2, <4>2
      <4>4. due'[c] \in Seq(Events)
        BY <1>5 DEF TypeOK
      <4> QED
        BY <4>3, <4>4, BeginsItself
    <3>3. CASE ~(Wants(c, e) /\ HasRoom(c))
      <4>1. Line(c)' = Line(c)
        BY Zenon, <1>2, <3>3 DEF Line
      <4>2. CASE Wants(c, e)
        <5>1. due'[c] = Append(due[c], e) /\ c \in toClose'
          BY <1>2, <3>3, <4>2 DEF Slow
        <5>2. Begins(due[c], due[c])
          BY <1>4, BeginsItself
        <5> QED
          BY <1>1, <1>4, <3>1, <4>1, <5>1, <5>2, BeginsLonger
      <4>3. CASE ~Wants(c, e)
        <5>1. due'[c] = due[c]
          BY <1>2, <4>3
        <5> QED
          BY <1>4, <3>1, <4>1, <5>1, BeginsItself
      <4> QED
        BY <4>2, <4>3
    <3> QED
      BY <3>2, <3>3
  <2> QED
    BY <2>2, <2>3
<1> QED
  BY <1>5, <1>6, <1>7, <1>8 DEF HInv

(* Steps that leave the line of every connection as it is, and let no       *)
(* connection be opened or taken off the list of those to close while open. *)
LEMMA LineFrame ==
  ASSUME HInv, UNCHANGED <<buf, hand, sent, due>>,
         \A c \in Conns : conn'[c] = "open" /\ writer'[c] =>
           /\ conn[c] = "open" /\ writer[c]
           /\ c \in toClose => c \in toClose'
  PROVE  LineInv'
BY Zenon DEF HInv, LineInv, Line

(* Publishing, stopping and closing. *)
LEMMA HubSteps ==
  ASSUME HInv,
         Stop \/ (\E o \in Owners : Publish(o)) \/ (\E c \in Conns : CloseNext(c))
  PROVE  HInv'
<1> USE DEF HInv, connVars, NoFault
<1>1. ASSUME NEW o \in Owners, Publish(o) PROVE HInv'
  <2> DEFINE e == [num |-> last + 1, owner |-> o]
  <2>1. e \in Events
    BY <1>1 DEF Publish, TypeOK, Events
  <2>2. queue' = Append(queue, e) \/ queue' = queue
    BY <1>1 DEF Publish
  <2> HIDE DEF e
  <2>3. queue' \in Seq(Events)
    <3>1. queue \in Seq(Events)
      BY DEF TypeOK
    <3> QED
      BY <2>1, <2>2, <3>1
  <2>4. last' \in 0..MaxEvents /\ FaultsTypeOK'
    BY <1>1 DEF Publish, TypeOK, FaultsTypeOK, Fault
  <2>5. UNCHANGED <<hub, stopping, toClose, conn, buf, hand, writer, sent, due>>
    BY <1>1 DEF Publish
  <2> QED
    BY <2>3, <2>4, <2>5, LineFrame DEF TypeOK, ClosingInv, NewInv
<1>2. CASE Stop
  <2>1. UNCHANGED <<last, queue, conn, buf, hand, writer, sent, due, faults>>
    BY <1>2 DEF Stop
  <2>2. /\ toClose' = {c \in Conns : Registered(c)} /\ toClose = {} /\ stopping' = TRUE
        /\ hub' = IF toClose' = {} THEN "stopped" ELSE "closing"
    BY <1>2 DEF Stop, ClosingInv
  <2>3. TypeOK'
    BY <2>1, <2>2 DEF TypeOK, FaultsTypeOK
  <2>4. ClosingInv' /\ NewInv'
    BY <2>1, <2>2 DEF ClosingInv, NewInv, Registered
  <2> QED
    BY <2>1, <2>2, <2>3, <2>4, LineFrame
<1>3. ASSUME NEW c \in Conns, CloseNext(c) PROVE HInv'
  <2>1. UNCHANGED <<last, queue, stopping, buf, hand, writer, sent, due, faults>>
    BY <1>3 DEF CloseNext
  <2>2. /\ conn' = [conn EXCEPT ![c] = IF conn[c] = "open" THEN "closed" ELSE conn[c]]
        /\ toClose' = toClose \ {c} /\ c \in toClose
        /\ hub' = IF toClose' # {} THEN "closing" ELSE IF stopping THEN "stopped" ELSE "select"
    BY <1>3 DEF CloseNext
  <2>3. TypeOK'
    BY <2>1, <2>2 DEF TypeOK, FaultsTypeOK
  <2>4. ClosingInv' /\ NewInv'
    BY <2>1, <2>2 DEF ClosingInv, NewInv, TypeOK
  <2>5. LineInv'
    BY <2>1, <2>2, LineFrame DEF TypeOK
  <2> QED
    BY <2>3, <2>4, <2>5
<1> QED
  BY <1>1, <1>2, <1>3

(* A connection comes, leaves, or loses its writer. *)
LEMMA ComeAndGo ==
  ASSUME HInv, NEW c \in Conns,
         Register(c) \/ WriterFails(c) \/ WriterEnds(c) \/ PeerLeaves(c) \/ Unregister(c)
  PROVE  HInv'
<1> USE DEF HInv, hubVars, NoFault
<1>1. CASE PeerLeaves(c) \/ Unregister(c)
  <2>1. /\ UNCHANGED <<last, queue, hub, stopping, toClose, buf, hand, writer, sent, due, faults>>
        /\ conn[c] # "new" /\ \E s \in {"closed", "gone"} : conn' = [conn EXCEPT ![c] = s]
    BY <1>1 DEF PeerLeaves, Unregister
  <2>2. TypeOK' /\ ClosingInv' /\ NewInv'
    BY <2>1 DEF TypeOK, FaultsTypeOK, ClosingInv, NewInv
  <2>3. LineInv'
    BY <2>1, LineFrame DEF TypeOK
  <2> QED
    BY <2>2, <2>3
<1>2. CASE Register(c)
  <2>1. /\ UNCHANGED <<last, queue, hub, stopping, toClose, buf, hand, sent, due, faults>>
        /\ conn[c] = "new" /\ conn' = [conn EXCEPT ![c] = "open"]
        /\ writer' = [writer EXCEPT ![c] = TRUE]
    BY <1>2 DEF Register
  <2>2. TypeOK' /\ ClosingInv' /\ NewInv'
    BY <2>1 DEF TypeOK, FaultsTypeOK, ClosingInv, NewInv
  <2>3. Line(c)' = <<>> /\ due'[c] = <<>> /\ sent'[c] = <<>> /\ c \notin toClose'
    BY <2>1 DEF Line, NewInv, ClosingInv
  <2>4. \A d \in Conns : d # c => /\ Line(d)' = Line(d) /\ conn'[d] = conn[d]
                                  /\ writer'[d] = writer[d]
    BY <2>1 DEF Line, TypeOK
  <2>5. Begins(<<>>, <<>>)
    BY DEF Begins
  <2>6. LineInv'
    BY <2>1, <2>3, <2>4, <2>5 DEF LineInv
  <2> QED
    BY <2>2, <2>6
<1>3. CASE WriterFails(c) \/ WriterEnds(c)
  <2>1. /\ UNCHANGED <<last, queue, hub, stopping, toClose, buf, sent, due>>
        /\ writer' = [writer EXCEPT ![c] = FALSE] /\ hand' = [hand EXCEPT ![c] = <<>>]
    BY <1>3 DEF WriterFails, WriterEnds, StopWriter
  <2>2. /\ conn[c] # "new"
        /\ \/ conn' = conn
           \/ conn' = [conn EXCEPT ![c] = "closed"]
    BY <1>3 DEF WriterFails, WriterEnds
  <2>3. FaultsTypeOK'
    BY <1>3 DEF WriterFails, WriterEnds, Fault, FaultsTypeOK, TypeOK
  <2>4. TypeOK'
    <3>1. /\ hand' \in [Conns -> Seq(Events)] /\ \A d \in Conns : Len(hand'[d]) <= 1
          /\ writer' \in [Conns -> BOOLEAN]
      BY <2>1 DEF TypeOK
    <3>2. conn' \in [Conns -> {"new", "open", "closed", "gone"}]
      BY Zenon, <2>2 DEF TypeOK
    <3> QED
      BY <2>1, <2>3, <3>1, <3>2 DEF TypeOK
  <2>5. /\ \A d \in Conns : conn'[d] = "new" => conn[d] = "new" /\ d # c
        /\ \A d \in Conns : d # c => /\ Line(d)' = Line(d) /\ conn'[d] = conn[d]
                                     /\ writer'[d] = writer[d] /\ hand'[d] = hand[d]
        /\ writer'[c] = FALSE
    BY <2>1, <2>2 DEF Line, TypeOK
  <2>6. ClosingInv' /\ NewInv'
    BY <2>1, <2>5 DEF ClosingInv, NewInv, TypeOK
  <2>7. LineInv'
    BY <2>1, <2>5 DEF LineInv
  <2> QED
    BY <2>4, <2>6, <2>7
<1> QED
  BY <1>1, <1>2, <1>3

(* writePump at work. *)
LEMMA WriterSteps ==
  ASSUME HInv, NEW c \in Conns, Receive(c) \/ Write(c)
  PROVE  HInv'
<1> USE DEF HInv, hubVars, NoFault
<1>0. /\ buf[c] \in Seq(Events) /\ hand[c] \in Seq(Events) /\ sent[c] \in Seq(Events)
      /\ due[c] \in Seq(Events)
  BY DEF TypeOK
<1>1. conn[c] # "new" /\ UNCHANGED <<last, queue, hub, stopping, toClose, conn, writer, due, faults>>
  BY Zenon DEF Receive, Write, NewInv
<1>2. /\ \A d \in Conns : d # c => /\ sent'[d] = sent[d] /\ hand'[d] = hand[d] /\ buf'[d] = buf[d]
      /\ sent' = [sent EXCEPT ![c] = sent'[c]] /\ hand' = [hand EXCEPT ![c] = hand'[c]]
      /\ buf' = [buf EXCEPT ![c] = buf'[c]]
  BY DEF Receive, Write, TypeOK
<1>3. ClosingInv' /\ NewInv'
  BY <1>1, <1>2 DEF ClosingInv, NewInv
<1>4. /\ sent'[c] \in Seq(Events) /\ hand'[c] \in Seq(Events) /\ buf'[c] \in Seq(Events)
      /\ Len(hand'[c]) <= 1 /\ Len(buf'[c]) <= Buffer
      /\ Line(c)' = Line(c)
      /\ Begins(sent'[c], due[c])
  <2>1. CASE Receive(c)
    <3>1. /\ hand[c] = <<>> /\ buf[c] # <<>> /\ sent'[c] = sent[c]
          /\ hand'[c] = <<Head(buf[c])>> /\ buf'[c] = Tail(buf[c])
      BY <2>1 DEF Receive, TypeOK
    <3>2. Line(c)' = Line(c)
      BY Zenon, <1>0, <3>1, MoveToHand DEF Line
    <3>3. Len(buf[c]) <= Buffer /\ Begins(sent[c], due[c])
      BY DEF TypeOK, LineInv
    <3>4. Head(buf[c]) \in Events /\ Tail(buf[c]) \in Seq(Events) /\ Len(Tail(buf[c])) <= Buffer
      BY <1>0, <3>1, <3>3
    <3>5. hand'[c] \in Seq(Events) /\ Len(hand'[c]) <= 1
      BY <3>1, <3>4
    <3> QED
      BY <1>0, <3>1, <3>2, <3>3, <3>4, <3>5
  <2>2. CASE Write(c)
    <3>1. /\ sent'[c] = sent[c] \o hand[c] /\ hand'[c] = <<>> /\ buf'[c] = buf[c]
          /\ conn[c] = "open" /\ writer[c]
      BY <2>2 DEF Write, TypeOK
    <3>2. Line(c)' = Line(c)
      BY <1>0, <3>1, MoveToSocket DEF Line
    <3>3. Len(buf[c]) <= Buffer /\ Begins(Line(c), due[c])
      BY <3>1 DEF TypeOK, LineInv
    <3>4. Begins(sent[c] \o hand[c], due[c])
      BY <1>0, <3>3, BeginsPart DEF Line
    <3> QED
      BY <1>0, <3>1, <3>2, <3>3, <3>4
  <2> QED
    BY <2>1, <2>2
<1>5. TypeOK'
  BY Zenon, <1>1, <1>2, <1>4 DEF TypeOK, FaultsTypeOK
<1>6. \A d \in Conns : Line(d)' = Line(d) /\ Begins(sent'[d], due[d])
  <2>1. \A d \in Conns : d # c => Line(d)' = Line(d)
    BY Zenon, <1>2 DEF Line
  <2> QED
    BY <1>2, <1>4, <2>1 DEF LineInv
<1>7. LineInv'
  BY <1>1, <1>6 DEF LineInv
<1> QED
  BY <1>3, <1>5, <1>7

LEMMA HubInit == Init => HInv
<1> SUFFICES ASSUME Init PROVE HInv
  OBVIOUS
<1>1. Begins(<<>>, <<>>)
  BY DEF Begins
<1>2. TypeOK
  <2>1. <<>> \in Seq(Events) /\ Len(<<>>) = 0
    OBVIOUS
  <2>2. /\ buf \in [Conns -> Seq(Events)] /\ hand \in [Conns -> Seq(Events)]
        /\ sent \in [Conns -> Seq(Events)] /\ due \in [Conns -> Seq(Events)]
        /\ queue \in Seq(Events)
    BY <2>1, Zenon DEF Init
  <2>3. \A c \in Conns : Len(buf[c]) <= Buffer /\ Len(hand[c]) <= 1
    <3>1. \A c \in Conns : buf[c] = <<>> /\ hand[c] = <<>>
      BY DEF Init
    <3> QED
      BY <2>1, <3>1
  <2>4. last \in 0..MaxEvents /\ FaultsTypeOK
    BY DEF Init, FaultsTypeOK, FaultsInit
  <2>5. /\ hub \in {"select", "closing", "stopped"} /\ stopping \in BOOLEAN /\ toClose \subseteq Conns
        /\ conn \in [Conns -> {"new", "open", "closed", "gone"}] /\ writer \in [Conns -> BOOLEAN]
    BY Zenon DEF Init
  <2> QED
    BY <2>2, <2>3, <2>4, <2>5 DEF TypeOK
<1>3. \A c \in Conns : sent[c] = <<>> /\ due[c] = <<>> /\ ~writer[c] /\ hand[c] = <<>> /\ buf[c] = <<>>
  BY DEF Init
<1>4. ClosingInv /\ NewInv
  BY <1>3 DEF Init, ClosingInv, NewInv
<1>5. LineInv
  BY <1>1, <1>3 DEF LineInv
<1> QED
  BY <1>2, <1>4, <1>5 DEF HInv

LEMMA HubStep == HInv /\ [Next]_vars => HInv'
<1> SUFFICES ASSUME HInv, [Next]_vars PROVE HInv'
  OBVIOUS
<1>1. CASE UNCHANGED vars
  <2>1. UNCHANGED <<last, queue, hub, stopping, toClose, conn, buf, hand, writer, sent, due, faults>>
    BY <1>1 DEF vars, hubVars, connVars
  <2> QED
    BY <2>1, LineFrame DEF HInv, TypeOK, FaultsTypeOK, ClosingInv, NewInv
<1>2. CASE Next
  BY <1>2, DispatchStep, HubSteps, ComeAndGo, WriterSteps DEF Next
<1> QED
  BY <1>1, <1>2

LEMMA HubAlways == Spec => []HInv
BY HubInit, HubStep, PTL DEF Spec

(* No buffer exceeds its capacity, however events, closes, writers and      *)
(* connections that come and go interleave (Hub's TypeOK).                  *)
THEOREM BuffersAreBounded == Spec => []TypeOK
<1>1. HInv => TypeOK
  BY DEF HInv
<1> QED
  BY <1>1, HubAlways, PTL

(* What a client has received is a gap-free prefix of the events it is      *)
(* entitled to (Hub's NoGap): once dispatch dropped one for its full        *)
(* buffer, the hub closes it before it dispatches another.                  *)
THEOREM ClientsSeeNoGap == Spec => []NoGap
<1>1. HInv => NoGap
  BY BeginsIsPrefix DEF HInv, TypeOK, LineInv, NoGap
<1> QED
  BY <1>1, HubAlways, PTL
=============================================================================
