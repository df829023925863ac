-------------------------------- MODULE Hub ---------------------------------
(***************************************************************************)
(* Status events for WebSocket clients: the publisher in the worker        *)
(* (internal/events), Redis Pub/Sub, and on each replica one hub that fans *)
(* events out to the connections, each with a bounded buffer, a writer and *)
(* a reader goroutine (internal/ws).  One replica is modelled.             *)
(*                                                                         *)
(* The hub's mutex makes a pass over the subscribers one step.  Closing a  *)
(* connection takes its time, outside the mutex: in between, writers       *)
(* write, connections come and go.                                         *)
(***************************************************************************)
EXTENDS Naturals, Sequences, SequencesExt, Faults

CONSTANTS
  Conns,       \* connections
  Owners,      \* API keys, as owners of notifications
  Subject,     \* the API key of a connection; Admin for one with the admin scope
  Admin,
  Buffer,      \* Hub.sendBuffer
  MaxEvents    \* bound on the number of events

ASSUME HubAssumption ==
  /\ Subject \in [Conns -> Owners \cup {Admin}] /\ Admin \notin Owners
  /\ Buffer \in Nat \ {0} /\ MaxEvents \in Nat

VARIABLES
  last,      \* number of the last event published
  queue,     \* events the hub has received and not dispatched
  hub,       \* "select", "closing" or "stopped"
  stopping,  \* the hub's context is done
  toClose,   \* connections the hub is about to close
  conn,      \* "new", "open", "closed", or "gone" when unregistered
  buf,       \* subscriber.send
  hand,      \* what the writer has received and not written: at most one event
  writer,    \* writePump is running
  sent,      \* written to the socket
  due        \* history: dispatched events that match, since the connection registered

hubVars == <<queue, hub, stopping, toClose>>
connVars == <<conn, buf, hand, writer, sent, due>>
vars == <<last, hubVars, connVars, faults>>

Events == [num : 1..MaxEvents, owner : Owners]

(* The variables have their types, and no buffer exceeds its capacity. *)
TypeOK ==
  /\ last \in 0..MaxEvents /\ queue \in Seq(Events)
  /\ hub \in {"select", "closing", "stopped"} /\ stopping \in BOOLEAN /\ toClose \subseteq Conns
  /\ conn \in [Conns -> {"new", "open", "closed", "gone"}] /\ writer \in [Conns -> BOOLEAN]
  /\ buf \in [Conns -> Seq(Events)] /\ hand \in [Conns -> Seq(Events)]
  /\ sent \in [Conns -> Seq(Events)] /\ due \in [Conns -> Seq(Events)]
  /\ \A c \in Conns : Len(buf[c]) <= Buffer /\ Len(hand[c]) <= 1
  /\ FaultsTypeOK

Init ==
  /\ last = 0 /\ queue = <<>> /\ hub = "select" /\ stopping = FALSE /\ toClose = {}
  /\ conn = [c \in Conns |-> "new"] /\ writer = [c \in Conns |-> FALSE]
  /\ buf = [c \in Conns |-> <<>>] /\ hand = [c \in Conns |-> <<>>]
  /\ sent = [c \in Conns |-> <<>>] /\ due = [c \in Conns |-> <<>>]
  /\ FaultsInit

-----------------------------------------------------------------------------
(* Events. *)

(* Publisher.Publish; when PUBLISH fails the event is dropped. *)
Publish(o) ==
  /\ last < MaxEvents
  /\ last' = last + 1
  /\ \/ queue' = Append(queue, [num |-> last + 1, owner |-> o]) /\ NoFault
     \/ UNCHANGED queue /\ Fault("redis")
  /\ UNCHANGED <<hub, stopping, toClose, connVars>>

(* Filter.Matches, for a filter without batch and channel. *)
Matches(c, e) == Subject[c] = Admin \/ Subject[c] = e.owner

(* Hub.subs. *)
Registered(c) == conn[c] \in {"open", "closed"}

Wants(c, e) == Registered(c) /\ Matches(c, e)

(* Mutation of HasRoom: one more than the capacity. *)
HasRoomOneMore(c) == Len(buf[c]) <= Buffer

HasRoom(c) == Len(buf[c]) < Buffer

Slow(e) == {c \in Conns : Wants(c, e) /\ ~HasRoom(c)}

(* Mutation of Dispatch: the send waits for room. *)
DispatchBlocking ==
  /\ hub = "select" /\ queue # <<>>
  /\ \A c \in Conns : Wants(c, Head(queue)) => HasRoom(c)
  /\ queue' = Tail(queue)
  /\ buf' = [c \in Conns |-> IF Wants(c, Head(queue)) THEN Append(buf[c], Head(queue)) ELSE buf[c]]
  /\ due' = [c \in Conns |-> IF Wants(c, Head(queue)) THEN Append(due[c], Head(queue)) ELSE due[c]]
  /\ NoFault /\ UNCHANGED <<last, hub, toClose, stopping, conn, hand, writer, sent>>

(* Hub.dispatch, under the read lock: a connection that wants the event    *)
(* gets it or, when its buffer is full, is to be closed.                   *)
Dispatch ==
  /\ hub = "select" /\ queue # <<>>
  /\ LET e == Head(queue)
     IN /\ buf' = [c \in Conns |-> IF Wants(c, e) /\ HasRoom(c) THEN Append(buf[c], e) ELSE buf[c]]
        /\ due' = [c \in Conns |-> IF Wants(c, e) THEN Append(due[c], e) ELSE due[c]]
        /\ toClose' = Slow(e)
        /\ hub' = IF Slow(e) = {} THEN "select" ELSE "closing"
  /\ queue' = Tail(queue)
  /\ NoFault /\ UNCHANGED <<last, stopping, conn, hand, writer, sent>>

(* The hub's context is done: broadcastClose takes the subscribers of this *)
(* moment.                                                                 *)
Stop ==
  /\ hub = "select"
  /\ stopping' = TRUE
  /\ toClose' = {c \in Conns : Registered(c)}
  /\ hub' = IF toClose' = {} THEN "stopped" ELSE "closing"
  /\ NoFault /\ UNCHANGED <<last, queue, connVars>>

(* Mutation of CloseNext: the hub goes on while the connection is closed. *)
CloseNextLater(c) ==
  /\ c \in toClose
  /\ conn' = [conn EXCEPT ![c] = IF conn[c] = "open" THEN "closed" ELSE conn[c]]
  /\ toClose' = toClose \ {c}
  /\ hub' = IF stopping THEN (IF toClose' = {} THEN "stopped" ELSE "closing") ELSE "select"
  /\ NoFault /\ UNCHANGED <<last, queue, stopping, buf, hand, writer, sent, due>>

(* subscriber.close, outside the lock; doClose does something only once. *)
CloseNext(c) ==
  /\ c \in toClose
  /\ conn' = [conn EXCEPT ![c] = IF conn[c] = "open" THEN "closed" ELSE conn[c]]
  /\ toClose' = toClose \ {c}
  /\ hub' = IF toClose' # {} THEN "closing" ELSE IF stopping THEN "stopped" ELSE "select"
  /\ NoFault /\ UNCHANGED <<last, queue, stopping, buf, hand, writer, sent, due>>

-----------------------------------------------------------------------------
(* Connections. *)

(* The upgrade is accepted, the subscriber registered, the pumps started. *)
Register(c) ==
  /\ conn[c] = "new"
  /\ conn' = [conn EXCEPT ![c] = "open"]
  /\ writer' = [writer EXCEPT ![c] = TRUE]
  /\ NoFault /\ UNCHANGED <<last, hubVars, buf, hand, sent, due>>

(* writePump receives the next event; it may still do so when the context  *)
(* is done.                                                                *)
Receive(c) ==
  /\ writer[c] /\ hand[c] = <<>> /\ buf[c] # <<>>
  /\ hand' = [hand EXCEPT ![c] = <<Head(buf[c])>>]
  /\ buf' = [buf EXCEPT ![c] = Tail(buf[c])]
  /\ NoFault /\ UNCHANGED <<last, hubVars, conn, writer, sent, due>>

StopWriter(c) == writer' = [writer EXCEPT ![c] = FALSE]

(* conn.Write succeeds on an open connection. *)
Write(c) ==
  /\ writer[c] /\ hand[c] # <<>> /\ conn[c] = "open"
  /\ sent' = [sent EXCEPT ![c] = sent[c] \o hand[c]]
  /\ hand' = [hand EXCEPT ![c] = <<>>]
  /\ NoFault /\ UNCHANGED <<last, hubVars, conn, buf, writer, due>>

(* A write fails, or a ping: the writer returns and does not close the     *)
(* connection.  The library may have.                                      *)
WriterFails(c) ==
  /\ writer[c] /\ conn[c] = "open" /\ Fault("slow")
  /\ StopWriter(c)
  /\ \/ UNCHANGED conn
     \/ conn' = [conn EXCEPT ![c] = "closed"]
  /\ hand' = [hand EXCEPT ![c] = <<>>]
  /\ UNCHANGED <<last, hubVars, buf, sent, due>>

(* On a closed connection the writer returns. *)
WriterEnds(c) ==
  /\ writer[c] /\ conn[c] \in {"closed", "gone"}
  /\ StopWriter(c)
  /\ hand' = [hand EXCEPT ![c] = <<>>]
  /\ NoFault /\ UNCHANGED <<last, hubVars, conn, buf, sent, due>>

(* The client closes the connection or is found to be gone. *)
PeerLeaves(c) ==
  /\ conn[c] = "open"
  /\ conn' = [conn EXCEPT ![c] = "closed"]
  /\ NoFault /\ UNCHANGED <<last, hubVars, buf, hand, writer, sent, due>>

(* The read fails on a closed connection, the handler returns. *)
Unregister(c) ==
  /\ conn[c] = "closed"
  /\ conn' = [conn EXCEPT ![c] = "gone"]
  /\ NoFault /\ UNCHANGED <<last, hubVars, buf, hand, writer, sent, due>>

Next ==
  \/ \E o \in Owners : Publish(o)
  \/ Dispatch
  \/ Stop
  \/ \E c \in Conns : \/ CloseNext(c) \/ Register(c) \/ Receive(c) \/ Write(c)
                      \/ WriterFails(c) \/ WriterEnds(c) \/ PeerLeaves(c) \/ Unregister(c)

Spec == Init /\ [][Next]_vars

(* The hub's goroutine runs.  Nothing is asked of the connections: a peer   *)
(* may not read, and a pump may not get on.                                 *)
FairSpec == Spec /\ WF_vars(Dispatch) /\ WF_vars(\E c \in Conns : CloseNext(c))

-----------------------------------------------------------------------------
(* What a client has received is a gap-free prefix of the events it is     *)
(* entitled to: once an event was dropped for it, no later one reaches it. *)
NoGap == \A c \in Conns : IsPrefix(sent[c], due[c])

(* One connection that does not read never holds up the others: whatever   *)
(* is queued is dispatched, unless the hub stops.                          *)
EventsMoveOn == queue # <<>> ~> (queue = <<>> \/ hub = "stopped")
=============================================================================
