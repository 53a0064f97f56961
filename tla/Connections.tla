---------------------------- MODULE Connections ----------------------------
(***************************************************************************)
(* The handshakes of network/transport: the ConnectionManager of each node *)
(* drives a HandshakeSession over one end of an in-memory transport pair.  *)
(* A handshake is a task that gives way at every send and receive, so      *)
(* other handshakes, remove() and the peer come between its steps.  The    *)
(* exception that ends a handshake and the `finally` clause it runs are    *)
(* one step, as closing a memory transport does not give way.              *)
(*                                                                         *)
(* A call on a closed transport raises; a call made before the transport   *)
(* is closed still completes (asyncio.wait_for runs the queue operation as *)
(* a task of its own).  A receive that finds nothing ends by its timeout.  *)
(* cleanup() is a run of remove() calls.                                   *)
(***************************************************************************)
EXTENDS Naturals, Sequences, FiniteSets

CONSTANTS
    Nodes,          \* two managers
    Links,          \* transport pairs between them
    Ids,            \* connection ids, chosen by the caller
    Networks,       \* network id, genesis hash and protocol version
    MaxConnections,
    RejectLimit,    \* rejections that ban a peer
    None

ASSUME ConnectionsAssumption ==
    /\ IsFiniteSet(Nodes) /\ Cardinality(Nodes) = 2
    /\ MaxConnections \in Nat \ {0} /\ RejectLimit \in Nat \ {0}

VARIABLES
    context,        \* HandshakeContext of each manager
    conns,          \* ConnectionManager._connections
    rejects,        \* ConnectionManager._reject_counts
    end,            \* what happens at each end of each link
    inbox,          \* messages on their way to each end
    closed          \* links whose transports are closed

vars == <<context, conns, rejects, end, inbox, closed>>

Ends == Links \X Nodes
Link(e) == e[1]
Owner(e) == e[2]
PeerKey(e) == CHOOSE n \in Nodes : n # Owner(e)
Other(e) == <<Link(e), PeerKey(e)>>

Terminal == {"REJECTED", "CLOSED"}
Receiving == {"receiveHello", "receiveAck"}
Sending == {"sendHello", "sendAck", "sendNack"}
Running(e) == end[e].step \in Receiving \cup Sending

Idle == [role |-> None, id |-> None, step |-> "idle", session |-> "NEW"]

Compatible(n, m) == context[n] = context[m]

Init ==
    /\ context \in [Nodes -> Networks]
    /\ conns = [n \in Nodes |-> [i \in Ids |-> None]]
    /\ rejects = [n \in Nodes |-> 0]
    /\ end = [e \in Ends |-> Idle]
    /\ inbox = [e \in Ends |-> << >>]
    /\ closed = {}

-----------------------------------------------------------------------------
(* The end of a handshake and the calls of its task *)

Entries(n) == {i \in Ids : conns[n][i] # None}
IsBanned(n) == rejects[n] >= RejectLimit

(* HandshakeSession.close: not from NEW. *)
ClosedSession(s) == IF s \in Terminal THEN s ELSE "CLOSED"

GiveUpRegistered(e, s) ==  \* mutant: the entry stays in the table
    /\ end' = [end EXCEPT ![e].step = "failed", ![e].session = ClosedSession(s)]
    /\ closed' = closed \cup {Link(e)}
    /\ UNCHANGED conns

(* The finally clause of a handshake that did not establish, whose session *)
(* is in state s: from NEW, close() raises before the transport is closed  *)
(* and the entry taken out.                                                *)
GiveUp(e, s) ==
    IF s = "NEW"
    THEN /\ end' = [end EXCEPT ![e].step = "failed"]
         /\ UNCHANGED <<conns, closed>>
    ELSE /\ end' = [end EXCEPT ![e].step = "failed", ![e].session = ClosedSession(s)]
         /\ closed' = closed \cup {Link(e)}
         /\ conns' = [conns EXCEPT ![Owner(e)][end[e].id] = None]

(* The session is in state s when the task calls the transport. *)
Await(e, s, step) ==
    IF Link(e) \in closed THEN GiveUp(e, s)
    ELSE /\ end' = [end EXCEPT ![e].step = step, ![e].session = s]
         /\ UNCHANGED <<conns, closed>>

Sent(e, message) == inbox' = [inbox EXCEPT ![Other(e)] = Append(@, message)]
Taken(e) == inbox' = [inbox EXCEPT ![e] = Tail(@)]

Hello(n) == [type |-> "HELLO", from |-> context[n], ok |-> TRUE]
HelloAck(ok) == [type |-> "HELLO_ACK", from |-> None, ok |-> ok]

(* _record_reject; the peer key is the other node.                         *)
RecordReject(e) == rejects' = [rejects EXCEPT ![Owner(e)] = @ + 1]

-----------------------------------------------------------------------------
(* _prepare, and the task up to its first call: accept sends a HELLO,      *)
(* register_inbound waits for one.                                         *)
Start(e, role, i) ==
    LET n == Owner(e)
        first == IF role = "accept"
                 THEN [role |-> role, id |-> i, step |-> "sendHello", session |-> "SEND_HELLO"]
                 ELSE [role |-> role, id |-> i, step |-> "receiveHello", session |-> "NEW"]
    IN  /\ end[e].step = "idle"
        /\ ~IsBanned(n)
        /\ Cardinality(Entries(n)) < MaxConnections
        /\ conns[n][i] = None
        /\ \/ /\ Link(e) \notin closed
              /\ end' = [end EXCEPT ![e] = first]
              /\ conns' = [conns EXCEPT ![n][i] = e]
           \/ /\ Link(e) \in closed /\ role = "accept"
              /\ end' = [end EXCEPT ![e] = [first EXCEPT !.step = "failed", !.session = "CLOSED"]]
              /\ UNCHANGED conns
           \/ /\ Link(e) \in closed /\ role = "register"
              /\ end' = [end EXCEPT ![e] = [first EXCEPT !.step = "failed"]]
              /\ conns' = [conns EXCEPT ![n][i] = e]
        /\ UNCHANGED <<context, rejects, inbox, closed>>

SendHello(e) ==
    /\ end[e].step = "sendHello"
    /\ Sent(e, Hello(Owner(e)))
    /\ Await(e, end[e].session, "receiveHello")
    /\ UNCHANGED <<context, rejects>>

ValidType(e, message) == message.type = "HELLO"  \* mutant: any network will do

(* HandshakeContext.validate_hello and the type of the message. *)
Valid(e, message) ==
    /\ message.type = "HELLO"
    /\ message.from = context[Owner(e)]

(* handle_hello accepts the HELLO, and the ack is sent next. *)
HelloAccepted(e) ==
    /\ end[e].session \in {"NEW", "SEND_HELLO"}
    /\ Valid(e, Head(inbox[e]))
    /\ Await(e, IF end[e].session = "NEW" THEN "VALIDATING" ELSE "WAIT_HELLO_ACK", "sendAck")
    /\ UNCHANGED rejects

(* handle_hello rejects; register_inbound says so to the peer first, if it *)
(* can.                                                                    *)
HelloRejected(e) ==
    /\ end[e].session \in {"NEW", "SEND_HELLO"}
    /\ ~Valid(e, Head(inbox[e]))
    /\ IF end[e].role = "register" /\ Link(e) \notin closed
       THEN Await(e, "REJECTED", "sendNack") /\ UNCHANGED rejects
       ELSE GiveUp(e, "REJECTED") /\ RecordReject(e)

(* The connection was removed meanwhile: reject() raises. *)
HandledAfterRemoval(e) ==
    /\ end[e].session = "CLOSED"
    /\ GiveUp(e, "CLOSED")
    /\ UNCHANGED rejects

ReceiveHello(e) ==
    /\ end[e].step = "receiveHello"
    /\ inbox[e] # << >>
    /\ Taken(e)
    /\ HelloAccepted(e) \/ HelloRejected(e) \/ HandledAfterRemoval(e)
    /\ UNCHANGED context

SendNack(e) ==
    /\ end[e].step = "sendNack"
    /\ Sent(e, HelloAck(FALSE))
    /\ RecordReject(e)
    /\ GiveUp(e, end[e].session)
    /\ UNCHANGED context

(* transition_to(ESTABLISHED), and the handshake returns. *)
Establish(e) ==
    /\ end' = [end EXCEPT ![e].step = "done", ![e].session = "ESTABLISHED"]
    /\ UNCHANGED <<conns, closed>>

(* accept waits for an ack in its turn; register_inbound is done, unless   *)
(* its connection was removed, when the transition raises.                 *)
SendAck(e) ==
    /\ end[e].step = "sendAck"
    /\ Sent(e, HelloAck(TRUE))
    /\ \/ end[e].role = "accept" /\ Await(e, end[e].session, "receiveAck")
       \/ end[e].role = "register" /\ end[e].session = "VALIDATING" /\ Establish(e)
       \/ end[e].role = "register" /\ end[e].session = "CLOSED" /\ GiveUp(e, "CLOSED")
    /\ UNCHANGED <<context, rejects>>

(* handle_hello_ack *)
ReceiveAck(e) ==
    LET message == Head(inbox[e])
        positive == message.type = "HELLO_ACK" /\ message.ok
    IN  /\ end[e].step = "receiveAck"
        /\ inbox[e] # << >>
        /\ Taken(e)
        /\ \/ /\ end[e].session = "WAIT_HELLO_ACK" /\ positive
              /\ Establish(e)
              /\ UNCHANGED rejects
           \/ /\ end[e].session = "WAIT_HELLO_ACK" /\ ~positive
              /\ GiveUp(e, "REJECTED")
              /\ RecordReject(e)
           \/ HandledAfterRemoval(e)
        /\ UNCHANGED context

TimeoutIfClosed(e) ==  \* mutant: receive waits as long as the transport is open
    /\ Link(e) \in closed
    /\ end[e].step \in Receiving
    /\ inbox[e] = << >>
    /\ GiveUp(e, end[e].session)
    /\ UNCHANGED <<context, rejects, inbox>>

(* receive_timeout_seconds *)
Timeout(e) ==
    /\ end[e].step \in Receiving
    /\ inbox[e] = << >>
    /\ GiveUp(e, end[e].session)
    /\ UNCHANGED <<context, rejects, inbox>>

RemoveEntry(n, i) ==  \* mutant: forgets to close
    /\ conns[n][i] # None
    /\ conns' = [conns EXCEPT ![n][i] = None]
    /\ UNCHANGED <<context, rejects, end, inbox, closed>>

(* remove: from NEW, close() raises once the entry is out.                 *)
Remove(n, i) ==
    LET e == conns[n][i]
    IN  /\ e # None
        /\ conns' = [conns EXCEPT ![n][i] = None]
        /\ IF end[e].session = "NEW" THEN UNCHANGED <<end, closed>>
           ELSE /\ end' = [end EXCEPT ![e].session = ClosedSession(@)]
                /\ closed' = closed \cup {Link(e)}
        /\ UNCHANGED <<context, rejects, inbox>>

-----------------------------------------------------------------------------
Proceed(e) ==
    SendHello(e) \/ ReceiveHello(e) \/ SendNack(e) \/ SendAck(e) \/ ReceiveAck(e) \/ Timeout(e)

Next ==
    \/ \E e \in Ends, role \in {"accept", "register"}, i \in Ids : Start(e, role, i)
    \/ \E e \in Ends : Proceed(e)
    \/ \E n \in Nodes, i \in Ids : Remove(n, i)

Spec == Init /\ [][Next]_vars

(* Every send and receive returns, the latter by its timeout at the latest. *)
FairSpec == Spec /\ \A e \in Ends : WF_vars(Proceed(e))

-----------------------------------------------------------------------------
(* A connection is established with nodes of the same network only.        *)
EstablishedCompatible ==
    \A e \in Ends : end[e].step = "done" => Compatible(Owner(e), PeerKey(e))

(* Besides, a node counts rejections against a peer of its own network     *)
(* only where its accept meets the peer's register_inbound, whose ack      *)
(* comes while accept waits for a HELLO: timeouts, removals and the peer's *)
(* own failures never count towards a ban.                                 *)
OutcomeJustified ==
    /\ EstablishedCompatible
    /\ \A n \in Nodes :
          rejects[n] > 0 =>
              \/ \E m \in Nodes : ~Compatible(n, m)
              \/ \E e \in Ends : /\ Owner(e) = n
                                 /\ end[e].role = "accept"
                                 /\ end[Other(e)].role = "register"

(* A handshake that fails gives its slot back, except from session NEW:    *)
(* the close() of the finally clause raises there, before the entry is     *)
(* taken out.  NEW is a register_inbound that never took a HELLO, because  *)
(* none came in time or because the link was closed before it looked, the  *)
(* peer's HELLO waiting or not.  The document promises more, see           *)
(* SlotsGivenBack.                                                         *)
SlotsKeptOnlyFromNew ==
    \A n \in Nodes : \A i \in Entries(n) :
        LET e == conns[n][i]
        IN  end[e].step = "failed" => end[e].role = "register" /\ end[e].session = "NEW"

(* A connection leaves the table only closed or rejected, except one whose *)
(* session is NEW (a register_inbound that waits, or one that failed and   *)
(* kept its slot), and except that a handshake which was removed while it  *)
(* ran takes out whatever bears its id when it ends.                       *)
LeavesClosed ==
    [][\A n \in Nodes, i \in Ids :
          LET e == conns[n][i]
          IN  e # None /\ conns'[n][i] # e =>
                  \/ end'[e].session \in Terminal
                  \/ end[e].session = "NEW"
                  \/ \E f \in Ends \ {e} : /\ Owner(f) = n /\ end[f].id = i
                                           /\ Running(f) /\ ~Running(f)']_conns

(* Every handshake ends, even when both sides wait for the other.          *)
HandshakesEnd == \A e \in Ends : Running(e) ~> ~Running(e)

-----------------------------------------------------------------------------
(* What a document says and the code does not do.                          *)

(* docs/PHASE8D_CONNECTION_HANDSHAKE_REPORT.md:65: "Failed or timed-out    *)
(* handshakes clean up their connection slot".  Refuted by a               *)
(* register_inbound whose receive times out or finds the link closed.      *)
SlotsGivenBack ==
    \A n \in Nodes : \A i \in Entries(n) : end[conns[n][i]].step # "failed"
=============================================================================
