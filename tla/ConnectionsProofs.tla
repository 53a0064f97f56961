------------------------ MODULE ConnectionsProofs ------------------------
(***************************************************************************)
(* Whose place in the connection table a failed handshake keeps, how a     *)
(* connection leaves it, with whom one establishes and who counts a        *)
(* rejection, for any number of links, ids and places.                     *)
(***************************************************************************)
EXTENDS Connections, FiniteSetTheorems, SequenceTheorems, TLAPS

Steps == {"idle", "failed", "done"} \cup Receiving \cup Sending
Sessions == Terminal \cup
    {"NEW", "SEND_HELLO", "WAIT_HELLO_ACK", "VALIDATING", "ESTABLISHED"}

(* The states of the tasks, their sessions and the tables.                 *)
TypeOK ==
    /\ end \in [Ends -> [role : {None, "accept", "register"}, id : Ids \cup {None},
                         step : Steps, session : Sessions]]
    /\ conns \in [Nodes -> [Ids -> Ends \cup {None}]]

(* An entry is one of its own node, under the id of its handshake, which   *)
(* has begun: so a handshake has one entry at most.                        *)
EntriesBegun ==
    \A n \in Nodes, i \in Ids :
        conns[n][i] # None => /\ Owner(conns[n][i]) = n
                              /\ end[conns[n][i]].id = i
                              /\ end[conns[n][i]].step # "idle"

(* accept leaves NEW before its first await.                               *)
NewIsRegister ==
    \A e \in Ends : end[e].step # "idle" /\ end[e].session = "NEW" => end[e].role = "register"

SlotInv == TypeOK /\ EntriesBegun /\ NewIsRegister /\ SlotsKeptOnlyFromNew

(* s is the state the session of e is in, or one it enters in this step.   *)
Entered(e, s) == s \in Sessions /\ (s = "NEW" => end[e].session = "NEW")

-----------------------------------------------------------------------------
(* What an entry of the next state was before, and the other way round: a  *)
(* step that changes one end keeps the invariant if it keeps it there.     *)
LEMMA OneEnd ==
    ASSUME SlotInv, NEW e \in Ends, end[e].step # "idle",
           NEW step \in Steps \ {"idle"}, NEW s, Entered(e, s),
           end' = [end EXCEPT ![e].step = step, ![e].session = s],
           conns' \in [Nodes -> [Ids -> Ends \cup {None}]],
           \A n \in Nodes, i \in Ids : conns'[n][i] = conns[n][i] \/ conns'[n][i] = None,
           \/ step # "failed"
           \/ s = "NEW"
           \/ \A n \in Nodes, i \in Ids : conns[n][i] = e => conns'[n][i] = None
    PROVE  SlotInv'
<1>1. end' \in [Ends -> [role : {None, "accept", "register"}, id : Ids \cup {None},
                         step : Steps, session : Sessions]]
  BY DEF SlotInv, TypeOK, Entered
<1>2. \A f \in Ends : /\ end'[f].id = end[f].id /\ end'[f].role = end[f].role
                      /\ f # e => end'[f] = end[f]
  BY DEF SlotInv, TypeOK
<1>3. end'[e].step = step /\ end'[e].session = s
  BY DEF SlotInv, TypeOK
<1>4. TypeOK'
  BY <1>1 DEF TypeOK
<1>5. \A n \in Nodes, i \in Ids :
          conns'[n][i] # None => conns'[n][i] = conns[n][i] /\ conns'[n][i] \in Ends
  OBVIOUS
<1>6. EntriesBegun'
  <2> SUFFICES ASSUME NEW n \in Nodes, NEW i \in Ids, conns'[n][i] # None
               PROVE  /\ Owner(conns'[n][i]) = n
                      /\ end'[conns'[n][i]].id = i
                      /\ end'[conns'[n][i]].step # "idle"
    BY DEF EntriesBegun, Owner
  <2>1. conns'[n][i] = conns[n][i] /\ conns[n][i] \in Ends /\ conns[n][i] # None
    BY <1>5
  <2>2. /\ Owner(conns[n][i]) = n
        /\ end[conns[n][i]].id = i
        /\ end[conns[n][i]].step # "idle"
    BY <2>1 DEF SlotInv, EntriesBegun
  <2>3. end'[conns[n][i]].id = i /\ end'[conns[n][i]].step # "idle"
    BY <1>2, <1>3, <2>1, <2>2
  <2> QED
    BY <2>1, <2>2, <2>3
<1>7. NewIsRegister'
  BY <1>2, <1>3 DEF SlotInv, NewIsRegister, Entered
<1>8. SlotsKeptOnlyFromNew'
  <2> SUFFICES ASSUME NEW n \in Nodes, NEW i \in Ids, conns'[n][i] # None,
                      end'[conns'[n][i]].step = "failed"
               PROVE  /\ end'[conns'[n][i]].role = "register"
                      /\ end'[conns'[n][i]].session = "NEW"
    BY DEF SlotsKeptOnlyFromNew, Entries
  <2> DEFINE f == conns'[n][i]
  <2>1. f \in Ends /\ f = conns[n][i] /\ conns[n][i] # None
    BY <1>5
  <2>2. CASE f # e
    <3>1. end'[f] = end[f]
      BY <2>1, <2>2, <1>2
    <3>2. end[f].step = "failed" => end[f].role = "register" /\ end[f].session = "NEW"
      BY <2>1 DEF SlotInv, SlotsKeptOnlyFromNew, Entries
    <3> QED
      BY <3>1, <3>2, <2>1
  <2>3. CASE f = e
    <3>1. s = "NEW"
      BY <2>1, <2>3, <1>3
    <3> QED
      BY <3>1, <2>3, <1>2, <1>3 DEF SlotInv, NewIsRegister, Entered
  <2> QED
    BY <2>2, <2>3
<1> QED
  BY <1>4, <1>6, <1>7, <1>8 DEF SlotInv

(* The finally clause keeps the invariant, from every state of a session.  *)
LEMMA GiveUpKeeps ==
    ASSUME SlotInv, NEW e \in Ends, end[e].step # "idle", NEW s, Entered(e, s), GiveUp(e, s)
    PROVE  SlotInv'
<1>1. CASE s = "NEW"
  <2>1. end' = [end EXCEPT ![e].step = "failed", ![e].session = "NEW"]
    BY <1>1 DEF GiveUp, Entered, SlotInv, TypeOK
  <2> QED
    BY <1>1, <2>1, OneEnd DEF GiveUp, SlotInv, TypeOK, Steps
<1>2. CASE s # "NEW"
  <2>1. Entered(e, ClosedSession(s))
    BY <1>2 DEF Entered, ClosedSession, Sessions, Terminal
  <2>2. conns' = [conns EXCEPT ![Owner(e)][end[e].id] = None]
    BY <1>2 DEF GiveUp
  <2>3. conns' \in [Nodes -> [Ids -> Ends \cup {None}]]
    BY <2>2 DEF SlotInv, TypeOK
  <2>4. \A n \in Nodes, i \in Ids : conns'[n][i] = conns[n][i] \/ conns'[n][i] = None
    BY <2>2 DEF SlotInv, TypeOK
  <2>5. ASSUME NEW n \in Nodes, NEW i \in Ids, conns[n][i] = e
        PROVE  conns'[n][i] = None
    <3>1. CASE e = None
      BY <2>4, <2>5, <3>1
    <3>2. CASE e # None
      <4>1. Owner(e) = n /\ end[e].id = i
        BY <2>5, <3>2 DEF SlotInv, EntriesBegun
      <4> QED
        BY <4>1, <2>2 DEF SlotInv, TypeOK
    <3> QED
      BY <3>1, <3>2
  <2> QED
    BY <1>2, <2>1, <2>3, <2>4, <2>5, OneEnd DEF GiveUp, Steps
<1> QED
  BY <1>1, <1>2

(* A call of the transport from an open or a closed link.                  *)
LEMMA AwaitKeeps ==
    ASSUME SlotInv, NEW e \in Ends, end[e].step # "idle", NEW s, Entered(e, s),
           NEW step \in Receiving \cup Sending, Await(e, s, step)
    PROVE  SlotInv'
<1>1. CASE Link(e) \in closed
  BY <1>1, GiveUpKeeps DEF Await
<1>2. CASE Link(e) \notin closed
  <2>1. /\ end' = [end EXCEPT ![e].step = step, ![e].session = s]
        /\ conns' = conns
    BY <1>2 DEF Await
  <2>2. step \in Steps \ {"idle"} /\ step # "failed"
    BY DEF Steps, Receiving, Sending
  <2> QED
    BY <2>1, <2>2, OneEnd DEF SlotInv, TypeOK
<1> QED
  BY <1>1, <1>2

(* A handshake that establishes keeps its entry, and rightly.              *)
LEMMA EstablishKeeps ==
    ASSUME SlotInv, NEW e \in Ends, end[e].step # "idle", Establish(e)
    PROVE  SlotInv'
<1>1. Entered(e, "ESTABLISHED") /\ "done" \in Steps \ {"idle"}
  BY DEF Entered, Sessions, Steps
<1> QED
  BY <1>1, OneEnd DEF Establish, SlotInv, TypeOK

(* A new handshake takes an entry only to begin.                           *)
LEMMA StartKeeps ==
    ASSUME SlotInv, NEW e \in Ends, NEW role \in {"accept", "register"}, NEW i \in Ids,
           Start(e, role, i)
    PROVE  SlotInv'
<1>1. Owner(e) \in Nodes
  BY DEF Ends, Owner
<1>2. PICK new \in [role : {role}, id : {i}, step : Steps \ {"idle", "done"}, session : Sessions] :
        /\ end' = [end EXCEPT ![e] = new]
        /\ new.session = "NEW" => role = "register"
        /\ \/ /\ conns' = conns
              /\ new.session # "NEW"
           \/ /\ conns' = [conns EXCEPT ![Owner(e)][i] = e]
              /\ new.step = "failed" => new.session = "NEW"
  <2>1. CASE role = "accept" /\ Link(e) \in closed
    <3> DEFINE begun == [role |-> role, id |-> i, step |-> "failed", session |-> "CLOSED"]
    <3>1. end' = [end EXCEPT ![e] = begun] /\ conns' = conns
      BY <2>1 DEF Start
    <3>2. /\ begun \in [role : {role}, id : {i}, step : Steps \ {"idle", "done"}, session : Sessions]
          /\ begun.session = "CLOSED" /\ begun.step = "failed"
      BY DEF Steps, Sessions, Receiving, Sending, Terminal
    <3> HIDE DEF begun
    <3> QED
      BY <2>1, <3>1, <3>2
  <2>2. CASE role = "accept" /\ Link(e) \notin closed
    <3> DEFINE begun == [role |-> role, id |-> i, step |-> "sendHello", session |-> "SEND_HELLO"]
    <3>1. end' = [end EXCEPT ![e] = begun] /\ conns' = [conns EXCEPT ![Owner(e)][i] = e]
      BY <2>2 DEF Start
    <3>2. /\ begun \in [role : {role}, id : {i}, step : Steps \ {"idle", "done"}, session : Sessions]
          /\ begun.session = "SEND_HELLO" /\ begun.step = "sendHello"
      BY DEF Steps, Sessions, Receiving, Sending, Terminal
    <3> HIDE DEF begun
    <3> QED
      BY <2>2, <3>1, <3>2
  <2>3. CASE role = "register" /\ Link(e) \in closed
    <3> DEFINE begun == [role |-> role, id |-> i, step |-> "failed", session |-> "NEW"]
    <3>1. end' = [end EXCEPT ![e] = begun] /\ conns' = [conns EXCEPT ![Owner(e)][i] = e]
      BY <2>3 DEF Start
    <3>2. /\ begun \in [role : {role}, id : {i}, step : Steps \ {"idle", "done"}, session : Sessions]
          /\ begun.session = "NEW" /\ begun.step = "failed"
      BY DEF Steps, Sessions, Receiving, Sending, Terminal
    <3> HIDE DEF begun
    <3> QED
      BY <2>3, <3>1, <3>2
  <2>4. CASE role = "register" /\ Link(e) \notin closed
    <3> DEFINE begun == [role |-> role, id |-> i, step |-> "receiveHello", session |-> "NEW"]
    <3>1. end' = [end EXCEPT ![e] = begun] /\ conns' = [conns EXCEPT ![Owner(e)][i] = e]
      BY <2>4 DEF Start
    <3>2. /\ begun \in [role : {role}, id : {i}, step : Steps \ {"idle", "done"}, session : Sessions]
          /\ begun.session = "NEW" /\ begun.step = "receiveHello"
      BY DEF Steps, Sessions, Receiving, Sending, Terminal
    <3> HIDE DEF begun
    <3> QED
      BY <2>4, <3>1, <3>2
  <2> QED
    BY <2>1, <2>2, <2>3, <2>4
<1>3. end[e].step = "idle"
  BY DEF Start
<1>4. \A n \in Nodes, j \in Ids :
          conns'[n][j] # None =>
              \/ conns'[n][j] = conns[n][j] /\ conns[n][j] # e /\ conns[n][j] \in Ends
              \/ conns'[n][j] = e /\ n = Owner(e) /\ j = i
                    /\ (new.step = "failed" => new.session = "NEW")
  BY <1>1, <1>2, <1>3 DEF SlotInv, TypeOK, EntriesBegun
<1>5. TypeOK'
  <2>1. new \in [role : {None, "accept", "register"}, id : Ids \cup {None},
                 step : Steps, session : Sessions]
    OBVIOUS
  <2>2. end' \in [Ends -> [role : {None, "accept", "register"}, id : Ids \cup {None},
                           step : Steps, session : Sessions]]
    BY <1>2, <2>1 DEF SlotInv, TypeOK
  <2>3. conns' \in [Nodes -> [Ids -> Ends \cup {None}]]
    <3>1. CASE conns' = conns
      BY <3>1 DEF SlotInv, TypeOK
    <3>2. CASE conns' = [conns EXCEPT ![Owner(e)][i] = e]
      BY <1>1, <3>2 DEF SlotInv, TypeOK
    <3> QED
      BY <1>2, <3>1, <3>2
  <2> QED
    BY <2>2, <2>3 DEF TypeOK
<1>6. end'[e] = new /\ \A f \in Ends : f # e => end'[f] = end[f]
  BY <1>2 DEF SlotInv, TypeOK
<1>7. EntriesBegun'
  <2> SUFFICES ASSUME NEW n \in Nodes, NEW j \in Ids, conns'[n][j] # None
               PROVE  /\ Owner(conns'[n][j]) = n
                      /\ end'[conns'[n][j]].id = j
                      /\ end'[conns'[n][j]].step # "idle"
    BY DEF EntriesBegun, Owner
  <2>1. CASE conns'[n][j] = conns[n][j] /\ conns[n][j] # e /\ conns[n][j] \in Ends
    BY <2>1, <1>6 DEF SlotInv, EntriesBegun
  <2>2. CASE conns'[n][j] = e /\ n = Owner(e) /\ j = i
    BY <2>2, <1>2, <1>6
  <2> QED
    BY <1>4, <2>1, <2>2
<1>8. NewIsRegister'
  BY <1>2, <1>6 DEF SlotInv, NewIsRegister
<1>9. SlotsKeptOnlyFromNew'
  <2> SUFFICES ASSUME NEW n \in Nodes, NEW j \in Ids, conns'[n][j] # None,
                      end'[conns'[n][j]].step = "failed"
               PROVE  /\ end'[conns'[n][j]].role = "register"
                      /\ end'[conns'[n][j]].session = "NEW"
    BY DEF SlotsKeptOnlyFromNew, Entries
  <2>1. CASE conns'[n][j] = conns[n][j] /\ conns[n][j] # e /\ conns[n][j] \in Ends
    <3>1. end'[conns[n][j]] = end[conns[n][j]]
      BY <2>1, <1>6
    <3> QED
      BY <2>1, <3>1 DEF SlotInv, SlotsKeptOnlyFromNew, Entries
  <2>2. CASE conns'[n][j] = e /\ (new.step = "failed" => new.session = "NEW")
    BY <2>2, <1>2, <1>6
  <2> QED
    BY <1>4, <2>1, <2>2
<1> QED
  BY <1>5, <1>7, <1>8, <1>9 DEF SlotInv

(* remove() closes a session that has left NEW, and its entry is gone.     *)
LEMMA RemoveKeeps ==
    ASSUME SlotInv, NEW n \in Nodes, NEW i \in Ids, Remove(n, i)
    PROVE  SlotInv'
<1> DEFINE e == conns[n][i]
<1>1. e \in Ends /\ end[e].step # "idle" /\ Owner(e) = n /\ end[e].id = i
  BY DEF Remove, SlotInv, TypeOK, EntriesBegun
<1>2. conns' = [conns EXCEPT ![n][i] = None]
  BY DEF Remove
<1>3. /\ conns' \in [Nodes -> [Ids -> Ends \cup {None}]]
      /\ \A m \in Nodes, j \in Ids : conns'[m][j] = conns[m][j] \/ conns'[m][j] = None
  BY <1>2 DEF SlotInv, TypeOK
<1>4. \A m \in Nodes, j \in Ids : conns[m][j] = e => conns'[m][j] = None
  BY <1>1, <1>2 DEF SlotInv, TypeOK, EntriesBegun, Remove
<1>5. PICK s : Entered(e, s) /\ end' = [end EXCEPT ![e].step = end[e].step, ![e].session = s]
  <2>1. CASE end[e].session = "NEW"
    <3>1. end' = end
      BY <2>1 DEF Remove
    <3>2. end' = [end EXCEPT ![e].step = end[e].step, ![e].session = "NEW"]
      BY <1>1, <2>1, <3>1 DEF SlotInv, TypeOK
    <3> QED
      BY <3>2, <2>1 DEF Entered, Sessions
  <2>2. CASE end[e].session # "NEW"
    <3>1. end' = [end EXCEPT ![e].session = ClosedSession(@)]
      BY <2>2 DEF Remove
    <3>2. Entered(e, ClosedSession(end[e].session))
      BY <1>1, <2>2 DEF Entered, ClosedSession, SlotInv, TypeOK, Sessions, Terminal
    <3>3. end' = [end EXCEPT ![e].step = end[e].step, ![e].session = ClosedSession(end[e].session)]
      BY <1>1, <3>1 DEF SlotInv, TypeOK
    <3> QED
      BY <3>2, <3>3
  <2> QED
    BY <2>1, <2>2
<1>6. end[e].step \in Steps \ {"idle"}
  BY <1>1 DEF SlotInv, TypeOK
<1> QED
  BY <1>1, <1>3, <1>4, <1>5, <1>6, OneEnd

-----------------------------------------------------------------------------
(* Every step of a handshake ends in one of the lemmas.                    *)
LEMMA ProceedKeeps ==
    ASSUME SlotInv, NEW e \in Ends, Proceed(e)
    PROVE  SlotInv'
<1> USE DEF Receiving, Sending
<1> DEFINE s == end[e].session
<1>1. s \in Sessions /\ Entered(e, s)
  BY DEF SlotInv, TypeOK, Entered
<1>2. \A t \in Sessions \ {"NEW"} : Entered(e, t)
  BY DEF Entered
<1>3. {"VALIDATING", "WAIT_HELLO_ACK", "REJECTED", "CLOSED"} \subseteq Sessions \ {"NEW"}
  BY DEF Sessions, Terminal
<1>4. CASE SendHello(e)
  BY <1>1, <1>4, AwaitKeeps DEF SendHello
<1>5. CASE ReceiveHello(e)
  <2>1. end[e].step # "idle"
    BY <1>5 DEF ReceiveHello
  <2>2. CASE HelloAccepted(e)
    BY <2>1, <2>2, <1>2, <1>3, AwaitKeeps DEF HelloAccepted
  <2>3. CASE HelloRejected(e)
    BY <2>1, <2>3, <1>2, <1>3, AwaitKeeps, GiveUpKeeps DEF HelloRejected
  <2>4. CASE HandledAfterRemoval(e)
    BY <2>1, <2>4, <1>2, <1>3, GiveUpKeeps DEF HandledAfterRemoval
  <2> QED
    BY <1>5, <2>2, <2>3, <2>4 DEF ReceiveHello
<1>6. CASE SendNack(e)
  BY <1>1, <1>6, GiveUpKeeps DEF SendNack
<1>7. CASE SendAck(e)
  <2>1. end[e].step # "idle"
    BY <1>7 DEF SendAck
  <2>2. CASE Await(e, s, "receiveAck")
    BY <2>1, <2>2, <1>1, AwaitKeeps
  <2>3. CASE Establish(e)
    BY <2>1, <2>3, EstablishKeeps
  <2>4. CASE GiveUp(e, "CLOSED")
    BY <2>1, <2>4, <1>2, <1>3, GiveUpKeeps
  <2> QED
    BY <1>7, <2>2, <2>3, <2>4 DEF SendAck
<1>8. CASE ReceiveAck(e)
  <2>1. end[e].step # "idle"
    BY <1>8 DEF ReceiveAck
  <2>2. CASE Establish(e)
    BY <2>1, <2>2, EstablishKeeps
  <2>3. CASE GiveUp(e, "REJECTED")
    BY <2>1, <2>3, <1>2, <1>3, GiveUpKeeps
  <2>4. CASE HandledAfterRemoval(e)
    BY <2>1, <2>4, <1>2, <1>3, GiveUpKeeps DEF HandledAfterRemoval
  <2> QED
    BY <1>8, <2>2, <2>3, <2>4 DEF ReceiveAck
<1>9. CASE Timeout(e)
  BY <1>1, <1>9, GiveUpKeeps DEF Timeout
<1> QED
  BY <1>4, <1>5, <1>6, <1>7, <1>8, <1>9 DEF Proceed

(* No handshake has begun.                                                 *)
LEMMA SlotInit == Init => SlotInv
<1> SUFFICES ASSUME Init PROVE SlotInv
  OBVIOUS
<1>1. Idle \in [role : {None, "accept", "register"}, id : Ids \cup {None},
                step : Steps, session : Sessions] /\ Idle.step = "idle"
  BY DEF Idle, Steps, Sessions
<1>2. end = [e \in Ends |-> Idle] /\ conns = [n \in Nodes |-> [i \in Ids |-> None]]
  BY DEF Init
<1> HIDE DEF Idle
<1>3. TypeOK
  BY <1>1, <1>2 DEF TypeOK
<1>4. NewIsRegister
  BY <1>1, <1>2 DEF NewIsRegister
<1>5. EntriesBegun /\ SlotsKeptOnlyFromNew
  BY <1>2 DEF EntriesBegun, SlotsKeptOnlyFromNew, Entries
<1> QED
  BY <1>3, <1>4, <1>5 DEF SlotInv

LEMMA SlotStep == SlotInv /\ [Next]_vars => SlotInv'
<1> SUFFICES ASSUME SlotInv, [Next]_vars PROVE SlotInv'
  OBVIOUS
<1>1. ASSUME NEW e \in Ends, NEW role \in {"accept", "register"}, NEW i \in Ids, Start(e, role, i)
      PROVE  SlotInv'
  BY <1>1, StartKeeps
<1>2. ASSUME NEW e \in Ends, Proceed(e)
      PROVE  SlotInv'
  BY <1>2, ProceedKeeps
<1>3. ASSUME NEW n \in Nodes, NEW i \in Ids, Remove(n, i)
      PROVE  SlotInv'
  BY <1>3, RemoveKeeps
<1>4. CASE UNCHANGED vars
  BY <1>4 DEF vars, SlotInv, TypeOK, EntriesBegun, NewIsRegister, SlotsKeptOnlyFromNew,
             Entries, Owner
<1> QED
  BY <1>1, <1>2, <1>3, <1>4 DEF Next

(* The tasks, sessions and tables keep their types.                        *)
THEOREM ConnectionsTypeCorrect == Spec => []TypeOK
<1>1. SlotInv => TypeOK
  BY DEF SlotInv
<1> QED
  BY <1>1, SlotInit, SlotStep, PTL DEF Spec

(* A handshake that ended without establishing keeps its place only if it  *)
(* was a register_inbound whose session is still NEW (it took no HELLO, as *)
(* none came in time or the link was closed first), whatever times out, is *)
(* rejected, removed, or closed by the other side.                         *)
THEOREM SlotsComeBack == Spec => []SlotsKeptOnlyFromNew
<1>1. SlotInv => SlotsKeptOnlyFromNew
  BY DEF SlotInv
<1> QED
  BY <1>1, SlotInit, SlotStep, PTL DEF Spec

-----------------------------------------------------------------------------
(* What a manager sends tells the network it is on.                        *)
MessagesTo(e) ==
    [type : {"HELLO"}, from : {context[PeerKey(e)]}, ok : {TRUE}]
        \cup [type : {"HELLO_ACK"}, from : {None}, ok : BOOLEAN]

Agreed == {"WAIT_HELLO_ACK", "VALIDATING", "ESTABLISHED"}

AgreedCompatible ==
    \A e \in Ends : end[e].session \in Agreed => Compatible(Owner(e), PeerKey(e))

NetworkInv ==
    /\ SlotInv
    /\ \A e \in Ends : inbox[e] \in Seq(MessagesTo(e))
    /\ inbox = [e \in Ends |-> inbox[e]]
    /\ AgreedCompatible
    /\ EstablishedCompatible

(* The other end of the other end is one's own: there are two nodes.       *)
LEMMA OtherOfOther ==
    ASSUME NEW e \in Ends
    PROVE  /\ Other(e) \in Ends /\ Other(e) # e
           /\ PeerKey(Other(e)) = Owner(e)
<1>1. PICK a, b : a # b /\ Nodes = {a, b}
  <2>1. PICK a : a \in Nodes
    BY FS_EmptySet, ConnectionsAssumption
  <2>2. IsFiniteSet(Nodes \ {a}) /\ Cardinality(Nodes \ {a}) = 1
    BY <2>1, FS_RemoveElement, ConnectionsAssumption
  <2>3. PICK b : Nodes \ {a} = {b}
    BY <2>2, FS_Singleton
  <2>4. a # b /\ Nodes = {a, b}
    BY <2>1, <2>3
  <2> QED
    BY <2>4
<1>2. Link(e) \in Links /\ Owner(e) \in Nodes /\ e = <<Link(e), Owner(e)>>
  BY DEF Ends, Link, Owner
<1>3. PeerKey(e) \in Nodes /\ PeerKey(e) # Owner(e)
  BY <1>1, <1>2 DEF PeerKey
<1>4. Other(e) \in Ends /\ Owner(Other(e)) = PeerKey(e)
  BY <1>2, <1>3 DEF Other, Ends, Owner
<1>5. PeerKey(Other(e)) \in Nodes /\ PeerKey(Other(e)) # PeerKey(e)
  BY <1>1, <1>3, <1>4 DEF PeerKey
<1> QED
  BY <1>1, <1>2, <1>3, <1>4, <1>5

(* A step that leaves the messages well addressed keeps the invariant, if  *)
(* the session of one end it moves agrees with a compatible peer only.     *)
LEMMA AgreementKeeps ==
    ASSUME NetworkInv, SlotInv', UNCHANGED context, NEW e \in Ends,
           \A f \in Ends \ {e} : end'[f] = end[f],
           end'[e].session \in Agreed =>
               end[e].session \in Agreed \/ Compatible(Owner(e), PeerKey(e)),
           end'[e].step = "done" => end[e].step = "done" \/ end'[e].session \in Agreed,
           inbox' = [f \in Ends |-> inbox'[f]],
           \A f \in Ends : inbox'[f] \in Seq(MessagesTo(f))
    PROVE  NetworkInv'
<1>1. \A f \in Ends : MessagesTo(f)' = MessagesTo(f)
  BY DEF MessagesTo, PeerKey, Owner
<1>2. \A m, n : Compatible(m, n)' = Compatible(m, n)
  BY DEF Compatible
<1>3. AgreedCompatible'
  <2> SUFFICES ASSUME NEW f \in Ends, end'[f].session \in Agreed
               PROVE  Compatible(Owner(f), PeerKey(f))
    BY <1>2 DEF AgreedCompatible, Compatible, Owner, PeerKey, Agreed
  <2> QED
    BY DEF NetworkInv, AgreedCompatible
<1>4. EstablishedCompatible'
  <2> SUFFICES ASSUME NEW f \in Ends, end'[f].step = "done"
               PROVE  Compatible(Owner(f), PeerKey(f))
    BY DEF EstablishedCompatible, Compatible, Owner, PeerKey
  <2> QED
    BY DEF NetworkInv, AgreedCompatible, EstablishedCompatible
<1>5. \A f \in Ends : inbox'[f] \in Seq(MessagesTo(f)')
  BY <1>1
<1> QED
  BY <1>3, <1>4, <1>5 DEF NetworkInv

(* What is sent goes to the other end, which learns the sender's network.  *)
LEMMA SendKeeps ==
    ASSUME NetworkInv, NEW e \in Ends, NEW message, Sent(e, message),
           message = Hello(Owner(e)) \/ \E ok \in BOOLEAN : message = HelloAck(ok)
    PROVE  /\ inbox' = [f \in Ends |-> inbox'[f]]
           /\ \A f \in Ends : inbox'[f] \in Seq(MessagesTo(f))
<1>1. Other(e) \in Ends /\ PeerKey(Other(e)) = Owner(e)
  BY OtherOfOther
<1>2. message \in MessagesTo(Other(e))
  <2>1. CASE message = Hello(Owner(e))
    BY <1>1, <2>1 DEF MessagesTo, Hello
  <2>2. ASSUME NEW ok \in BOOLEAN, message = HelloAck(ok)
        PROVE  message \in MessagesTo(Other(e))
    BY <2>2, Zenon DEF MessagesTo, HelloAck
  <2> QED
    BY <2>1, <2>2
<1>3. inbox' = [inbox EXCEPT ![Other(e)] = Append(@, message)]
  BY DEF Sent
<1>4. inbox[Other(e)] \in Seq(MessagesTo(Other(e)))
  BY <1>1 DEF NetworkInv
<1>5. Append(inbox[Other(e)], message) \in Seq(MessagesTo(Other(e)))
  BY <1>2, <1>4, AppendProperties
<1>6. DOMAIN inbox = Ends
  BY DEF NetworkInv
<1>7. inbox' = [f \in Ends |-> IF f = Other(e) THEN Append(inbox[Other(e)], message) ELSE inbox[f]]
  BY <1>3, <1>6
<1> QED
  BY <1>5, <1>7 DEF NetworkInv

LEMMA TakeKeeps ==
    ASSUME NetworkInv, NEW e \in Ends, inbox[e] # << >>, Taken(e)
    PROVE  /\ inbox' = [f \in Ends |-> inbox'[f]]
           /\ \A f \in Ends : inbox'[f] \in Seq(MessagesTo(f))
           /\ Head(inbox[e]) \in MessagesTo(e)
<1>1. inbox[e] \in Seq(MessagesTo(e)) /\ DOMAIN inbox = Ends
  BY DEF NetworkInv
<1>2. Tail(inbox[e]) \in Seq(MessagesTo(e)) /\ Head(inbox[e]) \in MessagesTo(e)
  BY <1>1, HeadTailProperties
<1>3. inbox' = [f \in Ends |-> IF f = e THEN Tail(inbox[e]) ELSE inbox[f]]
  BY <1>1 DEF Taken
<1> QED
  BY <1>2, <1>3 DEF NetworkInv

(* What the calls of a task do to its end, and to no other.                *)
Moved(e) ==
    /\ \A f \in Ends \ {e} : end'[f] = end[f]
    /\ end'[e].session \in Agreed =>
           end[e].session \in Agreed \/ Compatible(Owner(e), PeerKey(e))
    /\ end'[e].step = "done" => end[e].step = "done" \/ end'[e].session \in Agreed

Delivered ==
    /\ inbox' = [f \in Ends |-> inbox'[f]]
    /\ \A f \in Ends : inbox'[f] \in Seq(MessagesTo(f))

LEMMA GiveUpMoves ==
    ASSUME SlotInv, NEW e \in Ends, NEW s, GiveUp(e, s), s = end[e].session \/ s \notin Agreed
    PROVE  Moved(e)
<1>1. CASE s = "NEW"
  BY <1>1 DEF GiveUp, SlotInv, TypeOK, Moved
<1>2. CASE s # "NEW"
  BY <1>2 DEF GiveUp, SlotInv, TypeOK, ClosedSession, Moved, Agreed
<1> QED
  BY <1>1, <1>2

LEMMA AwaitMoves ==
    ASSUME SlotInv, NEW e \in Ends, NEW s, NEW step \in Receiving \cup Sending, Await(e, s, step),
           s = end[e].session \/ Compatible(Owner(e), PeerKey(e)) \/ s \notin Agreed
    PROVE  Moved(e)
<1>1. CASE Link(e) \in closed
  <2>1. CASE s = "NEW"
    BY <1>1, <2>1 DEF Await, GiveUp, SlotInv, TypeOK, Moved
  <2>2. CASE s # "NEW"
    BY <1>1, <2>2 DEF Await, GiveUp, SlotInv, TypeOK, ClosedSession, Moved, Agreed
  <2> QED
    BY <2>1, <2>2
<1>2. CASE Link(e) \notin closed
  BY <1>2 DEF Await, SlotInv, TypeOK, Receiving, Sending, Moved
<1> QED
  BY <1>1, <1>2

LEMMA EstablishMoves ==
    ASSUME SlotInv, NEW e \in Ends, Establish(e), end[e].session \in Agreed
    PROVE  Moved(e)
BY DEF Establish, SlotInv, TypeOK, Agreed, Moved

LEMMA MovedKeeps ==
    ASSUME NetworkInv, SlotInv', UNCHANGED context, NEW e \in Ends, Moved(e), Delivered
    PROVE  NetworkInv'
BY AgreementKeeps DEF Moved, Delivered

LEMMA NetworkProceed ==
    ASSUME NetworkInv, NEW e \in Ends, Proceed(e)
    PROVE  NetworkInv'
<1>1. SlotInv /\ SlotInv'
  BY ProceedKeeps DEF NetworkInv
<1>2. "REJECTED" \notin Agreed /\ "CLOSED" \notin Agreed
  BY DEF Agreed
<1>3. {"receiveHello", "receiveAck", "sendAck", "sendNack"} \subseteq Receiving \cup Sending
  BY DEF Receiving, Sending
<1>4. CASE SendHello(e)
  <2>1. Moved(e)
    BY <1>1, <1>3, <1>4, AwaitMoves DEF SendHello
  <2>2. Delivered
    BY <1>4, SendKeeps DEF SendHello, Delivered
  <2> QED
    BY <1>1, <1>4, <2>1, <2>2, MovedKeeps DEF SendHello
<1>5. CASE ReceiveHello(e)
  <2>1. Delivered /\ Head(inbox[e]) \in MessagesTo(e)
    BY <1>5, TakeKeeps DEF ReceiveHello, Delivered
  <2>2. ASSUME HelloAccepted(e) PROVE Moved(e)
    <3>1. Compatible(Owner(e), PeerKey(e))
      BY <2>1, <2>2 DEF HelloAccepted, Valid, MessagesTo, Compatible
    <3>2. PICK t : Await(e, t, "sendAck")
      BY <2>2 DEF HelloAccepted
    <3> QED
      BY <1>1, <1>3, <3>1, <3>2, AwaitMoves
  <2>3. ASSUME HelloRejected(e) PROVE Moved(e)
    BY <1>1, <1>2, <1>3, <2>3, AwaitMoves, GiveUpMoves DEF HelloRejected
  <2>4. ASSUME HandledAfterRemoval(e) PROVE Moved(e)
    BY <1>1, <1>2, <2>4, GiveUpMoves DEF HandledAfterRemoval
  <2>5. Moved(e)
    BY <1>5, <2>2, <2>3, <2>4 DEF ReceiveHello
  <2> QED
    BY <1>1, <1>5, <2>1, <2>5, MovedKeeps DEF ReceiveHello
<1>6. CASE SendNack(e)
  <2>1. Moved(e)
    BY <1>1, <1>6, GiveUpMoves DEF SendNack
  <2>2. Delivered
    BY <1>6, SendKeeps DEF SendNack, Delivered
  <2> QED
    BY <1>1, <1>6, <2>1, <2>2, MovedKeeps DEF SendNack
<1>7. CASE SendAck(e)
  <2>1. ASSUME Await(e, end[e].session, "receiveAck") PROVE Moved(e)
    BY <1>1, <1>3, <2>1, AwaitMoves
  <2>2. ASSUME end[e].session = "VALIDATING", Establish(e) PROVE Moved(e)
    BY <1>1, <2>2, EstablishMoves DEF Agreed
  <2>3. ASSUME GiveUp(e, "CLOSED") PROVE Moved(e)
    BY <1>1, <1>2, <2>3, GiveUpMoves
  <2>4. Moved(e)
    BY <1>7, <2>1, <2>2, <2>3 DEF SendAck
  <2>5. Delivered
    BY <1>7, SendKeeps DEF SendAck, Delivered
  <2> QED
    BY <1>1, <1>7, <2>4, <2>5, MovedKeeps DEF SendAck
<1>8. CASE ReceiveAck(e)
  <2>1. ASSUME end[e].session = "WAIT_HELLO_ACK", Establish(e) PROVE Moved(e)
    BY <1>1, <2>1, EstablishMoves DEF Agreed
  <2>2. ASSUME GiveUp(e, "REJECTED") PROVE Moved(e)
    BY <1>1, <1>2, <2>2, GiveUpMoves
  <2>3. ASSUME HandledAfterRemoval(e) PROVE Moved(e)
    BY <1>1, <1>2, <2>3, GiveUpMoves DEF HandledAfterRemoval
  <2>4. Moved(e)
    BY <1>8, <2>1, <2>2, <2>3 DEF ReceiveAck
  <2>5. Delivered
    BY <1>8, TakeKeeps DEF ReceiveAck, Delivered
  <2> QED
    BY <1>1, <1>8, <2>4, <2>5, MovedKeeps DEF ReceiveAck
<1>9. CASE Timeout(e)
  <2>1. Moved(e)
    BY <1>1, <1>9, GiveUpMoves DEF Timeout
  <2>2. Delivered
    BY <1>9 DEF Timeout, NetworkInv, Delivered
  <2> QED
    BY <1>1, <1>9, <2>1, <2>2, MovedKeeps DEF Timeout
<1> QED
  BY <1>4, <1>5, <1>6, <1>7, <1>8, <1>9 DEF Proceed

(* Beginning and removing agree on nothing and send nothing.               *)
LEMMA NetworkStart ==
    ASSUME NetworkInv, NEW e \in Ends, NEW role \in {"accept", "register"}, NEW i \in Ids,
           Start(e, role, i)
    PROVE  NetworkInv'
<1>1. SlotInv /\ SlotInv'
  BY StartKeeps DEF NetworkInv
<1>2. PICK new \in [role : {role}, id : {i}, step : {"sendHello", "receiveHello", "failed"},
                    session : {"SEND_HELLO", "NEW", "CLOSED"}] :
        end' = [end EXCEPT ![e] = new]
  BY DEF Start
<1>3. end'[e] = new /\ \A f \in Ends \ {e} : end'[f] = end[f]
  BY <1>1, <1>2 DEF SlotInv, TypeOK
<1>4. new.session \notin Agreed /\ new.step # "done"
  BY DEF Agreed
<1>5. UNCHANGED <<context, inbox>>
  BY DEF Start
<1> QED
  BY <1>1, <1>3, <1>4, <1>5, AgreementKeeps DEF NetworkInv

LEMMA NetworkRemove ==
    ASSUME NetworkInv, NEW n \in Nodes, NEW i \in Ids, Remove(n, i)
    PROVE  NetworkInv'
<1> DEFINE e == conns[n][i]
<1>1. SlotInv /\ SlotInv' /\ e \in Ends
  <2>1. SlotInv
    BY DEF NetworkInv
  <2>2. SlotInv'
    BY <2>1, RemoveKeeps
  <2>3. e \in Ends
    BY <2>1 DEF SlotInv, TypeOK, Remove
  <2> QED
    BY <2>1, <2>2, <2>3
<1>2. UNCHANGED <<context, inbox>>
  BY DEF Remove
<1>3. /\ \A f \in Ends \ {e} : end'[f] = end[f]
      /\ end'[e].session \in Agreed => end[e].session \in Agreed
      /\ end'[e].step = end[e].step
  BY <1>1 DEF Remove, SlotInv, TypeOK, ClosedSession, Agreed, Terminal
<1> QED
  BY <1>1, <1>2, <1>3, AgreementKeeps DEF NetworkInv

LEMMA NetworkInit == Init => NetworkInv
<1> SUFFICES ASSUME Init PROVE NetworkInv
  OBVIOUS
<1>1. \A e \in Ends : inbox[e] = << >> /\ end[e].session = "NEW" /\ end[e].step = "idle"
  BY DEF Init, Idle
<1>2. inbox = [e \in Ends |-> inbox[e]]
  BY DEF Init
<1>3. \A e \in Ends : inbox[e] \in Seq(MessagesTo(e))
  BY <1>1, EmptySeq
<1> QED
  BY <1>1, <1>2, <1>3, SlotInit DEF NetworkInv, AgreedCompatible, EstablishedCompatible, Agreed

LEMMA NetworkStep == NetworkInv /\ [Next]_vars => NetworkInv'
<1> SUFFICES ASSUME NetworkInv, [Next]_vars PROVE NetworkInv'
  OBVIOUS
<1>1. CASE UNCHANGED vars
  <2>1. SlotInv'
    BY <1>1, SlotStep DEF NetworkInv
  <2>2. /\ inbox' = inbox /\ end' = end /\ context' = context
    BY <1>1 DEF vars
  <2>3. (\A e \in Ends : inbox[e] \in Seq(MessagesTo(e)))'
    BY <2>2 DEF NetworkInv, MessagesTo, PeerKey, Owner
  <2> QED
    BY <2>1, <2>2, <2>3 DEF NetworkInv, AgreedCompatible, EstablishedCompatible, Compatible,
                            Owner, PeerKey
<1>2. CASE Next
  BY <1>2, NetworkStart, NetworkProceed, NetworkRemove DEF Next
<1> QED
  BY <1>1, <1>2

(* Whatever two managers do, over whatever links, and whoever times out or *)
(* removes a connection: accept and register_inbound establish with a peer *)
(* of the same network, genesis and protocol version only.                 *)
THEOREM EstablishesWithinNetwork == Spec => []EstablishedCompatible
<1>1. NetworkInv => EstablishedCompatible
  BY DEF NetworkInv
<1> QED
  BY <1>1, NetworkInit, NetworkStep, PTL DEF Spec

-----------------------------------------------------------------------------
(* A connection that leaves the table.                                     *)
LEMMA GiveUpEnds ==
    ASSUME SlotInv, NEW e \in Ends, NEW s, GiveUp(e, s)
    PROVE  /\ end'[e].step = "failed"
           /\ s # "NEW" => end'[e].session \in Terminal
           /\ s = "NEW" => conns' = conns
           /\ s # "NEW" => conns' = [conns EXCEPT ![Owner(e)][end[e].id] = None]
BY DEF GiveUp, SlotInv, TypeOK, ClosedSession, Terminal

(* A handshake changes the table only by giving up.                        *)
Leaves(e) ==
    \/ conns' = conns
    \/ /\ Running(e) /\ end'[e].step = "failed" /\ end'[e].session \in Terminal
       /\ conns' = [conns EXCEPT ![Owner(e)][end[e].id] = None]

LEMMA AwaitLeaves ==
    ASSUME SlotInv, NEW e \in Ends, Running(e), NEW s, NEW step, Await(e, s, step)
    PROVE  Leaves(e)
BY GiveUpEnds DEF Await, Leaves

LEMMA ProceedLeaves ==
    ASSUME SlotInv, NEW e \in Ends, Proceed(e)
    PROVE  Leaves(e)
<1>1. Running(e)
  BY DEF Proceed, SendHello, ReceiveHello, SendNack, SendAck, ReceiveAck, Timeout, Running,
         Receiving, Sending
<1>2. ASSUME NEW s, GiveUp(e, s) PROVE Leaves(e)
  BY <1>1, <1>2, GiveUpEnds DEF Leaves
<1>3. ASSUME Establish(e) PROVE Leaves(e)
  BY <1>3 DEF Establish, Leaves
<1>4. CASE SendHello(e)
  BY <1>1, <1>4, AwaitLeaves DEF SendHello
<1>5. CASE ReceiveHello(e)
  BY <1>1, <1>2, <1>5, AwaitLeaves DEF ReceiveHello, HelloAccepted, HelloRejected,
                                       HandledAfterRemoval
<1>6. CASE SendNack(e)
  BY <1>2, <1>6 DEF SendNack
<1>7. CASE SendAck(e)
  BY <1>1, <1>2, <1>3, <1>7, AwaitLeaves DEF SendAck
<1>8. CASE ReceiveAck(e)
  BY <1>2, <1>3, <1>8 DEF ReceiveAck, HandledAfterRemoval
<1>9. CASE Timeout(e)
  BY <1>2, <1>9 DEF Timeout
<1> QED
  BY <1>4, <1>5, <1>6, <1>7, <1>8, <1>9 DEF Proceed

(* A connection leaves the table closed or rejected, but for one whose     *)
(* session is NEW (it waits, or has failed and kept its place) and for the *)
(* entry a removed handshake takes out when it ends, whichever handshake   *)
(* bears its id by then.                                                   *)
THEOREM ConnectionsLeaveClosed == Spec => LeavesClosed
<1> DEFINE Left(n, i) ==
        LET e == conns[n][i]
        IN  e # None /\ conns'[n][i] # e =>
                \/ end'[e].session \in Terminal
                \/ end[e].session = "NEW"
                \/ \E f \in Ends \ {e} : /\ Owner(f) = n /\ end[f].id = i
                                         /\ Running(f) /\ ~Running(f)'
<1>1. ASSUME SlotInv, [Next]_vars, NEW n \in Nodes, NEW i \in Ids PROVE Left(n, i)
  <2> DEFINE e == conns[n][i]
  <2>1. conns \in [Nodes -> [Ids -> Ends \cup {None}]]
    BY <1>1 DEF SlotInv, TypeOK
  <2>2. ASSUME NEW f \in Ends, NEW role \in {"accept", "register"}, NEW j \in Ids,
               Start(f, role, j)
        PROVE  Left(n, i)
    <3>1. conns[Owner(f)][j] = None
      BY <2>2 DEF Start
    <3>2. conns' = conns \/ conns' = [conns EXCEPT ![Owner(f)][j] = f]
      BY <2>2 DEF Start
    <3>3. e # None => conns'[n][i] = e
      BY <2>1, <3>1, <3>2
    <3> QED
      BY <3>3
  <2>3. ASSUME NEW f \in Ends, Proceed(f) PROVE Left(n, i)
    <3>1. CASE conns' = conns
      BY <3>1
    <3>2. CASE /\ Running(f) /\ end'[f].step = "failed" /\ end'[f].session \in Terminal
               /\ conns' = [conns EXCEPT ![Owner(f)][end[f].id] = None]
      <4>1. conns'[n][i] # e => Owner(f) = n /\ end[f].id = i
        BY <2>1, <3>2
      <4>2. ~Running(f)'
        BY <3>2 DEF Running, Receiving, Sending
      <4>3. CASE f = e
        BY <3>2, <4>3
      <4>4. CASE f # e
        BY <3>2, <4>1, <4>2, <4>4
      <4> QED
        BY <4>3, <4>4
    <3> QED
      BY <1>1, <2>3, <3>1, <3>2, ProceedLeaves DEF Leaves
  <2>4. ASSUME NEW m \in Nodes, NEW j \in Ids, Remove(m, j) PROVE Left(n, i)
    <3> DEFINE f == conns[m][j]
    <3>1. f \in Ends
      BY <2>1, <2>4 DEF Remove
    <3>2. conns' = [conns EXCEPT ![m][j] = None]
      BY <2>4 DEF Remove
    <3>3. conns'[n][i] # e => e = f
      BY <2>1, <3>2
    <3>4. end[f].session = "NEW" \/ end'[f].session \in Terminal
      BY <1>1, <2>4, <3>1 DEF Remove, SlotInv, TypeOK, ClosedSession, Terminal
    <3> QED
      BY <3>3, <3>4
  <2>5. CASE UNCHANGED vars
    BY <2>5 DEF vars
  <2> QED
    BY <1>1, <2>2, <2>3, <2>4, <2>5 DEF Next
<1>2. SlotInv /\ [Next]_vars => [\A n \in Nodes, i \in Ids : Left(n, i)]_conns
  BY <1>1
<1> QED
  BY <1>2, SlotInit, SlotStep, PTL DEF Spec, LeavesClosed

-----------------------------------------------------------------------------
(* What a node has heard of the other end: nothing yet, or one message,    *)
(* after which it has its turn to speak.                                   *)
Unheard == {"idle", "sendHello", "receiveHello"}
Heard == {"sendAck", "sendNack", "receiveAck"}
Begun(e, role) == end[e].step # "idle" /\ end[e].role = role

(* What accept has said: a HELLO, then an ack, the first k of them.        *)
Said(s, k) ==
    /\ end[s].step = "sendHello" => k = 0
    /\ end[s].step \in {"receiveHello", "sendAck"} => k = 1
    /\ end[s].step \in {"receiveAck", "done"} => k = 2
Script(h, a, k) == IF k = 0 THEN << >> ELSE IF k = 1 THEN <<h>> ELSE <<h, a>>
Rest(a, k) == IF k = 1 THEN << >> ELSE <<a>>

(* The messages on their way to o are those its peer has said, in order;   *)
(* who does not speak first has nothing to answer until the peer speaks.   *)
FromAccept(o, h, a) ==
    /\ end[o].step \in Unheard =>
          \E k \in 0 .. 2 : Said(Other(o), k) /\ inbox[o] = Script(h, a, k)
    /\ end[o].step \in Heard =>
          \E k \in 1 .. 2 : Said(Other(o), k) /\ inbox[o] = Rest(a, k)
Silence(o) ==
    \/ end[Other(o)].step = "idle"
    \/ ~Begun(Other(o), "accept") /\ ~Begun(o, "accept")
InOrder(o) ==
    /\ Begun(Other(o), "accept") => FromAccept(o, Hello(PeerKey(o)), HelloAck(TRUE))
    /\ Silence(o) => inbox[o] = << >> /\ end[o].step \in Unheard \cup {"failed"}

RoleSteps ==
    \A e \in Ends : end[e].step # "idle" =>
        \/ end[e].role = "accept" /\ end[e].step # "sendNack"
        \/ end[e].role = "register" /\ end[e].step \notin {"sendHello", "receiveAck"}

(* Only who has reason to rejects.                                         *)
Excused(n) ==
    \/ \E m \in Nodes : ~Compatible(n, m)
    \/ \E e \in Ends : Owner(e) = n /\ Begun(e, "accept") /\ Begun(Other(e), "register")
RejectsExcused ==
    /\ \A e \in Ends : end[e].step = "sendNack" => ~Compatible(Owner(e), PeerKey(e))
    /\ rejects \in [Nodes -> Nat]
    /\ \A n \in Nodes : rejects[n] > 0 => Excused(n)

OrderInv == (\A o \in Ends : InOrder(o)) /\ RoleSteps /\ RejectsExcused

LEMMA Scripts ==
    ASSUME NEW h, NEW a
    PROVE  /\ Script(h, a, 0) = << >> /\ Rest(a, 1) = << >>
           /\ Append(Script(h, a, 0), h) = Script(h, a, 1)
           /\ Append(Script(h, a, 1), a) = Script(h, a, 2)
           /\ Append(Rest(a, 1), a) = Rest(a, 2)
           /\ \A k \in 1 .. 2 : /\ Script(h, a, k) # << >> /\ Head(Script(h, a, k)) = h
                                /\ Tail(Script(h, a, k)) = Rest(a, k)
           /\ \A k \in 1 .. 2 : Rest(a, k) # << >> => Head(Rest(a, k)) = a
<1>1. /\ Append(<< >>, h) = <<h>> /\ Append(<<h>>, a) = <<h, a>> /\ Append(<< >>, a) = <<a>>
  <2>1. /\ << >> \in Seq({h, a}) /\ <<h>> \in Seq({h, a}) /\ h \in {h, a} /\ a \in {h, a}
    OBVIOUS
  <2>2. Append(<< >>, h) = <<h>> /\ Append(<< >>, a) = <<a>>
    BY <2>1, AppendIsConcat, ConcatEmptySeq
  <2>3. Append(<<h>>, a) = <<h>> \o <<a>>
    BY <2>1, AppendIsConcat
  <2>4. <<h>> \o <<a>> = <<h, a>>
    <3>1. /\ <<a>> \in Seq({h, a}) /\ <<h, a>> \in Seq({h, a})
          /\ Len(<<h>>) = 1 /\ Len(<<a>>) = 1 /\ Len(<<h, a>>) = 2
          /\ <<h>>[1] = h /\ <<a>>[1] = a /\ <<h, a>>[1] = h /\ <<h, a>>[2] = a
      OBVIOUS
    <3> DEFINE c == <<h>> \o <<a>>
    <3>2. /\ c \in Seq({h, a}) /\ Len(c) = 2
          /\ \A i \in 1 .. 2 : c[i] = IF i <= 1 THEN <<h>>[i] ELSE <<a>>[i - 1]
      BY <2>1, <3>1, ConcatProperties
    <3> HIDE DEF c
    <3>3. \A i \in 1 .. 2 : i = 1 \/ i = 2
      OBVIOUS
    <3>4. c[1] = h /\ c[2] = a
      BY <3>1, <3>2
    <3>5. \A i \in 1 .. Len(c) : c[i] = <<h, a>>[i]
      BY <3>1, <3>2, <3>3, <3>4
    <3>6. c = <<h, a>>
      BY <3>1, <3>2, <3>5, SeqEqual
    <3> QED
      BY <3>6 DEF c
  <2> QED
    BY <2>2, <2>3, <2>4
<1>2. /\ Tail(<<h>>) = << >> /\ Tail(<<h, a>>) = <<a>>
      /\ <<h>> # << >> /\ <<h, a>> # << >>
  OBVIOUS
<1>3. Head(<<h>>) = h /\ Head(<<h, a>>) = h /\ Head(<<a>>) = a
  OBVIOUS
<1>4. \A k \in 1 .. 2 : k = 1 \/ k = 2
  OBVIOUS
<1> QED
  BY <1>1, <1>2, <1>3, <1>4 DEF Script, Rest

LEMMA OtherTwice ==
    ASSUME NEW e \in Ends
    PROVE  Other(Other(e)) = e /\ Other(e) \in Ends /\ Other(e) # e
<1>1. PeerKey(Other(e)) = Owner(e) /\ Other(e) \in Ends /\ Other(e) # e
  BY OtherOfOther
<1>2. Link(Other(e)) = Link(e) /\ e = <<Link(e), Owner(e)>>
  BY DEF Other, Link, Owner, Ends
<1>3. Other(Other(e)) = <<Link(Other(e)), PeerKey(Other(e))>>
  BY DEF Other
<1> QED
  BY <1>1, <1>2, <1>3

(* The turn of one end: what it hears, says, and does next.                *)
Says(e, m) == inbox'[Other(e)] = Append(inbox[Other(e)], m) /\ inbox'[e] = inbox[e]
Hears(e) == /\ inbox[e] # << >> /\ inbox'[e] = Tail(inbox[e])
            /\ inbox'[Other(e)] = inbox[Other(e)]
Turn(e) ==
    \/ /\ end[e].step = "sendHello" /\ Says(e, Hello(Owner(e)))
       /\ end'[e].step \in {"receiveHello", "failed"}
    \/ /\ end[e].step = "receiveHello" /\ Hears(e)
       /\ end'[e].step \in {"sendAck", "sendNack", "failed"}
       /\ end'[e].step = "sendNack" => end[e].role = "register"
    \/ /\ end[e].step = "sendNack" /\ Says(e, HelloAck(FALSE))
       /\ end'[e].step = "failed"
    \/ /\ end[e].step = "sendAck" /\ Says(e, HelloAck(TRUE))
       /\ end'[e].step \in IF end[e].role = "accept" THEN {"receiveAck", "failed"}
                                                     ELSE {"done", "failed"}
    \/ /\ end[e].step = "receiveAck" /\ Hears(e)
       /\ end'[e].step \in {"done", "failed"}
    \/ /\ end[e].step \in {"receiveHello", "receiveAck"} /\ end'[e].step = "failed"
       /\ inbox'[e] = inbox[e] /\ inbox'[Other(e)] = inbox[Other(e)]

(* Its turn leaves what it hears in order.                                 *)
LEMMA TurnHears ==
    ASSUME NEW e \in Ends, Turn(e), end'[e].role = end[e].role, UNCHANGED context,
           end'[Other(e)] = end[Other(e)], InOrder(e), RoleSteps
    PROVE  InOrder(e)'
<1> DEFINE o == Other(e)
           h == Hello(PeerKey(e))
           a == HelloAck(TRUE)
<1>1. o \in Ends /\ o # e
  BY OtherTwice
<1>2. /\ h' = h /\ a' = a
      /\ (Hello(PeerKey(e)))' = h /\ (HelloAck(TRUE))' = a
  BY DEF Hello, HelloAck, PeerKey, Owner
<1>3. \A k : Said(o, k)' <=> Said(o, k)
  BY DEF Said
<1>4. /\ \A r : Begun(o, r)' <=> Begun(o, r)
      /\ end[e].step # "idle" /\ end'[e].step # "idle"
      /\ \A r : Begun(e, r)' <=> Begun(e, r)
  BY DEF Begun, Turn
<1>5. Silence(e)' <=> Silence(e)
  BY <1>4 DEF Silence, Begun
<1>6. ASSUME Silence(e) PROVE inbox'[e] = << >> /\ end'[e].step \in Unheard \cup {"failed"}
  <2>1. inbox[e] = << >> /\ end[e].step \in Unheard \cup {"failed"}
    BY <1>6 DEF InOrder
  <2> QED
    BY <2>1 DEF Turn, Says, Hears, Unheard
<1>7. ASSUME Begun(o, "accept") PROVE FromAccept(e, h, a)'
  <2>1. FromAccept(e, h, a)
    BY <1>7 DEF InOrder
  <2> HIDE DEF h, a
  <2>2. CASE end[e].step = "sendHello"
    <3>1. inbox'[e] = inbox[e] /\ end'[e].step \in {"receiveHello", "failed"}
      BY <2>2 DEF Turn, Says
    <3> QED
      BY <2>1, <2>2, <3>1, <1>2, <1>3 DEF FromAccept, Unheard, Heard
  <2>3. CASE end[e].step = "receiveHello" /\ Hears(e)
    <3>1. PICK k \in 0 .. 2 : Said(o, k) /\ inbox[e] = Script(h, a, k)
      BY <2>1, <2>3 DEF FromAccept, Unheard
    <3>2. k \in 1 .. 2
      BY <2>3, <3>1, Scripts DEF Hears
    <3>3. inbox'[e] = Rest(a, k)
      BY <2>3, <3>1, <3>2, Scripts DEF Hears
    <3>4. end'[e].step \notin Unheard
      BY <2>3 DEF Turn, Unheard
    <3> QED
      BY <1>2, <1>3, <3>1, <3>2, <3>3, <3>4 DEF FromAccept
  <2>4. CASE end'[e].step \in {"done", "failed"}
    BY <2>4 DEF FromAccept, Unheard, Heard
  <2>5. CASE end[e].step = "sendAck"
    <3>1. inbox'[e] = inbox[e] /\ end'[e].step \in {"receiveAck", "done", "failed"}
      BY <2>5 DEF Turn, Says
    <3> QED
      BY <2>1, <2>5, <3>1, <1>2, <1>3 DEF FromAccept, Unheard, Heard
  <2> QED
    BY <2>2, <2>3, <2>4, <2>5 DEF Turn
<1> HIDE DEF h, a
<1>8. Begun(o, "accept") => FromAccept(e, Hello(PeerKey(e)), HelloAck(TRUE))'
  BY <1>2, <1>7 DEF h, a
<1> QED
  BY <1>4, <1>5, <1>6, <1>8 DEF InOrder

(* And what it says goes to the other end in order.                        *)
LEMMA TurnSays ==
    ASSUME NEW e \in Ends, Turn(e), end'[e].role = end[e].role, UNCHANGED context,
           end'[Other(e)] = end[Other(e)], InOrder(e), InOrder(Other(e)), RoleSteps
    PROVE  InOrder(Other(e))'
<1> DEFINE o == Other(e)
           h == Hello(Owner(e))
           a == HelloAck(TRUE)
<1>1. o \in Ends /\ o # e /\ Other(o) = e /\ PeerKey(o) = Owner(e)
  BY OtherTwice, OtherOfOther
<1>2. /\ h' = h /\ a' = a
      /\ (Hello(PeerKey(o)))' = h /\ (HelloAck(TRUE))' = a /\ Hello(PeerKey(o)) = h
  BY <1>1 DEF Hello, HelloAck, PeerKey, Owner
<1>3. /\ \A r : Begun(o, r)' <=> Begun(o, r)
      /\ end[e].step # "idle" /\ end'[e].step # "idle"
      /\ \A r : Begun(e, r)' <=> Begun(e, r)
  BY DEF Begun, Turn
<1>4. Silence(o) <=> ~Begun(e, "accept") /\ ~Begun(o, "accept")
  BY <1>1, <1>3 DEF Silence
<1>5. Silence(o)' <=> ~Begun(e, "accept") /\ ~Begun(o, "accept")
  BY <1>1, <1>3 DEF Silence
<1>6. ASSUME Silence(o) PROVE inbox'[o] = << >> /\ end'[o].step \in Unheard \cup {"failed"}
  <2>1. inbox[o] = << >> /\ end[o].step \in Unheard \cup {"failed"}
    BY <1>6 DEF InOrder
  <2>2. Silence(e)
    BY <1>1, <1>4, <1>6 DEF Silence
  <2>3. inbox[e] = << >> /\ end[e].step \in Unheard \cup {"failed"}
    BY <2>2 DEF InOrder
  <2>4. end[e].step # "sendHello"
    BY <1>3, <1>4, <1>6 DEF RoleSteps, Begun
  <2>5. inbox'[o] = inbox[o]
    BY <2>3, <2>4 DEF Turn, Hears, Unheard
  <2> QED
    BY <2>1, <2>5
<1>7. ASSUME Begun(e, "accept") PROVE FromAccept(o, h, a)'
  <2>1. FromAccept(o, h, a)
    BY <1>1, <1>2, <1>7 DEF InOrder
  <2>2. \A k : Said(e, k) =>
            /\ end[e].step = "sendHello" => k = 0
            /\ end[e].step \in {"receiveHello", "sendAck"} => k = 1
            /\ end[e].step \in {"receiveAck", "done"} => k = 2
    BY DEF Said
  <2>3. end[e].step # "sendNack" /\ end[e].role = "accept"
    BY <1>7 DEF Begun, RoleSteps
  <2>4. end'[o].step = end[o].step
    OBVIOUS
  <2> HIDE DEF h, a, o
  <2>5. CASE end[e].step = "sendHello" /\ Says(e, Hello(Owner(e)))
    <3>1. inbox'[o] = Append(inbox[o], h) /\ Said(e, 1)'
      BY <2>5 DEF Turn, Says, Said, h, o
    <3>2. end[o].step \in Unheard => inbox'[o] = Script(h, a, 1)
      BY <1>1, <2>1, <2>2, <2>5, <3>1, Scripts DEF FromAccept
    <3>3. end[o].step \notin Heard
      <4>1. \A k \in 1 .. 2 : ~Said(e, k)
        BY <2>2, <2>5
      <4> QED
        BY <1>1, <2>1, <4>1 DEF FromAccept
    <3> QED
      BY <1>1, <1>2, <2>4, <3>1, <3>2, <3>3 DEF FromAccept
  <2>6. CASE end[e].step = "sendAck" /\ Says(e, HelloAck(TRUE))
    <3>1. inbox'[o] = Append(inbox[o], a) /\ Said(e, 2)'
      BY <2>3, <2>6 DEF Turn, Says, Said, a, o
    <3>2. end[o].step \in Unheard => inbox'[o] = Script(h, a, 2)
      BY <1>1, <2>1, <2>2, <2>6, <3>1, Scripts DEF FromAccept
    <3>3. end[o].step \in Heard => inbox'[o] = Rest(a, 2)
      BY <1>1, <2>1, <2>2, <2>6, <3>1, Scripts DEF FromAccept
    <3> QED
      BY <1>1, <1>2, <2>4, <3>1, <3>2, <3>3 DEF FromAccept
  <2>7. CASE end[e].step \in {"receiveHello", "receiveAck"} /\ inbox'[o] = inbox[o]
    <3>1. \A k : Said(e, k) => Said(e, k)'
      BY <2>2, <2>3, <2>7 DEF Turn, Said
    <3> QED
      BY <1>1, <1>2, <2>1, <2>4, <2>7, <3>1 DEF FromAccept
  <2> QED
    BY <2>3, <2>5, <2>6, <2>7 DEF Turn, Hears, o
<1> HIDE DEF h, a
<1>8. Begun(e, "accept") => FromAccept(o, Hello(PeerKey(o)), HelloAck(TRUE))'
  BY <1>2, <1>7 DEF h, a
<1> QED
  BY <1>1, <1>3, <1>4, <1>5, <1>6, <1>8 DEF InOrder

(* The order of an end depends on its inbox and on where both ends are.    *)
LEMMA OrderStays ==
    ASSUME NEW o \in Ends, InOrder(o), UNCHANGED context, inbox'[o] = inbox[o],
           end'[o].step = end[o].step, end'[o].role = end[o].role,
           end'[Other(o)].step = end[Other(o)].step, end'[Other(o)].role = end[Other(o)].role
    PROVE  InOrder(o)'
<1> DEFINE h == Hello(PeerKey(o))
           a == HelloAck(TRUE)
<1>1. (Hello(PeerKey(o)))' = h /\ (HelloAck(TRUE))' = a /\ h' = h /\ a' = a
  BY DEF Hello, HelloAck, PeerKey, Owner
<1>2. /\ \A k : Said(Other(o), k)' <=> Said(Other(o), k)
      /\ \A r : Begun(Other(o), r)' <=> Begun(Other(o), r)
      /\ Silence(o)' <=> Silence(o)
  BY DEF Said, Begun, Silence
<1> HIDE DEF h, a
<1>3. FromAccept(o, h, a) => FromAccept(o, h, a)'
  BY <1>1, <1>2 DEF FromAccept
<1>4. Begun(Other(o), "accept") => FromAccept(o, Hello(PeerKey(o)), HelloAck(TRUE))'
  BY <1>1, <1>3 DEF InOrder, h, a
<1>5. Silence(o) => inbox'[o] = << >> /\ end'[o].step \in Unheard \cup {"failed"}
  BY DEF InOrder
<1> QED
  BY <1>2, <1>4, <1>5 DEF InOrder

(* Where a call leads one end.                                             *)
Goes(e, steps) ==
    /\ end'[e].step \in steps /\ end'[e].role = end[e].role
    /\ \A f \in Ends \ {e} : end'[f] = end[f]

LEMMA GiveUpGoes ==
    ASSUME SlotInv, NEW e \in Ends, NEW s, GiveUp(e, s)
    PROVE  Goes(e, {"failed"})
BY DEF GiveUp, SlotInv, TypeOK, Goes

LEMMA AwaitGoes ==
    ASSUME SlotInv, NEW e \in Ends, NEW s, NEW step, Await(e, s, step)
    PROVE  Goes(e, {step, "failed"})
<1>1. CASE Link(e) \in closed
  BY <1>1, GiveUpGoes DEF Await, Goes
<1>2. CASE Link(e) \notin closed
  BY <1>2 DEF Await, SlotInv, TypeOK, Goes
<1> QED
  BY <1>1, <1>2

LEMMA EstablishGoes ==
    ASSUME SlotInv, NEW e \in Ends, Establish(e)
    PROVE  Goes(e, {"done"})
BY DEF Establish, SlotInv, TypeOK, Goes

LEMMA SentSays ==
    ASSUME NetworkInv, NEW e \in Ends, NEW m, Sent(e, m)
    PROVE  Says(e, m) /\ \A f \in Ends \ {e, Other(e)} : inbox'[f] = inbox[f]
<1>1. DOMAIN inbox = Ends
  BY DEF NetworkInv
<1>2. Other(e) \in Ends /\ Other(e) # e
  BY OtherOfOther
<1> QED
  BY <1>1, <1>2 DEF Sent, Says

LEMMA TakenHears ==
    ASSUME NetworkInv, NEW e \in Ends, inbox[e] # << >>, Taken(e)
    PROVE  Hears(e) /\ \A f \in Ends \ {e, Other(e)} : inbox'[f] = inbox[f]
<1>1. DOMAIN inbox = Ends
  BY DEF NetworkInv
<1>2. Other(e) \in Ends /\ Other(e) # e
  BY OtherOfOther
<1> QED
  BY <1>1, <1>2 DEF Taken, Hears

(* Every step of a handshake is a turn of its end.                         *)
LEMMA ProceedTurns ==
    ASSUME NetworkInv, NEW e \in Ends, Proceed(e)
    PROVE  /\ Turn(e) /\ end'[e].role = end[e].role /\ UNCHANGED context
           /\ \A f \in Ends \ {e} : end'[f] = end[f]
           /\ \A f \in Ends \ {e, Other(e)} : inbox'[f] = inbox[f]
<1> DEFINE Quiet == \A f \in Ends \ {e, Other(e)} : inbox'[f] = inbox[f]
<1>1. SlotInv /\ Other(e) \in Ends /\ Other(e) # e
  BY OtherOfOther DEF NetworkInv
<1>2. CASE SendHello(e)
  <2>1. Says(e, Hello(Owner(e))) /\ Quiet
    BY <1>2, SentSays DEF SendHello
  <2>2. Goes(e, {"receiveHello", "failed"})
    BY <1>1, <1>2, AwaitGoes DEF SendHello
  <2> QED
    BY <1>2, <2>1, <2>2 DEF SendHello, Goes, Turn
<1>3. CASE ReceiveHello(e)
  <2>1. Hears(e) /\ Quiet
    BY <1>3, TakenHears DEF ReceiveHello
  <2>2. ASSUME HelloAccepted(e) PROVE Goes(e, {"sendAck", "failed"})
    <3>1. PICK t : Await(e, t, "sendAck")
      BY <2>2 DEF HelloAccepted
    <3> QED
      BY <1>1, <3>1, AwaitGoes
  <2>3. ASSUME HelloRejected(e)
        PROVE  \/ Goes(e, {"sendNack", "failed"}) /\ end[e].role = "register"
               \/ Goes(e, {"failed"})
    BY <1>1, <2>3, AwaitGoes, GiveUpGoes DEF HelloRejected
  <2>4. ASSUME HandledAfterRemoval(e) PROVE Goes(e, {"failed"})
    BY <1>1, <2>4, GiveUpGoes DEF HandledAfterRemoval
  <2>5. /\ Goes(e, {"sendAck", "sendNack", "failed"})
        /\ end'[e].step = "sendNack" => end[e].role = "register"
    BY <1>3, <2>2, <2>3, <2>4 DEF ReceiveHello, Goes
  <2> QED
    BY <1>3, <2>1, <2>5 DEF ReceiveHello, Goes, Turn
<1>4. CASE SendNack(e)
  <2>1. Says(e, HelloAck(FALSE)) /\ Quiet
    BY <1>4, SentSays DEF SendNack
  <2>2. Goes(e, {"failed"})
    BY <1>1, <1>4, GiveUpGoes DEF SendNack
  <2> QED
    BY <1>4, <2>1, <2>2 DEF SendNack, Goes, Turn
<1>5. CASE SendAck(e)
  <2>1. Says(e, HelloAck(TRUE)) /\ Quiet
    BY <1>5, SentSays DEF SendAck
  <2>2. \/ end[e].role = "accept" /\ Goes(e, {"receiveAck", "failed"})
        \/ end[e].role = "register" /\ Goes(e, {"done"})
        \/ end[e].role = "register" /\ Goes(e, {"failed"})
    BY <1>1, <1>5, AwaitGoes, EstablishGoes, GiveUpGoes DEF SendAck
  <2> QED
    BY <1>5, <2>1, <2>2 DEF SendAck, Goes, Turn
<1>6. CASE ReceiveAck(e)
  <2>1. Hears(e) /\ Quiet
    BY <1>6, TakenHears DEF ReceiveAck
  <2>2. Goes(e, {"done"}) \/ Goes(e, {"failed"})
    BY <1>1, <1>6, EstablishGoes, GiveUpGoes DEF ReceiveAck, HandledAfterRemoval
  <2> QED
    BY <1>6, <2>1, <2>2 DEF ReceiveAck, Goes, Turn
<1>7. CASE Timeout(e)
  <2>1. Goes(e, {"failed"})
    BY <1>1, <1>7, GiveUpGoes DEF Timeout
  <2> QED
    BY <1>1, <1>7, <2>1 DEF Timeout, Goes, Turn, Receiving
<1> QED
  BY <1>2, <1>3, <1>4, <1>5, <1>6, <1>7 DEF Proceed

(* A turn leaves all messages in order.                                    *)
LEMMA TurnOrders ==
    ASSUME NEW e \in Ends, Turn(e), end'[e].role = end[e].role, UNCHANGED context,
           \A f \in Ends \ {e} : end'[f] = end[f],
           \A f \in Ends \ {e, Other(e)} : inbox'[f] = inbox[f],
           \A o \in Ends : InOrder(o), RoleSteps
    PROVE  (\A o \in Ends : InOrder(o))'
<1>1. Other(e) \in Ends /\ Other(e) # e
  BY OtherTwice
<1>2. ASSUME NEW o \in Ends PROVE InOrder(o)'
  <2>1. CASE o = e
    BY <1>1, <2>1, TurnHears
  <2>2. CASE o = Other(e)
    BY <1>1, <2>2, TurnSays
  <2>3. CASE o \notin {e, Other(e)}
    <3>1. Other(o) \in Ends /\ Other(o) # e
      BY <2>3, OtherTwice
    <3> QED
      BY <2>3, <3>1, OrderStays
  <2> QED
    BY <2>1, <2>2, <2>3
<1>3. \A o \in Ends : InOrder(o)'
  BY <1>2
<1> QED
  BY <1>3 DEF Ends

LEMMA TurnRoles ==
    ASSUME NEW e \in Ends, Turn(e), end'[e].role = end[e].role,
           \A f \in Ends \ {e} : end'[f] = end[f], RoleSteps
    PROVE  RoleSteps'
<1> SUFFICES ASSUME NEW f \in Ends, end'[f].step # "idle"
             PROVE  \/ end'[f].role = "accept" /\ end'[f].step # "sendNack"
                    \/ /\ end'[f].role = "register"
                       /\ end'[f].step \notin {"sendHello", "receiveAck"}
  BY DEF RoleSteps, Ends
<1>1. CASE f # e
  BY <1>1 DEF RoleSteps
<1>2. CASE f = e
  <2>1. end[e].step # "idle"
    BY DEF Turn
  <2>2. \/ end[e].role = "accept" /\ end[e].step # "sendNack"
        \/ end[e].role = "register" /\ end[e].step \notin {"sendHello", "receiveAck"}
    BY <2>1 DEF RoleSteps
  <2> QED
    BY <1>2, <2>2 DEF Turn
<1> QED
  BY <1>1, <1>2

(* Who begins has heard nothing and said nothing.                          *)
LEMMA StartGoes ==
    ASSUME SlotInv, NEW e \in Ends, NEW role \in {"accept", "register"}, NEW i \in Ids,
           Start(e, role, i)
    PROVE  /\ end[e].step = "idle" /\ end'[e].role = role
           /\ end'[e].step \in IF role = "accept" THEN {"sendHello", "failed"}
                                                  ELSE {"receiveHello", "failed"}
           /\ \A f \in Ends \ {e} : end'[f] = end[f]
           /\ UNCHANGED <<context, inbox, rejects>>
<1>1. end[e].step = "idle" /\ UNCHANGED <<context, inbox, rejects>>
  BY DEF Start
<1>2. PICK new : /\ end' = [end EXCEPT ![e] = new] /\ new.role = role
                 /\ new.step \in IF role = "accept" THEN {"sendHello", "failed"}
                                                    ELSE {"receiveHello", "failed"}
  <2> DEFINE begun(step, s) == [role |-> role, id |-> i, step |-> step, session |-> s]
  <2>1. PICK step, s :
            /\ end' = [end EXCEPT ![e] = begun(step, s)]
            /\ step \in IF role = "accept" THEN {"sendHello", "failed"}
                                            ELSE {"receiveHello", "failed"}
    <3>1. CASE role = "accept" /\ Link(e) \in closed
      <4>1. end' = [end EXCEPT ![e] = begun("failed", "CLOSED")]
        BY <3>1 DEF Start
      <4> QED
        BY <3>1, <4>1
    <3>2. CASE role = "accept" /\ Link(e) \notin closed
      <4>1. end' = [end EXCEPT ![e] = begun("sendHello", "SEND_HELLO")]
        BY <3>2 DEF Start
      <4> QED
        BY <3>2, <4>1
    <3>3. CASE role = "register" /\ Link(e) \in closed
      <4>1. end' = [end EXCEPT ![e] = begun("failed", "NEW")]
        BY <3>3 DEF Start
      <4> QED
        BY <3>3, <4>1
    <3>4. CASE role = "register" /\ Link(e) \notin closed
      <4>1. end' = [end EXCEPT ![e] = begun("receiveHello", "NEW")]
        BY <3>4 DEF Start
      <4> QED
        BY <3>4, <4>1
    <3> QED
      BY <3>1, <3>2, <3>3, <3>4
  <2>2. begun(step, s).role = role /\ begun(step, s).step = step
    OBVIOUS
  <2> HIDE DEF begun
  <2> QED
    BY <2>1, <2>2
<1> QED
  BY <1>1, <1>2 DEF SlotInv, TypeOK

LEMMA StartOrders ==
    ASSUME SlotInv, NEW e \in Ends, NEW role \in {"accept", "register"}, NEW i \in Ids,
           Start(e, role, i), \A o \in Ends : InOrder(o), RoleSteps
    PROVE  (\A o \in Ends : InOrder(o))' /\ RoleSteps'
<1>1. /\ end[e].step = "idle" /\ end'[e].role = role
      /\ end'[e].step \in IF role = "accept" THEN {"sendHello", "failed"}
                                             ELSE {"receiveHello", "failed"}
      /\ \A f \in Ends \ {e} : end'[f] = end[f]
      /\ UNCHANGED <<context, inbox, rejects>>
  BY StartGoes
<1> DEFINE o == Other(e)
<1>2. o \in Ends /\ o # e /\ Other(o) = e
  BY OtherTwice
<1>3. end'[o] = end[o] /\ inbox'[o] = inbox[o] /\ inbox'[e] = inbox[e]
  BY <1>1, <1>2
<1>4. InOrder(e)'
  <2> DEFINE h == Hello(PeerKey(e))
             a == HelloAck(TRUE)
  <2>1. (Hello(PeerKey(e)))' = h /\ (HelloAck(TRUE))' = a /\ h' = h /\ a' = a
    BY <1>1 DEF Hello, HelloAck, PeerKey, Owner
  <2>2. /\ \A k : Said(o, k)' <=> Said(o, k)
        /\ \A r : Begun(o, r)' <=> Begun(o, r)
    BY <1>3 DEF Said, Begun
  <2>3. end[e].step \in Unheard /\ end'[e].step \in Unheard \cup {"failed"} /\ InOrder(e)
    BY <1>1 DEF Unheard
  <2>4. end'[e].step \notin Heard
    BY <1>1 DEF Heard
  <2> HIDE DEF h, a
  <2>5. FromAccept(e, h, a) => FromAccept(e, h, a)'
    BY <1>3, <2>1, <2>2, <2>3, <2>4 DEF FromAccept
  <2>6. Begun(o, "accept")' => FromAccept(e, Hello(PeerKey(e)), HelloAck(TRUE))'
    BY <2>1, <2>2, <2>3, <2>5 DEF InOrder, h, a
  <2>7. Silence(e)' => Silence(e)
    BY <1>1, <1>3, <2>2 DEF Silence, Begun
  <2>8. Silence(e)' => inbox'[e] = << >>
    BY <1>3, <2>3, <2>7 DEF InOrder
  <2> QED
    BY <2>3, <2>6, <2>8 DEF InOrder
<1>5. InOrder(o)'
  <2> DEFINE h == Hello(PeerKey(o))
             a == HelloAck(TRUE)
  <2>1. (Hello(PeerKey(o)))' = h /\ (HelloAck(TRUE))' = a /\ h' = h /\ a' = a
    BY <1>1 DEF Hello, HelloAck, PeerKey, Owner
  <2>2. inbox[o] = << >> /\ end[o].step \in Unheard \cup {"failed"}
    BY <1>1, <1>2 DEF InOrder, Silence
  <2>3. inbox'[o] = << >> /\ end'[o].step \in Unheard \cup {"failed"}
    BY <1>3, <2>2
  <2>4. ASSUME Begun(e, "accept")' PROVE Said(e, 0)'
    BY <1>1, <2>4 DEF Begun, Said
  <2> HIDE DEF h, a
  <2>5. ASSUME Begun(e, "accept")' PROVE FromAccept(o, h, a)'
    <3>1. Said(Other(o), 0)' /\ Script(h, a, 0) = << >> /\ 0 \in 0 .. 2
      BY <1>2, <2>4, <2>5, Scripts
    <3>2. end'[o].step \notin Heard
      BY <2>3 DEF Unheard, Heard
    <3> QED
      BY <2>1, <2>3, <3>1, <3>2 DEF FromAccept
  <2>6. Begun(e, "accept")' => FromAccept(o, Hello(PeerKey(o)), HelloAck(TRUE))'
    BY <2>1, <2>5 DEF h, a
  <2> QED
    BY <1>2, <2>3, <2>6 DEF InOrder
<1>6. ASSUME NEW f \in Ends, f \notin {e, o} PROVE InOrder(f)'
  <2>1. Other(f) \in Ends /\ Other(f) # e
    BY <1>6, OtherTwice
  <2> QED
    BY <1>1, <1>6, <2>1, OrderStays
<1>7. \A f \in Ends : InOrder(f)'
  BY <1>4, <1>5, <1>6
<1>8. (\A f \in Ends : InOrder(f))'
  BY <1>7 DEF Ends
<1>9. ASSUME NEW f \in Ends, end'[f].step # "idle"
      PROVE  \/ end'[f].role = "accept" /\ end'[f].step # "sendNack"
             \/ end'[f].role = "register" /\ end'[f].step \notin {"sendHello", "receiveAck"}
  BY <1>1, <1>9 DEF RoleSteps
<1> QED
  BY <1>8, <1>9 DEF RoleSteps, Ends

(* A HELLO that is refused came from another network, or was an ack: the   *)
(* answer of a register_inbound to an accept that waits for a HELLO.       *)
LEMMA RefusedHello ==
    ASSUME NetworkInv, RoleSteps, NEW e \in Ends, InOrder(e),
           end[e].step = "receiveHello", inbox[e] # << >>, ~Valid(e, Head(inbox[e]))
    PROVE  \/ ~Compatible(Owner(e), PeerKey(e))
           \/ Begun(e, "accept") /\ Begun(Other(e), "register")
<1>1. ~Silence(e)
  BY DEF InOrder
<1>2. CASE Begun(Other(e), "accept")
  <2> DEFINE h == Hello(PeerKey(e))
             a == HelloAck(TRUE)
  <2>1. PICK k \in 0 .. 2 : inbox[e] = Script(h, a, k)
    BY <1>2 DEF InOrder, FromAccept, Unheard
  <2>2. h.type = "HELLO" /\ h.from = context[PeerKey(e)]
    BY DEF Hello
  <2> HIDE DEF h, a
  <2>3. Script(h, a, 0) = << >>
    BY Scripts
  <2>4. k \in 1 .. 2
    BY <2>1, <2>3
  <2>5. Head(Script(h, a, k)) = h
    BY <2>4, Scripts
  <2> QED
    BY <2>1, <2>2, <2>5 DEF Valid, Compatible
<1>3. CASE ~Begun(Other(e), "accept")
  <2>1. Other(e) \in Ends
    BY OtherTwice
  <2>2. end[Other(e)].step # "idle" /\ Begun(e, "accept")
    BY <1>1, <1>3 DEF Silence
  <2> QED
    BY <1>3, <2>1, <2>2 DEF Begun, RoleSteps
<1> QED
  BY <1>2, <1>3

(* A negative ack comes from a register_inbound.                           *)
LEMMA RefusedAck ==
    ASSUME RoleSteps, NEW e \in Ends, InOrder(e), end[e].step = "receiveAck", inbox[e] # << >>,
           ~(Head(inbox[e]).type = "HELLO_ACK" /\ Head(inbox[e]).ok)
    PROVE  Begun(e, "accept") /\ Begun(Other(e), "register")
<1>1. Begun(e, "accept")
  BY DEF RoleSteps, Begun
<1>2. ~Silence(e)
  BY DEF InOrder, Unheard
<1>3. CASE Begun(Other(e), "accept")
  <2> DEFINE a == HelloAck(TRUE)
  <2>1. PICK k \in 1 .. 2 : inbox[e] = Rest(a, k)
    BY <1>3 DEF InOrder, FromAccept, Heard
  <2>2. a.type = "HELLO_ACK" /\ a.ok
    BY DEF HelloAck
  <2> HIDE DEF a
  <2>3. Rest(a, k) # << >> => Head(Rest(a, k)) = a
    BY Scripts
  <2> QED
    BY <2>1, <2>2, <2>3
<1>4. CASE ~Begun(Other(e), "accept")
  <2>1. Other(e) \in Ends /\ end[Other(e)].step # "idle"
    BY <1>2, OtherTwice DEF Silence
  <2> QED
    BY <1>1, <1>4, <2>1 DEF Begun, RoleSteps
<1> QED
  BY <1>3, <1>4

(* Handshakes keep their roles, and managers their networks.               *)
LEMMA ExcuseStays ==
    ASSUME NEW n, Excused(n), UNCHANGED context,
           \A e \in Ends : end[e].step # "idle" =>
               end'[e].step # "idle" /\ end'[e].role = end[e].role
    PROVE  Excused(n)'
<1>1. CASE \E m \in Nodes : ~Compatible(n, m)
  BY <1>1 DEF Excused, Compatible
<1>2. CASE \E e \in Ends : Owner(e) = n /\ Begun(e, "accept") /\ Begun(Other(e), "register")
  <2>1. PICK e \in Ends : Owner(e) = n /\ Begun(e, "accept") /\ Begun(Other(e), "register")
    BY <1>2
  <2>2. Other(e) \in Ends
    BY OtherTwice
  <2>3. Begun(e, "accept")' /\ Begun(Other(e), "register")'
    BY <2>1, <2>2 DEF Begun
  <2>4. (Owner(e) = n)' /\ e \in Ends'
    BY <2>1 DEF Owner, Ends
  <2> QED
    BY <2>3, <2>4 DEF Excused
<1> QED
  BY <1>1, <1>2 DEF Excused

(* Who counts a rejection has an excuse for it.                            *)
LEMMA ProceedExcused ==
    ASSUME NetworkInv, OrderInv, NEW e \in Ends, Proceed(e)
    PROVE  RejectsExcused'
<1>1. /\ Turn(e) /\ end'[e].role = end[e].role /\ UNCHANGED context
      /\ \A f \in Ends \ {e} : end'[f] = end[f]
  BY ProceedTurns
<1>2. \A f \in Ends : end[f].step # "idle" =>
          end'[f].step # "idle" /\ end'[f].role = end[f].role
  <2>1. end'[e].step # "idle"
    BY <1>1 DEF Turn
  <2> QED
    BY <1>1, <2>1
<1>3. \A n \in Nodes : Excused(n) => Excused(n)'
  BY <1>1, <1>2, ExcuseStays
<1>4. InOrder(e) /\ RoleSteps /\ RejectsExcused /\ SlotInv
  BY DEF OrderInv, NetworkInv
<1>5. Owner(e) \in Nodes /\ PeerKey(e) \in Nodes
  <2>1. Other(e) \in Ends
    BY OtherTwice
  <2> QED
    BY <2>1 DEF Other, Ends, Owner
<1>6. ~Compatible(Owner(e), PeerKey(e)) => Excused(Owner(e))
  BY <1>5 DEF Excused
<1>7. Begun(e, "accept") /\ Begun(Other(e), "register") => Excused(Owner(e))
  BY DEF Excused
<1>8. \/ rejects' = rejects
      \/ rejects' = [rejects EXCEPT ![Owner(e)] = @ + 1] /\ Excused(Owner(e))
  <2>1. CASE ReceiveHello(e)
    <3>1. HelloRejected(e) => Excused(Owner(e))
      BY <1>4, <1>6, <1>7, <2>1, RefusedHello DEF HelloRejected, ReceiveHello
    <3> QED
      BY <2>1, <3>1 DEF ReceiveHello, HelloAccepted, HelloRejected, HandledAfterRemoval,
                        RecordReject
  <2>2. CASE SendNack(e)
    <3>1. Excused(Owner(e))
      BY <1>4, <1>6, <2>2 DEF SendNack, RejectsExcused
    <3> QED
      BY <2>2, <3>1 DEF SendNack, RecordReject
  <2>3. CASE ReceiveAck(e)
    <3>1. \/ rejects' = rejects
          \/ /\ RecordReject(e) /\ end[e].step = "receiveAck" /\ inbox[e] # << >>
             /\ ~(Head(inbox[e]).type = "HELLO_ACK" /\ Head(inbox[e]).ok)
      BY <2>3 DEF ReceiveAck, HandledAfterRemoval
    <3> QED
      BY <1>4, <1>7, <3>1, RefusedAck DEF RecordReject
  <2>4. CASE SendHello(e) \/ SendAck(e) \/ Timeout(e)
    BY <2>4 DEF SendHello, SendAck, Timeout
  <2> QED
    BY <2>1, <2>2, <2>3, <2>4 DEF Proceed
<1>9. ASSUME NEW n \in Nodes, rejects'[n] > 0 PROVE Excused(n)'
  <2>1. CASE rejects' = rejects
    BY <1>3, <1>4, <1>9, <2>1 DEF RejectsExcused
  <2>2. CASE rejects' = [rejects EXCEPT ![Owner(e)] = @ + 1] /\ Excused(Owner(e))
    <3>1. n = Owner(e) \/ rejects'[n] = rejects[n]
      BY <1>4, <2>2 DEF RejectsExcused
    <3> QED
      BY <1>3, <1>4, <1>9, <2>2, <3>1 DEF RejectsExcused
  <2> QED
    BY <1>8, <2>1, <2>2
<1>10. rejects' \in [Nodes -> Nat]
  BY <1>4, <1>5, <1>8 DEF RejectsExcused
<1>11. ASSUME NEW f \in Ends, end'[f].step = "sendNack"
       PROVE  ~Compatible(Owner(f), PeerKey(f))
  <2>1. CASE end[f].step = "sendNack"
    BY <1>4, <2>1 DEF RejectsExcused
  <2>2. CASE end[f].step # "sendNack"
    <3>1. f = e
      BY <1>1, <1>11, <2>2
    <3>2. end[e].step = "receiveHello" /\ Hears(e) /\ end[e].role = "register"
      BY <1>1, <1>11, <2>2, <3>1 DEF Turn
    <3>3. ReceiveHello(e)
      BY <3>2 DEF Proceed, SendHello, SendNack, SendAck, ReceiveAck, Timeout, Hears, Receiving
    <3>4. ASSUME HelloAccepted(e) PROVE FALSE
      <4>1. PICK t : Await(e, t, "sendAck")
        BY <3>4 DEF HelloAccepted
      <4>2. Goes(e, {"sendAck", "failed"})
        BY <1>4, <4>1, AwaitGoes
      <4> QED
        BY <1>11, <3>1, <4>2 DEF Goes
    <3>5. ASSUME HandledAfterRemoval(e) PROVE FALSE
      <4>1. Goes(e, {"failed"})
        BY <1>4, <3>5, GiveUpGoes DEF HandledAfterRemoval
      <4> QED
        BY <1>11, <3>1, <4>1 DEF Goes
    <3>6. inbox[e] # << >> /\ ~Valid(e, Head(inbox[e]))
      BY <3>3, <3>4, <3>5 DEF ReceiveHello, HelloRejected
    <3>7. ~Begun(e, "accept")
      BY <3>2 DEF Begun
    <3> QED
      BY <1>4, <3>1, <3>2, <3>6, <3>7, RefusedHello
  <2> QED
    BY <2>1, <2>2
<1>12. \A f \in Ends : end'[f].step = "sendNack" => (~Compatible(Owner(f), PeerKey(f)))'
  BY <1>1, <1>11 DEF Compatible, Owner, PeerKey
<1> QED
  BY <1>9, <1>10, <1>12 DEF RejectsExcused, Ends

LEMMA OrderInit == Init => OrderInv
<1> SUFFICES ASSUME Init PROVE OrderInv
  OBVIOUS
<1>1. \A e \in Ends : end[e].step = "idle" /\ inbox[e] = << >>
  BY DEF Init, Idle
<1>2. ASSUME NEW o \in Ends PROVE InOrder(o)
  <2>1. Other(o) \in Ends
    BY OtherTwice
  <2> QED
    BY <1>1, <2>1 DEF InOrder, Begun, Unheard
<1>3. RoleSteps
  BY <1>1 DEF RoleSteps
<1>4. rejects \in [Nodes -> Nat] /\ \A n \in Nodes : rejects[n] = 0
  BY DEF Init
<1>5. RejectsExcused
  BY <1>1, <1>4 DEF RejectsExcused
<1> QED
  BY <1>2, <1>3, <1>5 DEF OrderInv

LEMMA OrderStep == NetworkInv /\ OrderInv /\ [Next]_vars => OrderInv'
<1> SUFFICES ASSUME NetworkInv, OrderInv, [Next]_vars PROVE OrderInv'
  OBVIOUS
<1>1. (\A o \in Ends : InOrder(o)) /\ RoleSteps /\ RejectsExcused /\ SlotInv
  BY DEF OrderInv, NetworkInv
<1>2. ASSUME NEW e \in Ends, NEW role \in {"accept", "register"}, NEW i \in Ids, Start(e, role, i)
      PROVE  OrderInv'
  <2>1. (\A o \in Ends : InOrder(o))' /\ RoleSteps'
    BY <1>1, <1>2, StartOrders
  <2>2. /\ end[e].step = "idle" /\ end'[e].step # "sendNack"
        /\ \A f \in Ends \ {e} : end'[f] = end[f]
        /\ UNCHANGED <<context, inbox, rejects>>
    BY <1>1, <1>2, StartGoes
  <2>3. \A n \in Nodes : Excused(n) => Excused(n)'
    BY <2>2, ExcuseStays
  <2>4. \A f \in Ends : end'[f].step = "sendNack" => (~Compatible(Owner(f), PeerKey(f)))'
    BY <1>1, <2>2 DEF RejectsExcused, Compatible, Owner, PeerKey
  <2>5. RejectsExcused'
    BY <1>1, <2>2, <2>3, <2>4 DEF RejectsExcused, Ends
  <2> QED
    BY <2>1, <2>5 DEF OrderInv
<1>3. ASSUME NEW e \in Ends, Proceed(e)
      PROVE  OrderInv'
  <2>1. /\ Turn(e) /\ end'[e].role = end[e].role /\ UNCHANGED context
        /\ \A f \in Ends \ {e} : end'[f] = end[f]
        /\ \A f \in Ends \ {e, Other(e)} : inbox'[f] = inbox[f]
    BY <1>3, ProceedTurns
  <2>2. (\A o \in Ends : InOrder(o))' /\ RoleSteps'
    BY <1>1, <2>1, TurnOrders, TurnRoles
  <2>3. RejectsExcused'
    BY <1>3, ProceedExcused
  <2> QED
    BY <2>2, <2>3 DEF OrderInv
<1>4. ASSUME \A f \in Ends : end'[f].step = end[f].step /\ end'[f].role = end[f].role,
             UNCHANGED <<context, inbox, rejects>>
      PROVE  OrderInv'
  <2>1. ASSUME NEW o \in Ends PROVE InOrder(o)'
    <3>1. Other(o) \in Ends
      BY OtherTwice
    <3> QED
      BY <1>1, <1>4, <3>1, OrderStays
  <2>2. (\A o \in Ends : InOrder(o))'
    BY <2>1 DEF Ends
  <2>3. RoleSteps'
    BY <1>1, <1>4 DEF RoleSteps, Ends
  <2>4. \A n \in Nodes : Excused(n) => Excused(n)'
    BY <1>4, ExcuseStays
  <2>5. \A f \in Ends : end'[f].step = "sendNack" => (~Compatible(Owner(f), PeerKey(f)))'
    BY <1>1, <1>4 DEF RejectsExcused, Compatible, Owner, PeerKey
  <2>6. RejectsExcused'
    BY <1>1, <1>4, <2>4, <2>5 DEF RejectsExcused, Ends
  <2> QED
    BY <2>2, <2>3, <2>6 DEF OrderInv
<1>5. ASSUME NEW n \in Nodes, NEW i \in Ids, Remove(n, i)
      PROVE  OrderInv'
  <2>1. UNCHANGED <<context, inbox, rejects>>
    BY <1>5 DEF Remove
  <2>2. \A f \in Ends : end'[f].step = end[f].step /\ end'[f].role = end[f].role
    BY <1>1, <1>5 DEF Remove, SlotInv, TypeOK
  <2> QED
    BY <1>4, <2>1, <2>2
<1>6. CASE UNCHANGED vars
  BY <1>4, <1>6 DEF vars
<1> QED
  BY <1>2, <1>3, <1>5, <1>6 DEF Next

(* Nobody establishes across networks, and a node counts rejections        *)
(* towards a ban only if some peer is of another network or if it called   *)
(* accept where the peer called register_inbound, however sends, receives, *)
(* timeouts and removals of all its handshakes follow one another.         *)
THEOREM RejectsOnlyWithReason == Spec => []OutcomeJustified
<1>1. NetworkInv /\ OrderInv => OutcomeJustified
  BY DEF NetworkInv, OrderInv, RejectsExcused, Excused, Begun, OutcomeJustified
<1> QED
  BY <1>1, NetworkInit, NetworkStep, OrderInit, OrderStep, PTL DEF Spec
=============================================================================
