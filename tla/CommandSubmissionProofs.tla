---------------------- MODULE CommandSubmissionProofs ----------------------
(***************************************************************************)
(* Proofs about the path of a command, for any number of commands and      *)
(* sessions.  Part 1 is about CommandTransport alone: a request is written *)
(* at most once, an Unavailable one never was, a waiting call is owed its  *)
(* own answer.  Part 2 is about CommandSubmission on top of it: a command  *)
(* is carried out at most once, a websocket-only command never uses REST,  *)
(* and a receipt other than UnknownExecution is proof.                     *)
(***************************************************************************)
EXTENDS CommandSubmission, SequenceTheorems, TLAPS

----------------------------------------------------------------------------
(* PART 1: THE TRANSPORT                                                   *)
(*                                                                         *)
(* The channel of a session, as a sequence of requests.                    *)

\* Pushing a request into a channel adds it to the queued ones.
LEMMA MembersAppend ==
    ASSUME NEW q \in Seq(Requests), NEW r \in Requests
    PROVE  /\ Append(q, r) \in Seq(Requests)
           /\ Members(Append(q, r)) = Members(q) \cup {r}
           /\ NoDuplicates(q) /\ r \notin Members(q) => NoDuplicates(Append(q, r))
  <1> DEFINE p == Append(q, r)
  <1>1. /\ p \in Seq(Requests)
        /\ Len(p) = Len(q) + 1
        /\ \A i \in 1 .. Len(q) : p[i] = q[i]
        /\ p[Len(q) + 1] = r
    OBVIOUS
  <1>2. DOMAIN p = 1 .. Len(q) + 1 /\ DOMAIN q = 1 .. Len(q) /\ Len(q) \in Nat
    BY <1>1
  <1> HIDE DEF p
  <1>3. Members(p) = Members(q) \cup {r}
    BY <1>1, <1>2 DEF Members
  <1>4. NoDuplicates(q) /\ r \notin Members(q) => NoDuplicates(p)
    BY <1>1, <1>2 DEF Members, NoDuplicates
  <1> QED BY <1>1, <1>3, <1>4 DEF p

\* Receiving from a channel takes one queued request, the oldest, out of it.
LEMMA MembersTail ==
    ASSUME NEW q \in Seq(Requests), q # << >>
    PROVE  /\ Tail(q) \in Seq(Requests)
           /\ Head(q) \in Requests
           /\ Members(q) = {Head(q)} \cup Members(Tail(q))
           /\ NoDuplicates(q) => NoDuplicates(Tail(q)) /\ Head(q) \notin Members(Tail(q))
  <1> DEFINE p == Tail(q)
             h == Head(q)
  <1>1. /\ p \in Seq(Requests)
        /\ h \in Requests
        /\ Len(q) \in Nat
        /\ Len(q) > 0
        /\ Len(p) = Len(q) - 1
        /\ h = q[1]
        /\ \A i \in 1 .. Len(p) : p[i] = q[i + 1]
    OBVIOUS
  <1>2. DOMAIN p = 1 .. Len(p) /\ DOMAIN q = 1 .. Len(q)
    BY <1>1
  <1> HIDE DEF p, h
  <1>3. Members(q) = {h} \cup Members(p)
    <2>1. ASSUME NEW x \in Members(q) PROVE x \in {h} \cup Members(p)
      <3>1. PICK i \in 1 .. Len(q) : x = q[i]
        BY <1>2 DEF Members
      <3>2. CASE i = 1
        BY <3>1, <3>2, <1>1
      <3>3. CASE i # 1
        <4>1. i - 1 \in 1 .. Len(p) /\ p[i - 1] = q[i]
          BY <1>1, <3>1, <3>3
        <4> QED BY <4>1, <3>1, <1>2 DEF Members
      <3> QED BY <3>2, <3>3
    <2>2. ASSUME NEW x \in {h} \cup Members(p) PROVE x \in Members(q)
      <3>1. CASE x = h
        BY <3>1, <1>1, <1>2 DEF Members
      <3>2. CASE x \in Members(p)
        <4>1. PICK i \in 1 .. Len(p) : x = p[i]
          BY <1>2, <3>2 DEF Members
        <4>2. i + 1 \in 1 .. Len(q) /\ x = q[i + 1]
          BY <4>1, <1>1
        <4> QED BY <4>2, <1>2 DEF Members
      <3> QED BY <3>1, <3>2, <2>2
    <2> QED BY <2>1, <2>2
  <1>4. ASSUME NoDuplicates(q) PROVE NoDuplicates(p) /\ h \notin Members(p)
    <2>1. \A i \in 1 .. Len(p) : i + 1 \in 1 .. Len(q) /\ p[i] = q[i + 1] /\ i + 1 # 1
      BY <1>1
    <2>2. NoDuplicates(p)
      <3> SUFFICES ASSUME NEW i \in 1 .. Len(p), NEW j \in 1 .. Len(p), p[i] = p[j]
                   PROVE  i = j
        BY <1>2 DEF NoDuplicates
      <3>1. i + 1 = j + 1
        BY <2>1, <1>2, <1>4 DEF NoDuplicates
      <3> QED BY <3>1
    <2>3. h \notin Members(p)
      <3> SUFFICES ASSUME NEW i \in 1 .. Len(p), p[i] = h
                   PROVE  FALSE
        BY <1>2 DEF Members
      <3>1. i + 1 = 1
        BY <2>1, <1>1, <1>2, <1>4 DEF NoDuplicates
      <3> QED BY <3>1
    <2> QED BY <2>2, <2>3
  <1> QED BY <1>1, <1>3, <1>4 DEF p, h

\* A drained channel queues nothing.
LEMMA MembersEmpty == Members(<< >>) = {} /\ NoDuplicates(<< >>) /\ << >> \in Seq(Requests)
  BY DEF Members, NoDuplicates

----------------------------------------------------------------------------
(* Type correctness.                                                       *)

USE DEF Sessions, None

\* A counter that is at most one and not one is zero.
LEMMA NotYet == ASSUME NEW n \in Nat, n <= 1, n # 1 PROVE n = 0
  OBVIOUS

\* A reply on a socket names a request and carries a verdict.
LEMMA ReplyType ==
    ASSUME TypeOK, NEW s \in Sessions, NEW reply \in replies[s]
    PROVE  reply.id \in Requests /\ reply.kind \in AllReplyKinds
  <1>1. replies[s] \in SUBSET [id : Requests, kind : AllReplyKinds]
    BY DEF TypeOK
  <1>2. reply \in [id : Requests, kind : AllReplyKinds]
    BY <1>1
  <1> QED BY <1>2

\* The initial state is well typed.
LEMMA TypeInit == TransportInit => TypeOK
  BY TransportAssumption, MembersEmpty
     DEF TransportInit, TypeOK, PCs, Outcomes, SlotValues, AllReplyKinds

\* The steps of a call keep the types.
LEMMA TypeCall ==
    ASSUME TypeOK, NEW r \in Requests,
           RequestText(r) \/ CallStep(r) \/ DropCall(r)
    PROVE  TypeOK'
  <1> USE TransportAssumption DEF TypeOK, PCs, Outcomes, hubVars, taskVars, callVars, venueVars
  <1>1. CASE RequestText(r)
    BY <1>1 DEF RequestText
  <1>2. CASE ReuseSession(r)
    BY <1>2 DEF ReuseSession
  <1>3. CASE StartConnect(r)
    BY <1>3 DEF StartConnect
  <1>4. CASE \E s \in Sessions : ConnectSession(r, s)
    BY <1>4 DEF ConnectSession
  <1>5. CASE ConnectFails(r)
    BY <1>5 DEF ConnectFails
  <1>6. CASE SendRequest(r)
    <2>1. queue' \in [Sessions -> Seq(Requests)]
      BY <1>6, MembersAppend DEF SendRequest
    <2> QED BY <1>6, <2>1 DEF SendRequest
  <1>7. CASE SendFails(r)
    BY <1>7 DEF SendFails
  <1>8. CASE ResponseArrives(r)
    BY <1>8 DEF ResponseArrives
  <1>9. CASE ResponseLost(r)
    BY <1>9 DEF ResponseLost
  <1>10. CASE RequestTimeout(r)
    BY <1>10 DEF RequestTimeout
  <1>11. CASE InvalidateSession(r)
    <2>1. /\ hub' \in Sessions \cup {None}
          /\ held' \in [Requests -> Sessions \cup {None}]
      BY <1>11 DEF InvalidateSession
    <2>2. CASE outcome[r] = "Unavailable" /\ attempt[r] = 0
      <3>1. /\ attempt' = [attempt EXCEPT ![r] = 1]
            /\ outcome' = [outcome EXCEPT ![r] = "none"]
            /\ pc' = [pc EXCEPT ![r] = "session"]
        BY <1>11, <2>2 DEF InvalidateSession
      <3>2. 1 \in 0 .. 1
        OBVIOUS
      <3>3. attempt' \in [Requests -> 0 .. 1]
        BY <3>1, <3>2
      <3>4. outcome' \in [Requests -> Outcomes] /\ pc' \in [Requests -> PCs]
        BY <3>1
      <3> QED BY <1>11, <2>1, <3>3, <3>4 DEF InvalidateSession
    <2>3. CASE ~(outcome[r] = "Unavailable" /\ attempt[r] = 0)
      BY <1>11, <2>1, <2>3 DEF InvalidateSession
    <2> QED BY <2>2, <2>3
  <1>12. CASE DropCall(r)
    BY <1>12 DEF DropCall
  <1> QED BY <1>1, <1>2, <1>3, <1>4, <1>5, <1>6, <1>7, <1>8, <1>9, <1>10, <1>11, <1>12
          DEF CallStep

\* Ending a session task keeps the types of what it touches.
LEMMA TypeEndTask ==
    ASSUME TypeOK, NEW s \in Sessions, NEW failed, CloseSlots(s, failed), EndTask(s)
    PROVE  /\ task' \in [Sessions -> {"unborn", "running", "ended"}]
           /\ queue' \in [Sessions -> Seq(Requests)]
           /\ pending' \in [Sessions -> SUBSET Requests]
           /\ replies' \in [Sessions -> SUBSET [id : Requests, kind : AllReplyKinds]]
           /\ slot' \in [Requests -> SlotValues]
  <1> USE DEF TypeOK
  <1>1. queue' \in [Sessions -> Seq(Requests)]
    BY MembersEmpty DEF EndTask
  <1>2. slot' \in [Requests -> SlotValues]
    BY DEF CloseSlots, SlotValues
  <1> QED BY <1>1, <1>2 DEF EndTask

\* The steps of a session task keep the types.
LEMMA TypeSession ==
    ASSUME TypeOK, NEW s \in Sessions, SessionStep(s)
    PROVE  TypeOK'
  <1> USE TransportAssumption DEF TypeOK, hubVars, taskVars, callVars, venueVars
  <1>1. CASE WriteFrame(s)
    <2>1. queue[s] \in Seq(Requests) /\ queue[s] # << >>
      BY <1>1 DEF WriteFrame
    <2>2. Head(queue[s]) \in Requests /\ Tail(queue[s]) \in Seq(Requests)
      BY <2>1, MembersTail
    <2>3. /\ queue' \in [Sessions -> Seq(Requests)]
          /\ pending' \in [Sessions -> SUBSET Requests]
          /\ wire' \in [Sessions -> SUBSET Requests]
      BY <1>1, <2>2 DEF WriteFrame
    <2>4. written' \in [Requests -> Nat]
      BY <1>1, <2>2 DEF WriteFrame
    <2> QED BY <1>1, <2>3, <2>4 DEF WriteFrame
  <1>2. CASE WriteFails(s)
    <2>1. queue[s] \in Seq(Requests) /\ queue[s] # << >>
      BY <1>2 DEF WriteFails
    <2>2. Head(queue[s]) \in Requests
      BY <2>1, MembersTail
    <2>3. written' \in [Requests -> Nat] /\ wire' \in [Sessions -> SUBSET Requests]
      BY <1>2, <2>2 DEF WriteFails
    <2> QED BY <1>2, <2>3, TypeEndTask DEF WriteFails
  <1>3. CASE \E reply \in replies[s] : ReadReply(s, reply)
    <2>1. PICK reply \in replies[s] : ReadReply(s, reply)
      BY <1>3
    <2>2. reply.id \in Requests /\ reply.kind \in AllReplyKinds
      BY ReplyType
    <2>3. replies' \in [Sessions -> SUBSET [id : Requests, kind : AllReplyKinds]]
      BY <2>1 DEF ReadReply
    <2>4. slot' \in [Requests -> SlotValues]
      BY <2>1, <2>2 DEF ReadReply, SlotValues
    <2> QED BY <2>1, <2>3, <2>4 DEF ReadReply
  <1>4. CASE ReadFails(s)
    BY <1>4, TypeEndTask DEF ReadFails
  <1>5. CASE HeartbeatFails(s)
    BY <1>5, TypeEndTask DEF HeartbeatFails
  <1>6. CASE CloseSession(s)
    BY <1>6, TypeEndTask DEF CloseSession
  <1> QED BY <1>1, <1>2, <1>3, <1>4, <1>5, <1>6 DEF SessionStep

\* The venue keeps the types.
LEMMA TypeVenue ==
    ASSUME TypeOK, VenueStep
    PROVE  TypeOK'
  <1> USE TransportAssumption DEF TypeOK, hubVars, taskVars, callVars, venueVars
  <1>1. PICK s \in Sessions, r \in Requests, kind \in ReplyKinds : VenueHandles(s, r, kind)
    BY DEF VenueStep
  <1>2. executed' \in [Requests -> Nat]
    <2>1. PICK effect \in {0, 1} : executed' = [executed EXCEPT ![r] = @ + effect]
      BY <1>1 DEF VenueHandles
    <2> QED BY <2>1
  <1>3. replies' \in [Sessions -> SUBSET [id : Requests, kind : AllReplyKinds]]
    BY <1>1 DEF VenueHandles
  <1> QED BY <1>1, <1>2, <1>3 DEF VenueHandles

\* Every step keeps the types.
LEMMA TypeStep == TypeOK /\ [TransportNext]_vars => TypeOK'
  <1> SUFFICES ASSUME TypeOK, [TransportNext]_vars PROVE TypeOK'
    OBVIOUS
  <1>1. CASE UNCHANGED vars
    BY <1>1 DEF TypeOK, vars, hubVars, taskVars, callVars, venueVars
  <1>2. CASE TransportNext
    BY <1>2, TypeCall, TypeSession, TypeVenue DEF TransportNext
  <1> QED BY <1>1, <1>2

\* Every variable of the command websocket keeps its type.
THEOREM TransportTypes == TransportSpec => []TypeOK
  BY TypeInit, TypeStep, PTL DEF TransportSpec

----------------------------------------------------------------------------
(* The inductive invariant.                                                *)

\* The inductive invariant holds initially.
LEMMA InvInit == TransportInit => TransportInv
  <1> SUFFICES ASSUME TransportInit PROVE TransportInv
    OBVIOUS
  <1>1. TypeOK
    BY TypeInit
  <1>2. \A s \in Sessions : Members(queue[s]) = {} /\ NoDuplicates(queue[s]) /\ pending[s] = {}
    BY MembersEmpty DEF TransportInit
  <1>3. HeldInv /\ LockInv /\ OutcomeInv
    BY TransportAssumption DEF TransportInit, HeldInv, LockInv, OutcomeInv
  <1>4. TaskInv
    BY <1>2 DEF TransportInit, TaskInv
  <1>5. FreshInv
    BY <1>2 DEF TransportInit, FreshInv, Fresh
  <1>6. WrittenAtMostOnce
    BY <1>2 DEF TransportInit, WrittenAtMostOnce
  <1>7. WaiterIsOwedAnswer
    BY DEF TransportInit, WaiterIsOwedAnswer
  <1> QED BY <1>1, <1>3, <1>4, <1>5, <1>6, <1>7 DEF TransportInv

\* Steps of a call that leave every session, slot and counter alone.
LEMMA InvCall ==
    ASSUME TransportInv, TypeOK', NEW r \in Requests,
           \/ RequestText(r)
           \/ ReuseSession(r)
           \/ StartConnect(r)
           \/ ConnectFails(r)
           \/ SendFails(r)
           \/ ResponseArrives(r)
           \/ ResponseLost(r)
           \/ RequestTimeout(r)
           \/ InvalidateSession(r)
           \/ DropCall(r)
    PROVE  TransportInv'
  <1> USE TransportAssumption DEF TransportInv, TypeOK, hubVars, taskVars, callVars, venueVars
  <1>1. UNCHANGED <<task, queue, pending, slot, written>>
    BY DEF RequestText, ReuseSession, StartConnect, ConnectFails, SendFails,
           ResponseArrives, ResponseLost, RequestTimeout, InvalidateSession, DropCall,
           taskVars, venueVars
  <1>2. TaskInv' /\ WrittenAtMostOnce'
    BY <1>1 DEF TaskInv, WrittenAtMostOnce
  <1>3. \A x \in Requests : Fresh(x) => Fresh(x)'
    BY <1>1 DEF Fresh
  <1>4. \A x \in Requests : x # r => pc'[x] = pc[x] /\ held'[x] = held[x] /\ outcome'[x] = outcome[x]
    <2>1. CASE InvalidateSession(r)
      BY <2>1 DEF InvalidateSession
    <2>2. CASE ~InvalidateSession(r)
      BY <2>2 DEF RequestText, ReuseSession, StartConnect, ConnectFails, SendFails,
             ResponseArrives, ResponseLost, RequestTimeout, DropCall
    <2> QED BY <2>1, <2>2
  <1> DEFINE Own == /\ HeldInv' /\ LockInv' /\ OutcomeInv' /\ FreshInv' /\ WaiterIsOwedAnswer'
  <1>5. ASSUME RequestText(r) PROVE Own
    <2> USE <1>5 DEF RequestText
    <2>1. HeldInv'
      BY <1>1, <1>4 DEF HeldInv
    <2>2. LockInv'
      BY <1>4 DEF LockInv
    <2>3. OutcomeInv'
      BY <1>4 DEF OutcomeInv
    <2>4. FreshInv'
      BY <1>3, <1>4 DEF FreshInv, OutcomeInv, AllReplyKinds
    <2>5. WaiterIsOwedAnswer'
      BY <1>1, <1>4 DEF WaiterIsOwedAnswer
    <2> QED BY <2>1, <2>2, <2>3, <2>4, <2>5
  <1>6. ASSUME ReuseSession(r) PROVE Own
    <2> USE <1>6 DEF ReuseSession
    <2>1. HeldInv'
      BY <1>1, <1>4 DEF HeldInv
    <2>2. LockInv'
      BY <1>4 DEF LockInv
    <2>3. OutcomeInv'
      BY <1>4 DEF OutcomeInv
    <2>4. FreshInv'
      BY <1>3, <1>4 DEF FreshInv, OutcomeInv, AllReplyKinds
    <2>5. WaiterIsOwedAnswer'
      BY <1>1, <1>4 DEF WaiterIsOwedAnswer
    <2> QED BY <2>1, <2>2, <2>3, <2>4, <2>5
  <1>7. ASSUME StartConnect(r) PROVE Own
    <2> USE <1>7 DEF StartConnect
    <2>1. HeldInv'
      BY <1>1, <1>4 DEF HeldInv
    <2>2. LockInv'
      BY <1>4 DEF LockInv
    <2>3. OutcomeInv'
      BY <1>4 DEF OutcomeInv
    <2>4. FreshInv'
      BY <1>3, <1>4 DEF FreshInv, OutcomeInv, AllReplyKinds
    <2>5. WaiterIsOwedAnswer'
      BY <1>1, <1>4 DEF WaiterIsOwedAnswer
    <2> QED BY <2>1, <2>2, <2>3, <2>4, <2>5
  <1>8. ASSUME ConnectFails(r) PROVE Own
    <2> USE <1>8 DEF ConnectFails
    <2>1. HeldInv'
      BY <1>1, <1>4 DEF HeldInv
    <2>2. LockInv'
      BY <1>4 DEF LockInv
    <2>3. OutcomeInv'
      BY <1>4 DEF OutcomeInv
    <2>4. FreshInv'
      BY <1>3, <1>4 DEF FreshInv, OutcomeInv, AllReplyKinds
    <2>5. WaiterIsOwedAnswer'
      BY <1>1, <1>4 DEF WaiterIsOwedAnswer
    <2> QED BY <2>1, <2>2, <2>3, <2>4, <2>5
  <1>9. ASSUME SendFails(r) PROVE Own
    <2> USE <1>9 DEF SendFails
    <2>1. HeldInv'
      BY <1>1, <1>4 DEF HeldInv
    <2>2. LockInv'
      BY <1>4 DEF LockInv
    <2>3. OutcomeInv'
      BY <1>4 DEF OutcomeInv
    <2>4. FreshInv'
      BY <1>3, <1>4 DEF FreshInv, OutcomeInv, AllReplyKinds
    <2>5. WaiterIsOwedAnswer'
      BY <1>1, <1>4 DEF WaiterIsOwedAnswer
    <2> QED BY <2>1, <2>2, <2>3, <2>4, <2>5
  <1>10. ASSUME ResponseArrives(r) PROVE Own
    <2> USE <1>10 DEF ResponseArrives
    <2>1. HeldInv'
      BY <1>1, <1>4 DEF HeldInv
    <2>2. LockInv'
      BY <1>4 DEF LockInv
    <2>3. OutcomeInv'
      BY <1>4 DEF OutcomeInv
    <2>4. FreshInv'
      BY <1>3, <1>4 DEF FreshInv, OutcomeInv, AllReplyKinds
    <2>5. WaiterIsOwedAnswer'
      BY <1>1, <1>4 DEF WaiterIsOwedAnswer
    <2> QED BY <2>1, <2>2, <2>3, <2>4, <2>5
  <1>11. ASSUME ResponseLost(r) PROVE Own
    <2> USE <1>11 DEF ResponseLost
    <2>1. HeldInv'
      BY <1>1, <1>4 DEF HeldInv
    <2>2. LockInv'
      BY <1>4 DEF LockInv
    <2>3. OutcomeInv'
      BY <1>4 DEF OutcomeInv
    <2>4. FreshInv'
      BY <1>3, <1>4 DEF FreshInv, OutcomeInv, AllReplyKinds
    <2>5. WaiterIsOwedAnswer'
      BY <1>1, <1>4 DEF WaiterIsOwedAnswer
    <2> QED BY <2>1, <2>2, <2>3, <2>4, <2>5
  <1>12. ASSUME RequestTimeout(r) PROVE Own
    <2> USE <1>12 DEF RequestTimeout
    <2>1. HeldInv'
      BY <1>1, <1>4 DEF HeldInv
    <2>2. LockInv'
      BY <1>4 DEF LockInv
    <2>3. OutcomeInv'
      BY <1>4 DEF OutcomeInv
    <2>4. FreshInv'
      BY <1>3, <1>4 DEF FreshInv, OutcomeInv, AllReplyKinds
    <2>5. WaiterIsOwedAnswer'
      BY <1>1, <1>4 DEF WaiterIsOwedAnswer
    <2> QED BY <2>1, <2>2, <2>3, <2>4, <2>5
  <1>13. ASSUME InvalidateSession(r) PROVE Own
    <2> USE <1>13 DEF InvalidateSession
    <2>1. HeldInv'
      BY <1>1, <1>4 DEF HeldInv
    <2>2. LockInv'
      BY <1>4 DEF LockInv
    <2>3. OutcomeInv'
      BY <1>4 DEF OutcomeInv
    <2>4. FreshInv'
      BY <1>3, <1>4 DEF FreshInv, OutcomeInv, AllReplyKinds
    <2>5. WaiterIsOwedAnswer'
      BY <1>1, <1>4 DEF WaiterIsOwedAnswer
    <2> QED BY <2>1, <2>2, <2>3, <2>4, <2>5
  <1>14. ASSUME DropCall(r) PROVE Own
    <2> USE <1>14 DEF DropCall
    <2>1. HeldInv'
      BY <1>1, <1>4 DEF HeldInv
    <2>2. LockInv'
      BY <1>4 DEF LockInv
    <2>3. OutcomeInv'
      BY <1>4 DEF OutcomeInv
    <2>4. FreshInv'
      BY <1>3, <1>4 DEF FreshInv, OutcomeInv, AllReplyKinds
    <2>5. WaiterIsOwedAnswer'
      BY <1>1, <1>4 DEF WaiterIsOwedAnswer
    <2> QED BY <2>1, <2>2, <2>3, <2>4, <2>5
  <1>15. Own
    BY <1>5, <1>6, <1>7, <1>8, <1>9, <1>10, <1>11, <1>12, <1>13, <1>14
  <1> QED BY <1>2, <1>15

\* A new session: its task runs, nothing is queued, the connecting call holds it.
LEMMA InvConnect ==
    ASSUME TransportInv, TypeOK', NEW r \in Requests, NEW s \in Sessions, ConnectSession(r, s)
    PROVE  TransportInv'
  <1> USE TransportAssumption DEF TransportInv, TypeOK, hubVars, taskVars, callVars, venueVars,
          ConnectSession
  <1>1. HeldInv'
    BY DEF HeldInv
  <1>2. LockInv'
    BY DEF LockInv
  <1>3. OutcomeInv'
    BY DEF OutcomeInv
  <1>4. TaskInv'
    BY DEF TaskInv
  <1>5. FreshInv'
    <2>1. \A x \in Requests : Fresh(x) => Fresh(x)'
      BY DEF Fresh
    <2> QED BY <2>1 DEF FreshInv
  <1>6. WrittenAtMostOnce'
    BY DEF WrittenAtMostOnce
  <1>7. WaiterIsOwedAnswer'
    BY DEF WaiterIsOwedAnswer, HeldInv
  <1> QED BY <1>1, <1>2, <1>3, <1>4, <1>5, <1>6, <1>7

\* A request enters a channel for the first time.
LEMMA InvSend ==
    ASSUME TransportInv, TypeOK', NEW r \in Requests, SendRequest(r)
    PROVE  TransportInv'
  <1> USE TransportAssumption DEF TransportInv, TypeOK, hubVars, taskVars, callVars, venueVars,
          SendRequest
  <1> DEFINE s == held[r]
  <1>1. s \in Sessions /\ Fresh(r) /\ task[s] = "running"
    BY DEF HeldInv, FreshInv
  <1>2. /\ Members(queue'[s]) = Members(queue[s]) \cup {r}
        /\ NoDuplicates(queue'[s])
    <2>1. queue[s] \in Seq(Requests) /\ queue'[s] = Append(queue[s], r)
      BY <1>1
    <2>2. NoDuplicates(queue[s]) /\ r \notin Members(queue[s])
      BY <1>1 DEF TaskInv, Fresh
    <2> QED BY <2>1, <2>2, MembersAppend
  <1>3. \A t \in Sessions : t # s => queue'[t] = queue[t]
    OBVIOUS
  <1>4. \A t \in Sessions : Members(queue'[t]) \subseteq Members(queue[t]) \cup {r}
    BY <1>2, <1>3
  <1>5. HeldInv'
    BY DEF HeldInv
  <1>6. LockInv'
    BY DEF LockInv
  <1>7. OutcomeInv'
    BY DEF OutcomeInv
  <1>8. TaskInv'
    BY <1>1, <1>2, <1>3 DEF TaskInv
  <1>9. FreshInv'
    <2>1. \A x \in Requests : x # r /\ Fresh(x) => Fresh(x)'
      BY <1>4 DEF Fresh
    <2> QED BY <2>1 DEF FreshInv, OutcomeInv
  <1>10. WrittenAtMostOnce'
    <2> SUFFICES ASSUME NEW x \in Requests
                 PROVE  /\ written[x] <= 1
                        /\ written[x] = 1 => \A t \in Sessions : x \notin Members(queue'[t])
                        /\ \A t, u \in Sessions :
                             x \in Members(queue'[t]) \cap Members(queue'[u]) => t = u
      BY DEF WrittenAtMostOnce
    <2>1. CASE x = r
      BY <1>1, <1>2, <1>3, <2>1 DEF Fresh
    <2>2. CASE x # r
      BY <1>4, <2>2 DEF WrittenAtMostOnce
    <2> QED BY <2>1, <2>2
  <1>11. WaiterIsOwedAnswer'
    <2> SUFFICES ASSUME NEW x \in Requests, pc'[x] = "await", slot[x] = "empty"
                 PROVE  /\ held[x] # None
                        /\ task[held[x]] = "running"
                        /\ x \in pending[held[x]] \cup Members(queue'[held[x]])
      BY DEF WaiterIsOwedAnswer
    <2>1. CASE x = r
      BY <1>1, <1>2, <2>1
    <2>2. CASE x # r
      <3>1. /\ held[x] \in Sessions
            /\ task[held[x]] = "running"
            /\ x \in pending[held[x]] \cup Members(queue[held[x]])
        BY <2>2 DEF WaiterIsOwedAnswer
      <3>2. Members(queue[held[x]]) \subseteq Members(queue'[held[x]])
        BY <1>2, <1>3, <3>1
      <3> QED BY <3>1, <3>2
    <2> QED BY <2>1, <2>2
  <1> QED BY <1>5, <1>6, <1>7, <1>8, <1>9, <1>10, <1>11

\* A frame leaves the channel: its request is written once and waits.
LEMMA InvWrite ==
    ASSUME TransportInv, TypeOK', NEW s \in Sessions, WriteFrame(s)
    PROVE  TransportInv'
  <1> USE TransportAssumption DEF TransportInv, TypeOK, hubVars, taskVars, callVars, venueVars,
          WriteFrame
  <1> DEFINE h == Head(queue[s])
  <1>1. /\ h \in Requests
        /\ Members(queue[s]) = {h} \cup Members(queue'[s])
        /\ NoDuplicates(queue'[s])
        /\ h \notin Members(queue'[s])
    <2>1. queue[s] \in Seq(Requests) /\ queue[s] # << >> /\ queue'[s] = Tail(queue[s])
      OBVIOUS
    <2>2. NoDuplicates(queue[s])
      BY DEF TaskInv
    <2> QED BY <2>1, <2>2, MembersTail
  <1> HIDE DEF h
  <1>2. \A t \in Sessions : t # s => queue'[t] = queue[t] /\ pending'[t] = pending[t]
    OBVIOUS
  <1>3. /\ \A t \in Sessions : Members(queue'[t]) \subseteq Members(queue[t])
        /\ pending'[s] = pending[s] \cup {h}
        /\ \A x \in Requests : x # h => written'[x] = written[x]
        /\ written'[h] = written[h] + 1
    BY <1>1, <1>2 DEF h
  <1>4. written[h] = 0
    <2>1. written[h] \in Nat /\ h \in Members(queue[s])
      BY <1>1
    <2>2. written[h] <= 1 /\ written[h] # 1
      BY <1>1, <2>1 DEF WrittenAtMostOnce
    <2> QED BY <2>1, <2>2, NotYet
  <1>5. HeldInv' /\ LockInv' /\ OutcomeInv'
    BY DEF HeldInv, LockInv, OutcomeInv
  <1>6. TaskInv'
    BY <1>1, <1>2 DEF TaskInv
  <1>7. FreshInv'
    <2>1. \A x \in Requests : Fresh(x) => x # h
      BY <1>1 DEF Fresh
    <2>2. \A x \in Requests : Fresh(x) => Fresh(x)'
      BY <1>2, <1>3, <2>1 DEF Fresh
    <2> QED BY <2>2 DEF FreshInv
  <1>8. WrittenAtMostOnce'
    <2> SUFFICES ASSUME NEW x \in Requests
                 PROVE  /\ written'[x] <= 1
                        /\ written'[x] = 1 => \A t \in Sessions : x \notin Members(queue'[t])
                        /\ \A t, u \in Sessions :
                             x \in Members(queue'[t]) \cap Members(queue'[u]) => t = u
      BY DEF WrittenAtMostOnce
    <2>1. CASE x = h
      <3>1. \A t \in Sessions : h \notin Members(queue'[t])
        BY <1>1, <1>2 DEF WrittenAtMostOnce
      <3> QED BY <1>3, <1>4, <2>1, <3>1
    <2>2. CASE x # h
      BY <1>3, <2>2 DEF WrittenAtMostOnce
    <2> QED BY <2>1, <2>2
  <1>9. WaiterIsOwedAnswer'
    <2> SUFFICES ASSUME NEW x \in Requests, pc[x] = "await", slot[x] = "empty"
                 PROVE  /\ held[x] # None
                        /\ task[held[x]] = "running"
                        /\ x \in pending'[held[x]] \cup Members(queue'[held[x]])
      BY DEF WaiterIsOwedAnswer
    <2>1. /\ held[x] \in Sessions
          /\ task[held[x]] = "running"
          /\ x \in pending[held[x]] \cup Members(queue[held[x]])
      BY DEF WaiterIsOwedAnswer
    <2>2. CASE held[x] = s
      BY <1>1, <1>3, <2>1, <2>2
    <2>3. CASE held[x] # s
      BY <1>2, <2>1, <2>3
    <2> QED BY <2>1, <2>2, <2>3
  <1> QED BY <1>5, <1>6, <1>7, <1>8, <1>9

\* A task returns: whoever waits on it finds its slot filled or closed.
LEMMA InvEnd ==
    ASSUME TransportInv, TypeOK', NEW s \in Sessions, NEW failed \in SUBSET pending[s],
           task[s] = "running", CloseSlots(s, failed), EndTask(s),
           UNCHANGED <<hub, lock, pc, attempt, held, outcome>>,
           \A r \in Requests :
               \/ written'[r] = written[r]
               \/ r \in Members(queue[s]) /\ written'[r] = written[r] + 1
    PROVE  TransportInv'
  <1> USE TransportAssumption DEF TransportInv, TypeOK
  <1>1. /\ task' = [task EXCEPT ![s] = "ended"]
        /\ queue' = [queue EXCEPT ![s] = << >>]
        /\ pending' = [pending EXCEPT ![s] = {}]
    BY DEF EndTask
  <1>2. /\ Members(queue'[s]) = {} /\ NoDuplicates(queue'[s])
        /\ \A t \in Sessions : t # s => queue'[t] = queue[t] /\ pending'[t] = pending[t]
    BY <1>1, MembersEmpty
  <1>3. \A t \in Sessions : /\ Members(queue'[t]) \subseteq Members(queue[t])
                           /\ pending'[t] \subseteq pending[t]
    BY <1>1, <1>2
  <1>4. \A r \in Requests :
           /\ slot'[r] # "empty" => slot[r] # "empty" \/ r \in pending[s] \cup Members(queue[s])
           /\ slot'[r] = "empty" => slot[r] = "empty" /\ r \notin pending[s] \cup Members(queue[s])
    BY DEF CloseSlots
  <1>5. HeldInv'
    BY <1>1 DEF HeldInv
  <1>6. LockInv' /\ OutcomeInv'
    BY DEF LockInv, OutcomeInv
  <1>7. TaskInv'
    BY <1>1, <1>2 DEF TaskInv
  <1>8. FreshInv'
    <2>1. \A x \in Requests : Fresh(x) => Fresh(x)'
      BY <1>3, <1>4 DEF Fresh
    <2> QED BY <2>1 DEF FreshInv
  <1>9. WrittenAtMostOnce'
    <2> SUFFICES ASSUME NEW x \in Requests
                 PROVE  /\ written'[x] <= 1
                        /\ written'[x] = 1 => \A t \in Sessions : x \notin Members(queue'[t])
                        /\ \A t, u \in Sessions :
                             x \in Members(queue'[t]) \cap Members(queue'[u]) => t = u
      BY DEF WrittenAtMostOnce
    <2>1. CASE written'[x] = written[x]
      BY <1>3, <2>1 DEF WrittenAtMostOnce
    <2>2. CASE x \in Members(queue[s]) /\ written'[x] = written[x] + 1
      <3>1. written[x] = 0
        <4>1. written[x] \in Nat /\ written[x] <= 1 /\ written[x] # 1
          BY <2>2 DEF WrittenAtMostOnce
        <4> QED BY <4>1, NotYet
      <3>2. \A t \in Sessions : x \notin Members(queue'[t])
        BY <1>2, <2>2 DEF WrittenAtMostOnce
      <3> QED BY <2>2, <3>1, <3>2
    <2> QED BY <2>1, <2>2
  <1>10. WaiterIsOwedAnswer'
    <2> SUFFICES ASSUME NEW x \in Requests, pc[x] = "await", slot'[x] = "empty"
                 PROVE  /\ held[x] # None
                        /\ task'[held[x]] = "running"
                        /\ x \in pending'[held[x]] \cup Members(queue'[held[x]])
      BY DEF WaiterIsOwedAnswer
    <2>1. /\ held[x] \in Sessions
          /\ task[held[x]] = "running"
          /\ x \in pending[held[x]] \cup Members(queue[held[x]])
      BY <1>4 DEF WaiterIsOwedAnswer
    <2>2. held[x] # s
      BY <1>4, <2>1
    <2> QED BY <1>1, <1>2, <2>1, <2>2
  <1> QED BY <1>5, <1>6, <1>7, <1>8, <1>9, <1>10

\* A reply fills the slot of its own request, or is ignored.
LEMMA InvRead ==
    ASSUME TransportInv, TypeOK', NEW s \in Sessions, NEW reply \in replies[s], ReadReply(s, reply)
    PROVE  TransportInv'
  <1> USE TransportAssumption DEF TransportInv, TypeOK, hubVars, callVars, ReadReply
  <1> DEFINE x == reply.id
  <1>1. x \in Requests /\ reply.kind \in AllReplyKinds
    BY ReplyType
  <1>2. reply.kind # "empty"
    BY <1>1 DEF AllReplyKinds
  <1> HIDE DEF x
  <1>3. /\ \A t \in Sessions : pending'[t] \subseteq pending[t]
        /\ \A t \in Sessions : t # s => pending'[t] = pending[t]
        /\ pending'[s] = pending[s] \ {x}
    BY DEF x
  <1>4. /\ \A y \in Requests : y # x => slot'[y] = slot[y]
        /\ x \in pending[s] => slot'[x] # "empty"
        /\ x \notin pending[s] => slot'[x] = slot[x]
    BY <1>1, <1>2 DEF x
  <1>5. HeldInv' /\ LockInv' /\ OutcomeInv'
    BY DEF HeldInv, LockInv, OutcomeInv
  <1>6. TaskInv'
    BY <1>3 DEF TaskInv
  <1>7. FreshInv'
    <2>1. \A y \in Requests : Fresh(y) => Fresh(y)'
      BY <1>1, <1>3, <1>4 DEF Fresh
    <2> QED BY <2>1 DEF FreshInv
  <1>8. WrittenAtMostOnce'
    BY DEF WrittenAtMostOnce
  <1>9. WaiterIsOwedAnswer'
    <2> SUFFICES ASSUME NEW y \in Requests, pc[y] = "await", slot'[y] = "empty"
                 PROVE  /\ held[y] # None
                        /\ task[held[y]] = "running"
                        /\ y \in pending'[held[y]] \cup Members(queue[held[y]])
      BY DEF WaiterIsOwedAnswer
    <2>1. /\ slot[y] = "empty"
          /\ y \in pending[s] => y # x
      BY <1>1, <1>4
    <2>2. /\ held[y] \in Sessions
          /\ task[held[y]] = "running"
          /\ y \in pending[held[y]] \cup Members(queue[held[y]])
      BY <2>1 DEF WaiterIsOwedAnswer
    <2> QED BY <1>3, <2>1, <2>2
  <1> QED BY <1>5, <1>6, <1>7, <1>8, <1>9

\* Every step of a session task keeps the invariant.
LEMMA InvSession ==
    ASSUME TransportInv, TypeOK', NEW s \in Sessions, SessionStep(s)
    PROVE  TransportInv'
  <1>1. CASE WriteFrame(s)
    BY <1>1, InvWrite
  <1>2. CASE WriteFails(s)
    <2>1. Head(queue[s]) \in Requests /\ Head(queue[s]) \in Members(queue[s])
      <3>1. queue[s] \in Seq(Requests) /\ queue[s] # << >>
        BY <1>2 DEF WriteFails, TransportInv, TypeOK
      <3> QED BY <3>1, MembersTail
    <2>2. \A r \in Requests :
               \/ written'[r] = written[r]
               \/ r \in Members(queue[s]) /\ written'[r] = written[r] + 1
      BY <1>2, <2>1 DEF WriteFails
    <2> QED BY <1>2, <2>2, InvEnd DEF WriteFails, hubVars
  <1>3. CASE \E reply \in replies[s] : ReadReply(s, reply)
    BY <1>3, InvRead
  <1>4. CASE ReadFails(s)
    BY <1>4, InvEnd DEF ReadFails, hubVars
  <1>5. CASE HeartbeatFails(s)
    BY <1>5, InvEnd DEF HeartbeatFails, hubVars
  <1>6. CASE CloseSession(s)
    BY <1>6, InvEnd DEF CloseSession, hubVars
  <1> QED BY <1>1, <1>2, <1>3, <1>4, <1>5, <1>6 DEF SessionStep

\* Every step keeps the invariant.
LEMMA InvStep == TransportInv /\ [TransportNext]_vars => TransportInv'
  <1> SUFFICES ASSUME TransportInv, [TransportNext]_vars PROVE TransportInv'
    OBVIOUS
  <1>1. TypeOK'
    BY TypeStep DEF TransportInv
  <1>2. CASE UNCHANGED vars
    BY <1>1, <1>2 DEF TransportInv, HeldInv, LockInv, OutcomeInv, TaskInv, FreshInv, Fresh,
       WrittenAtMostOnce, WaiterIsOwedAnswer, vars, hubVars, taskVars, callVars, venueVars
  <1>3. CASE VenueStep
    BY <1>1, <1>3 DEF VenueStep, VenueHandles, TransportInv, HeldInv, LockInv, OutcomeInv, TaskInv,
       FreshInv, Fresh, WrittenAtMostOnce, WaiterIsOwedAnswer, hubVars, taskVars, callVars
  <1>4. ASSUME NEW r \in Requests, RequestText(r) \/ CallStep(r) \/ DropCall(r)
        PROVE  TransportInv'
    BY <1>1, <1>4, InvCall, InvConnect, InvSend DEF CallStep
  <1> QED BY <1>1, <1>2, <1>3, <1>4, InvSession DEF TransportNext

\* For any number of calls, sessions, failures and timeouts, the invariant
\* of the command websocket holds.
THEOREM TransportInvariant == TransportSpec => []TransportInv
  BY InvInit, InvStep, PTL DEF TransportSpec

\* request_text never writes a request twice.
THEOREM AtMostOneFrame == TransportSpec => []WrittenAtMostOnce
  <1>1. TransportInv => WrittenAtMostOnce
    BY DEF TransportInv
  <1> QED BY <1>1, TransportInvariant, PTL

\* A request that failed as Unavailable may be sent again: it was never
\* written and no session can still write it.
THEOREM UnavailableIsSafeToResend == TransportSpec => []UnavailableNeverWritten
  <1>1. TransportInv => UnavailableNeverWritten
    BY DEF TransportInv, FreshInv, Fresh, UnavailableNeverWritten
  <1> QED BY <1>1, TransportInvariant, PTL

\* A waiting call is always owed an answer by a living session task.
THEOREM WaitersAreServed == TransportSpec => []WaiterIsOwedAnswer
  <1>1. TransportInv => WaiterIsOwedAnswer
    BY DEF TransportInv
  <1> QED BY <1>1, TransportInvariant, PTL

\* A connect runs alone and only when the hub has no session.
THEOREM ConnectIsExclusive == TransportSpec => []ConnectsOneAtATime
  <1>1. TransportInv => ConnectsOneAtATime
    BY DEF TransportInv, LockInv, ConnectsOneAtATime
  <1> QED BY <1>1, TransportInvariant, PTL

\* The hub forgets a session only for a call that saw this session fail.
THEOREM EvictionIsExact == TransportSpec => EvictsOnlyTheFailedSession
  <1> DEFINE Exact == hub # None /\ hub' # hub =>
                        /\ hub' = None
                        /\ \E r \in Requests : pc[r] = "invalidate" /\ held[r] = hub
  <1>1. ASSUME TransportInv, TransportNext PROVE Exact
    <2>1. ASSUME NEW r \in Requests, RequestText(r) \/ CallStep(r) \/ DropCall(r) PROVE Exact
      <3>1. CASE InvalidateSession(r)
        BY <3>1 DEF InvalidateSession
      <3>2. CASE \E s \in Sessions : ConnectSession(r, s)
        BY <1>1, <3>2 DEF ConnectSession, TransportInv, LockInv
      <3>3. CASE /\ ~InvalidateSession(r)
                 /\ ~\E s \in Sessions : ConnectSession(r, s)
        BY <2>1, <3>3 DEF CallStep, RequestText, ReuseSession, StartConnect, ConnectFails,
           SendRequest, SendFails, ResponseArrives, ResponseLost, RequestTimeout, DropCall, hubVars
      <3> QED BY <3>1, <3>2, <3>3
    <2>2. ASSUME NEW s \in Sessions, SessionStep(s) PROVE Exact
      BY <2>2 DEF SessionStep, WriteFrame, WriteFails, ReadReply, ReadFails, HeartbeatFails,
         CloseSession, hubVars
    <2>3. CASE VenueStep
      BY <2>3 DEF VenueStep, VenueHandles, hubVars
    <2> QED BY <1>1, <2>1, <2>2, <2>3 DEF TransportNext
  <1>2. TransportInv /\ [TransportNext]_vars => [Exact]_vars
    BY <1>1
  <1> QED BY <1>2, TransportInvariant, PTL DEF TransportSpec, EvictsOnlyTheFailedSession

----------------------------------------------------------------------------
(* Replies.  One request is followed from its frame to its answer, so that *)
(* the argument can be reused for the requests of a composed system.       *)

\* The frame of the request is on its way to the venue.
OnWire(r) == \E s \in Sessions : r \in wire[s]

\* An answer of this kind to the request is on its way, in its slot or returned.
Answer(r, kind) ==
    \/ \E s \in Sessions : \E reply \in replies[s] : reply.id = r /\ reply.kind = kind
    \/ slot[r] = kind
    \/ outcome[r] = kind

\* The venue has not looked at the request.
Unseen(r) == executed[r] = 0 /\ \A kind \in AllReplyKinds : ~Answer(r, kind)

\* The venue looks at a request at most once, after its only frame was written,
\* and every answer to it tells what happened then.
Verdict(r) ==
    /\ executed[r] <= 1
    /\ written[r] = 0 => Unseen(r) /\ ~OnWire(r)
    /\ OnWire(r) => Unseen(r)
    /\ \A s, t \in Sessions : r \in wire[s] \cap wire[t] => s = t
    /\ Answer(r, "accept") => executed[r] = 1
    /\ Answer(r, "reject") => executed[r] = 0

\* Initially the venue has seen nothing.
LEMMA VerdictInit == ASSUME TransportInit, NEW r \in Requests PROVE Verdict(r)
  BY DEF TransportInit, Verdict, Unseen, Answer, OnWire, AllReplyKinds

\* A step that writes no frame and that the venue does not take keeps the
\* verdict if it makes up no answer.
LEMMA VerdictKept ==
    ASSUME NEW r \in Requests, Verdict(r),
           executed'[r] = executed[r], written'[r] = written[r],
           \A s \in Sessions : r \in wire'[s] => r \in wire[s],
           \A kind \in AllReplyKinds : Answer(r, kind)' => Answer(r, kind)
    PROVE  Verdict(r)'
  <1>1. OnWire(r)' => OnWire(r)
    BY DEF OnWire
  <1>2. Unseen(r) => Unseen(r)'
    BY DEF Unseen
  <1>3. "accept" \in AllReplyKinds /\ "reject" \in AllReplyKinds
    BY DEF AllReplyKinds
  <1> QED BY <1>1, <1>2, <1>3 DEF Verdict

\* A call returns no answer but the one in its slot.
LEMMA CallAnswers ==
    ASSUME TypeOK, NEW r \in Requests, NEW x \in Requests,
           RequestText(x) \/ CallStep(x) \/ DropCall(x)
    PROVE  /\ UNCHANGED <<wire, executed, written>>
           /\ \A kind \in AllReplyKinds : Answer(r, kind)' => Answer(r, kind)
  <1> USE DEF TypeOK, hubVars, taskVars, callVars, venueVars
  <1>1. UNCHANGED <<wire, replies, executed, written, slot>>
    <2>1. CASE InvalidateSession(x)
      BY <2>1 DEF InvalidateSession
    <2>2. CASE ~InvalidateSession(x)
      BY <2>2 DEF CallStep, RequestText, ReuseSession, StartConnect, ConnectSession, ConnectFails,
         SendRequest, SendFails, ResponseArrives, ResponseLost, RequestTimeout, DropCall
    <2> QED BY <2>1, <2>2
  <1>2. outcome'[r] \in {outcome[r], slot[r], "none", "Unavailable", "Uncertain"}
    <2>1. CASE InvalidateSession(x)
      BY <2>1 DEF InvalidateSession
    <2>2. CASE ~InvalidateSession(x)
      BY <2>2 DEF CallStep, RequestText, ReuseSession, StartConnect, ConnectSession, ConnectFails,
         SendRequest, SendFails, ResponseArrives, ResponseLost, RequestTimeout, DropCall
    <2> QED BY <2>1, <2>2
  <1>3. \A kind \in AllReplyKinds : Answer(r, kind)' => Answer(r, kind)
    BY <1>1, <1>2 DEF Answer, AllReplyKinds
  <1> QED BY <1>1, <1>3

\* So a call keeps the verdict of every request.
LEMMA VerdictCall ==
    ASSUME TypeOK, NEW r \in Requests, Verdict(r), NEW x \in Requests,
           RequestText(x) \/ CallStep(x) \/ DropCall(x)
    PROVE  Verdict(r)'
  <1>1. /\ UNCHANGED <<wire, executed, written>>
        /\ \A kind \in AllReplyKinds : Answer(r, kind)' => Answer(r, kind)
    BY CallAnswers
  <1> QED BY <1>1, VerdictKept

\* A frame leaves for the venue: it is the request's first, so the venue has
\* not seen the request.
LEMMA VerdictSent ==
    ASSUME TransportInv, NEW r \in Requests, Verdict(r), NEW s \in Sessions,
           r \in Members(queue[s]),
           executed'[r] = executed[r], written'[r] = written[r] + 1,
           wire' = [wire EXCEPT ![s] = @ \cup {r}],
           \A kind \in AllReplyKinds : Answer(r, kind)' => Answer(r, kind)
    PROVE  Verdict(r)'
  <1>1. written[r] = 0
    <2>1. written[r] \in Nat /\ written[r] <= 1 /\ written[r] # 1
      BY DEF TransportInv, TypeOK, WrittenAtMostOnce
    <2> QED BY <2>1, NotYet
  <1>2. Unseen(r) /\ ~OnWire(r)
    BY <1>1 DEF Verdict
  <1>3. Unseen(r)'
    BY <1>2 DEF Unseen
  <1>4. \A t \in Sessions : r \in wire'[t] => t = s
    BY <1>2 DEF OnWire, TransportInv, TypeOK
  <1>5. ~Answer(r, "accept")' /\ ~Answer(r, "reject")'
    BY <1>3 DEF Unseen, AllReplyKinds
  <1>6. executed'[r] <= 1 /\ written'[r] # 0
    BY <1>1 DEF Verdict
  <1> QED BY <1>3, <1>4, <1>5, <1>6 DEF Verdict

\* A task that returns answers nobody.
LEMMA AnswerEnd ==
    ASSUME TypeOK, NEW r \in Requests, NEW s \in Sessions, NEW failed,
           CloseSlots(s, failed), EndTask(s), outcome' = outcome
    PROVE  \A kind \in AllReplyKinds : Answer(r, kind)' => Answer(r, kind)
  <1>1. \A t \in Sessions : replies'[t] \subseteq replies[t]
    BY DEF EndTask, TypeOK
  <1>2. slot'[r] \in {slot[r], "failed", "closed", "empty"}
    BY DEF CloseSlots
  <1> QED BY <1>1, <1>2 DEF Answer, AllReplyKinds

\* A session task sends at most the frame at the head of its channel.
Sends(s, r) ==
    /\ r \in Members(queue[s])
    /\ written'[r] = written[r] + 1
    /\ wire' = [wire EXCEPT ![s] = @ \cup {r}]

\* A session task writes frames and routes answers; it invents none.
LEMMA SessionAnswers ==
    ASSUME TypeOK, NEW r \in Requests, NEW s \in Sessions, SessionStep(s)
    PROVE  /\ executed' = executed
           /\ \A kind \in AllReplyKinds : Answer(r, kind)' => Answer(r, kind)
           /\ \/ Sends(s, r)
              \/ /\ written'[r] = written[r]
                 /\ \A t \in Sessions : r \in wire'[t] => r \in wire[t]
  <1> USE DEF hubVars, taskVars, callVars, venueVars
  <1>1. CASE WriteFrame(s) \/ WriteFails(s)
    <2> DEFINE h == Head(queue[s])
    <2>1. h \in Requests /\ h \in Members(queue[s])
      <3>1. queue[s] \in Seq(Requests) /\ queue[s] # << >>
        BY <1>1 DEF WriteFrame, WriteFails, TypeOK
      <3> QED BY <3>1, MembersTail
    <2>2. \A kind \in AllReplyKinds : Answer(r, kind)' => Answer(r, kind)
      <3>1. CASE WriteFrame(s)
        BY <3>1 DEF WriteFrame, Answer
      <3>2. CASE WriteFails(s)
        BY <3>2, AnswerEnd DEF WriteFails
      <3> QED BY <1>1, <3>1, <3>2
    <2>3. executed' = executed
      BY <1>1 DEF WriteFrame, WriteFails
    <2>4. PICK left \in SUBSET {h} :
            /\ wire' = [wire EXCEPT ![s] = @ \cup left]
            /\ written'[r] = IF r \in left THEN written[r] + 1 ELSE written[r]
      <3>1. CASE WriteFrame(s)
        <4>1. /\ wire' = [wire EXCEPT ![s] = @ \cup {h}]
              /\ written'[r] = IF r \in {h} THEN written[r] + 1 ELSE written[r]
          BY <2>1, <3>1 DEF WriteFrame, TypeOK
        <4> QED BY <4>1
      <3>2. CASE WriteFails(s)
        BY <3>2 DEF WriteFails
      <3> QED BY <1>1, <3>1, <3>2
    <2> HIDE DEF h
    <2>5. CASE r \in left
      <3>1. r = h /\ left = {r}
        BY <2>5
      <3> QED BY <2>1, <2>2, <2>3, <2>4, <3>1 DEF Sends
    <2>6. CASE r \notin left
      <3>1. \A t \in Sessions : r \in wire'[t] => r \in wire[t]
        BY <2>4, <2>6 DEF TypeOK
      <3> QED BY <2>2, <2>3, <2>4, <2>6, <3>1
    <2> QED BY <2>5, <2>6
  <1>2. CASE \E reply \in replies[s] : ReadReply(s, reply)
    <2>1. PICK reply \in replies[s] : ReadReply(s, reply)
      BY <1>2
    <2>2. reply.id \in Requests /\ reply.kind \in AllReplyKinds
      BY ReplyType
    <2>3. \A t \in Sessions : replies'[t] \subseteq replies[t]
      BY <2>1 DEF ReadReply, TypeOK
    <2>4. slot'[r] = slot[r] \/ (reply.id = r /\ slot'[r] = reply.kind)
      BY <2>1, <2>2 DEF ReadReply, TypeOK
    <2>5. UNCHANGED <<outcome, wire, executed, written>>
      BY <2>1 DEF ReadReply
    <2>6. \A kind \in AllReplyKinds : Answer(r, kind)' => Answer(r, kind)
      BY <2>3, <2>4, <2>5 DEF Answer
    <2> QED BY <2>5, <2>6
  <1>3. CASE ReadFails(s) \/ HeartbeatFails(s) \/ CloseSession(s)
    <2>1. UNCHANGED <<outcome, wire, executed, written>>
      BY <1>3 DEF ReadFails, HeartbeatFails, CloseSession
    <2>2. \A kind \in AllReplyKinds : Answer(r, kind)' => Answer(r, kind)
      BY <1>3, <2>1, AnswerEnd DEF ReadFails, HeartbeatFails, CloseSession
    <2> QED BY <2>1, <2>2
  <1> QED BY <1>1, <1>2, <1>3 DEF SessionStep

\* So a session task keeps the verdict of every request.
LEMMA VerdictSession ==
    ASSUME TransportInv, NEW r \in Requests, Verdict(r), NEW s \in Sessions, SessionStep(s)
    PROVE  Verdict(r)'
  <1>1. TypeOK
    BY DEF TransportInv
  <1>2. /\ executed'[r] = executed[r]
        /\ \A kind \in AllReplyKinds : Answer(r, kind)' => Answer(r, kind)
        /\ \/ Sends(s, r)
           \/ /\ written'[r] = written[r]
              /\ \A t \in Sessions : r \in wire'[t] => r \in wire[t]
    BY <1>1, SessionAnswers
  <1>3. CASE Sends(s, r)
    BY <1>2, <1>3, VerdictSent DEF Sends
  <1>4. CASE ~Sends(s, r)
    BY <1>2, <1>4, VerdictKept
  <1> QED BY <1>3, <1>4

\* The venue answers a request it has not seen before.
LEMMA VerdictVenue ==
    ASSUME TypeOK, NEW r \in Requests, Verdict(r), VenueStep
    PROVE  Verdict(r)'
  <1>1. PICK s \in Sessions, x \in Requests, kind \in ReplyKinds : VenueHandles(s, x, kind)
    BY DEF VenueStep
  <1>2. kind \in AllReplyKinds
    BY TransportAssumption
  <1>3. UNCHANGED <<slot, outcome, written>>
    BY <1>1 DEF VenueHandles, taskVars, callVars
  <1>4. \A t \in Sessions : \A reply \in replies'[t] :
          reply \in replies[t] \/ reply = [id |-> x, kind |-> kind]
    BY <1>1 DEF VenueHandles, TypeOK
  <1>5. \A t \in Sessions : r \in wire'[t] => r \in wire[t]
    BY <1>1 DEF VenueHandles, TypeOK
  <1>6. CASE x # r
    <2>1. \A k \in AllReplyKinds : Answer(r, k)' => Answer(r, k)
      BY <1>3, <1>4, <1>6 DEF Answer
    <2>2. executed'[r] = executed[r]
      BY <1>1, <1>6 DEF VenueHandles, TypeOK
    <2> QED BY <1>3, <1>5, <2>1, <2>2, VerdictKept
  <1>7. CASE x = r
    <2>1. OnWire(r) /\ Unseen(r) /\ written[r] # 0
      BY <1>1, <1>7 DEF VenueHandles, OnWire, Verdict
    <2>2. ~OnWire(r)'
      <3>1. wire' = [wire EXCEPT ![s] = @ \ {r}] /\ r \in wire[s]
        BY <1>1, <1>7 DEF VenueHandles
      <3>2. \A t \in Sessions : r \in wire[t] => t = s
        BY <3>1 DEF Verdict
      <3> QED BY <3>1, <3>2 DEF OnWire, TypeOK
    <2>3. \A k \in AllReplyKinds : Answer(r, k)' => k = kind
      BY <1>3, <1>4, <2>1 DEF Answer, Unseen
    <2>4. PICK effect \in CASE kind = "accept" -> {1}
                            [] kind = "reject" -> {0}
                            [] OTHER -> {0, 1} :
             executed' = [executed EXCEPT ![r] = @ + effect]
      BY <1>1, <1>7 DEF VenueHandles
    <2>5. effect \in {0, 1} /\ (kind = "accept" => effect = 1) /\ (kind = "reject" => effect = 0)
      BY <2>4
    <2>6. executed'[r] = effect
      BY <2>1, <2>4, <2>5 DEF Unseen, TypeOK
    <2>7. "accept" \in AllReplyKinds /\ "reject" \in AllReplyKinds
      BY DEF AllReplyKinds
    <2>8. /\ executed'[r] <= 1
          /\ Answer(r, "accept")' => executed'[r] = 1
          /\ Answer(r, "reject")' => executed'[r] = 0
      BY <2>3, <2>5, <2>6, <2>7
    <2>9. \A t, u \in Sessions : r \notin wire'[t] \cap wire'[u]
      BY <2>2 DEF OnWire
    <2> QED BY <1>3, <2>1, <2>2, <2>8, <2>9 DEF Verdict
  <1> QED BY <1>6, <1>7

\* Every step of the command websocket keeps the verdict of every request.
LEMMA VerdictStep ==
    ASSUME TransportInv, NEW r \in Requests, Verdict(r), TransportNext
    PROVE  Verdict(r)'
  <1>1. TypeOK
    BY DEF TransportInv
  <1> QED BY <1>1, VerdictCall, VerdictSession, VerdictVenue DEF TransportNext

\* The invariant of the replies, next to that of the sessions.
VerdictInv == \A r \in Requests : Verdict(r)

\* A reply returned by request_text is the venue's verdict on this request.
THEOREM RepliesAreVerdicts == TransportSpec => []ReplyIsOwnVerdict
  <1>1. TransportInit => VerdictInv
    BY VerdictInit DEF VerdictInv
  <1>2. TransportInv /\ VerdictInv /\ [TransportNext]_vars => VerdictInv'
    <2> SUFFICES ASSUME TransportInv, [TransportNext]_vars, NEW r \in Requests, Verdict(r)
                 PROVE  Verdict(r)'
      BY DEF VerdictInv
    <2>1. CASE UNCHANGED vars
      BY <2>1 DEF Verdict, Unseen, Answer, OnWire, vars, callVars, venueVars
    <2> QED BY <2>1, VerdictStep
  <1>3. VerdictInv => ReplyIsOwnVerdict
    <2> SUFFICES ASSUME NEW r \in Requests, Verdict(r)
                 PROVE  /\ outcome[r] = "accept" => executed[r] = 1
                        /\ outcome[r] = "reject" =>
                             executed[r] = 0 /\ \A s \in Sessions : r \notin wire[s]
      BY DEF VerdictInv, ReplyIsOwnVerdict
    <2>1. OnWire(r) => ~Answer(r, "reject")
      BY DEF Verdict, Unseen, AllReplyKinds
    <2> QED BY <2>1 DEF Verdict, Answer, OnWire
  <1> QED BY <1>1, <1>2, <1>3, TransportInvariant, PTL DEF TransportSpec

----------------------------------------------------------------------------
(* PART 2: THE SUBMISSION                                                  *)
(*                                                                         *)
(* The inductive invariant, next to that of the transport.                 *)

\* Neither the call nor the session task of the request moves any more, and
\* none of its frames is queued or on its way to the venue.
Gone(r) ==
    /\ pc[r] \in {"idle", "done", "dropped"}
    /\ ~OnWire(r)
    /\ \A s \in Sessions : r \notin Members(queue[s])

\* 1 while this REST call is on its way to the venue.
Travelling(r, c) == IF <<r, c>> \in restWire THEN 1 ELSE 0

\* The effects the REST calls of a command have had or may still have.
Effects(r) == executed[r] + Travelling(r, 1) + Travelling(r, 2)

\* A command uses one route at a time: until its first REST call it is what
\* the websocket says it is, and it goes to REST only when the websocket has
\* nothing of it left.
Command(r) ==
    /\ stage[r] = "new" => pc[r] = "idle" /\ call[r] = 0 /\ op[r] = "none"
    /\ stage[r] = "ws" => call[r] = 0
    /\ stage[r] \in {"returned", "abandoned"} => pc[r] \in {"idle", "done", "dropped"}
    /\ stage[r] \in {"rest", "restAwait"} \/ call[r] > 0 =>
         /\ Gone(r)
         /\ mode[r] = "Auto"
         /\ Effects(r) <= call[r]
    /\ call[r] = 0 => Verdict(r)
    /\ \A c \in 1 .. MaxCalls : <<r, c>> \in restWire => c <= call[r]
    /\ call[r] <= RestCalls(op[r])
    /\ stage[r] = "rest" => call[r] < RestCalls(op[r])
    /\ stage[r] = "restAwait" => call[r] > 0

SubmissionInv ==
    /\ SubmissionTypeOK
    /\ TransportInv
    /\ \A r \in Requests : Command(r)

\* A command with a definite receipt has nothing in flight; a command that
\* waits for its only REST call knows what the venue did with it.
Certain(r) ==
    /\ receipt[r] # "none" => stage[r] = "returned"
    /\ receipt[r] \in {"Accepted", "Rejected", "Err"} => Proven(r) /\ ~InFlight(r)
    /\ restReply[r] # "none" =>
         /\ stage[r] = "restAwait"
         /\ restReply[r] \in ReplyKinds
         /\ \A c \in 1 .. MaxCalls : <<r, c>> \notin restWire
         /\ restReply[r] = "accept" => executed[r] = 1
         /\ restReply[r] = "reject" => executed[r] = 0
    /\ parts[r] = << >>

\* The venue's answers are of the kinds it gives.
KnownAnswers(r) ==
    \A kind \in AllReplyKinds : Answer(r, kind) => kind \in ReplyKinds

ReceiptInv ==
    \A r \in Requests : KnownAnswers(r) /\ (KeepsUncertainty(op[r]) => Certain(r))

\* The operations whose receipt is proof consist of one REST call each: all of
\* them on Binance and Bybit, and on MEXC all but the two leverage settings.
SingleCalls == \A o \in Operations : KeepsUncertainty(o) => RestCalls(o) = 1

----------------------------------------------------------------------------
(* What the steps of the websocket mean for a command that does not take   *)
(* them itself.                                                            *)

USE DEF MaxCalls

\* A step of the websocket below the commands, or the beginning or the end of
\* another command's call.
Elsewhere(r) ==
    \/ \E x \in Requests : CallStep(x)
    \/ \E s \in Sessions : SessionStep(s)
    \/ VenueStep
    \/ \E x \in Requests \ {r} : RequestText(x) \/ DropCall(x)

\* What such a step does not do to the request r.
Undisturbed(r) ==
    /\ Verdict(r) => Verdict(r)'
    /\ pc[r] \in {"idle", "done", "dropped"} => pc'[r] = pc[r]
    /\ Gone(r) => Gone(r)' /\ executed'[r] = executed[r]
    /\ KnownAnswers(r) => KnownAnswers(r)'

\* A call at rest is left alone by the calls of others.
LEMMA CallAtRest ==
    ASSUME TypeOK, NEW r \in Requests, pc[r] \in {"idle", "done", "dropped"}, NEW x \in Requests,
           CallStep(x) \/ (x # r /\ (RequestText(x) \/ DropCall(x)))
    PROVE  /\ pc'[r] = pc[r]
           /\ \A s \in Sessions : r \in Members(queue'[s]) => r \in Members(queue[s])
  <1> USE DEF TypeOK, hubVars, taskVars, callVars, venueVars
  <1>1. CASE SendRequest(x)
    <2>1. x # r /\ pc' = [pc EXCEPT ![x] = "await"]
      BY <1>1 DEF SendRequest
    <2>2. \A s \in Sessions : queue'[s] = queue[s] \/ queue'[s] = Append(queue[s], x)
      BY <1>1 DEF SendRequest
    <2>3. \A s \in Sessions : Members(queue'[s]) \subseteq Members(queue[s]) \cup {x}
      <3> SUFFICES ASSUME NEW s \in Sessions
                   PROVE  Members(queue'[s]) \subseteq Members(queue[s]) \cup {x}
        OBVIOUS
      <3>1. queue[s] \in Seq(Requests)
        OBVIOUS
      <3>2. Members(Append(queue[s], x)) = Members(queue[s]) \cup {x}
        BY <3>1, MembersAppend
      <3> QED BY <2>2, <3>2
    <2> QED BY <2>1, <2>3
  <1>2. CASE InvalidateSession(x)
    BY <1>2 DEF InvalidateSession
  <1>3. CASE ~SendRequest(x) /\ ~InvalidateSession(x)
    BY <1>3 DEF CallStep, RequestText, ReuseSession, StartConnect, ConnectSession, ConnectFails,
       SendFails, ResponseArrives, ResponseLost, RequestTimeout, DropCall
  <1> QED BY <1>1, <1>2, <1>3

\* A session task queues nothing and moves no call.
LEMMA SessionQueues ==
    ASSUME TypeOK, NEW s \in Sessions, SessionStep(s)
    PROVE  /\ pc' = pc
           /\ \A t \in Sessions : Members(queue'[t]) \subseteq Members(queue[t])
  <1> USE DEF hubVars, taskVars, callVars, venueVars
  <1>1. CASE WriteFrame(s)
    <2>1. queue[s] \in Seq(Requests) /\ queue[s] # << >> /\ queue' = [queue EXCEPT ![s] = Tail(@)]
      BY <1>1 DEF WriteFrame, TypeOK
    <2>2. Members(Tail(queue[s])) \subseteq Members(queue[s])
      BY <2>1, MembersTail
    <2> QED BY <1>1, <2>1, <2>2 DEF WriteFrame, TypeOK
  <1>2. CASE \E reply \in replies[s] : ReadReply(s, reply)
    BY <1>2 DEF ReadReply
  <1>3. CASE WriteFails(s) \/ ReadFails(s) \/ HeartbeatFails(s) \/ CloseSession(s)
    <2>1. pc' = pc /\ queue' = [queue EXCEPT ![s] = << >>]
      BY <1>3 DEF WriteFails, ReadFails, HeartbeatFails, CloseSession, EndTask
    <2> QED BY <2>1, MembersEmpty DEF TypeOK
  <1> QED BY <1>1, <1>2, <1>3 DEF SessionStep

\* The venue takes no frame that is not on its way, moves no call and gives
\* only the answers it gives.
LEMMA VenueAnswers ==
    ASSUME TypeOK, NEW r \in Requests, VenueStep
    PROVE  /\ pc' = pc /\ queue' = queue
           /\ \A s \in Sessions : r \in wire'[s] => r \in wire[s]
           /\ ~OnWire(r) => executed'[r] = executed[r]
           /\ KnownAnswers(r) => KnownAnswers(r)'
  <1>1. PICK s \in Sessions, x \in Requests, kind \in ReplyKinds : VenueHandles(s, x, kind)
    BY DEF VenueStep
  <1>2. UNCHANGED <<pc, queue, slot, outcome>>
    BY <1>1 DEF VenueHandles, taskVars, callVars
  <1>3. \A t \in Sessions : \A reply \in replies'[t] :
          reply \in replies[t] \/ reply = [id |-> x, kind |-> kind]
    BY <1>1 DEF VenueHandles, TypeOK
  <1>4. \A t \in Sessions : r \in wire'[t] => r \in wire[t]
    BY <1>1 DEF VenueHandles, TypeOK
  <1>5. ~OnWire(r) => executed'[r] = executed[r]
    BY <1>1 DEF VenueHandles, TypeOK, OnWire
  <1>6. \A k \in AllReplyKinds : Answer(r, k)' => Answer(r, k) \/ k = kind
    BY <1>2, <1>3 DEF Answer
  <1>7. KnownAnswers(r) => KnownAnswers(r)'
    BY <1>6 DEF KnownAnswers
  <1> QED BY <1>2, <1>4, <1>5, <1>7

\* Steps elsewhere leave a command undisturbed.
LEMMA ElsewhereIsCalm ==
    ASSUME TransportInv, NEW r \in Requests, Elsewhere(r)
    PROVE  Undisturbed(r)
  <1>0. TypeOK
    BY DEF TransportInv
  <1>1. ASSUME NEW x \in Requests, CallStep(x) \/ (x # r /\ (RequestText(x) \/ DropCall(x)))
        PROVE  Undisturbed(r)
    <2>1. /\ UNCHANGED <<wire, executed, written>>
          /\ \A kind \in AllReplyKinds : Answer(r, kind)' => Answer(r, kind)
      BY <1>0, <1>1, CallAnswers
    <2>2. Verdict(r) => Verdict(r)'
      BY <1>0, <1>1, VerdictCall
    <2>3. pc[r] \in {"idle", "done", "dropped"} =>
            /\ pc'[r] = pc[r]
            /\ \A s \in Sessions : r \in Members(queue'[s]) => r \in Members(queue[s])
      BY <1>0, <1>1, CallAtRest
    <2>4. Gone(r) => Gone(r)'
      BY <2>1, <2>3 DEF Gone, OnWire
    <2>5. KnownAnswers(r) => KnownAnswers(r)'
      BY <2>1 DEF KnownAnswers
    <2> QED BY <2>1, <2>2, <2>3, <2>4, <2>5 DEF Undisturbed
  <1>2. ASSUME NEW s \in Sessions, SessionStep(s)
        PROVE  Undisturbed(r)
    <2>1. /\ executed' = executed
          /\ \A kind \in AllReplyKinds : Answer(r, kind)' => Answer(r, kind)
          /\ \/ Sends(s, r)
             \/ /\ written'[r] = written[r]
                /\ \A t \in Sessions : r \in wire'[t] => r \in wire[t]
      BY <1>0, <1>2, SessionAnswers
    <2>2. /\ pc' = pc
          /\ \A t \in Sessions : Members(queue'[t]) \subseteq Members(queue[t])
      BY <1>0, <1>2, SessionQueues
    <2>3. Verdict(r) => Verdict(r)'
      BY <1>2, VerdictSession
    <2>4. Gone(r) => Gone(r)'
      BY <2>1, <2>2 DEF Gone, OnWire, Sends
    <2>5. KnownAnswers(r) => KnownAnswers(r)'
      BY <2>1 DEF KnownAnswers
    <2> QED BY <2>1, <2>2, <2>3, <2>4, <2>5 DEF Undisturbed
  <1>3. CASE VenueStep
    <2>1. /\ pc' = pc /\ queue' = queue
          /\ \A s \in Sessions : r \in wire'[s] => r \in wire[s]
          /\ ~OnWire(r) => executed'[r] = executed[r]
          /\ KnownAnswers(r) => KnownAnswers(r)'
      BY <1>0, <1>3, VenueAnswers
    <2>2. Verdict(r) => Verdict(r)'
      BY <1>0, <1>3, VerdictVenue
    <2>3. Gone(r) => Gone(r)' /\ executed'[r] = executed[r]
      BY <2>1 DEF Gone, OnWire
    <2> QED BY <2>1, <2>2, <2>3 DEF Undisturbed
  <1> QED BY <1>1, <1>2, <1>3 DEF Elsewhere

\* A step that touches nothing of the request's call leaves it undisturbed.
LEMMA UntouchedIsCalm ==
    ASSUME NEW r \in Requests, executed'[r] = executed[r],
           UNCHANGED <<pc, queue, wire, replies, slot, outcome, written>>
    PROVE  Undisturbed(r)
  <1>1. /\ OnWire(r)' <=> OnWire(r)
        /\ \A kind : Answer(r, kind)' <=> Answer(r, kind)
    BY DEF OnWire, Answer
  <1>2. Unseen(r)' <=> Unseen(r)
    BY <1>1 DEF Unseen
  <1>3. Verdict(r) => Verdict(r)'
    BY <1>1, <1>2 DEF Verdict
  <1>4. Gone(r) => Gone(r)'
    BY <1>1 DEF Gone
  <1>5. KnownAnswers(r) => KnownAnswers(r)'
    BY <1>1 DEF KnownAnswers
  <1> QED BY <1>3, <1>4, <1>5 DEF Undisturbed

----------------------------------------------------------------------------
(* The actions of the commands.                                            *)

\* Every command begins with one of four outcomes of its checks.
LEMMA Starts ==
    ASSUME NEW r \in Requests, StartCommand(r)
    PROVE  /\ stage[r] = "new"
           /\ UNCHANGED <<call, parts, restWire, restReply>>
           /\ \E o \in Operations, m \in {"Auto", "WebSocketOnly"} :
                /\ op' = [op EXCEPT ![r] = o]
                /\ mode' = [mode EXCEPT ![r] = m]
                /\ \/ Refuse(r)
                   \/ TakeWs(r)
                   \/ m = "Auto" /\ TakeRest(r)
                   \/ /\ ~KeepsUncertainty(o)
                      /\ Return(r, "Accepted")
                      /\ UNCHANGED vars
  <1>1. CASE CancelAllInstruments(r)
    BY <1>1 DEF CancelAllInstruments, Start, Return, KeepsUncertainty
  <1>2. CASE CreateOrder(r) \/ AmendOrder(r) \/ CancelOrder(r) \/ CancelAllOrders(r)
    BY <1>2 DEF CreateOrder, AmendOrder, CancelOrder, CancelAllOrders, Start
  <1>3. CASE ClosePosition(r) \/ SetLeverage(r) \/ SetMarginMode(r) \/ SetPositionMode(r)
    BY <1>3 DEF ClosePosition, SetLeverage, SetMarginMode, SetPositionMode, Start
  <1> QED BY <1>1, <1>2, <1>3 DEF StartCommand

\* A command's own steps between its calls leave the websocket alone.
LEMMA CommandLeavesTransport ==
    ASSUME NEW r \in Requests, CommandStep(r)
    PROVE  UNCHANGED vars
  BY DEF CommandStep, WsAnswered, WsUncertain, WsUnavailable, RestNotSent, SendRest, RestAnswered,
     RestUncertain

\* The venue's handling of a REST call moves only its own counters.
LEMMA RestLeavesTransport ==
    ASSUME TypeOK, NEW x \in Requests, NEW c \in 1 .. MaxCalls, NEW kind \in ReplyKinds,
           VenueHandlesRest(x, c, kind)
    PROVE  /\ UNCHANGED <<hub, lock, task, queue, pending, pc, attempt, held, slot, outcome, wire,
                          replies, written>>
           /\ executed' \in [Requests -> Nat]
           /\ \A r \in Requests : r # x => executed'[r] = executed[r]
  <1>1. UNCHANGED <<hub, lock, task, queue, pending, pc, attempt, held, slot, outcome, wire,
                    replies, written>>
    BY DEF VenueHandlesRest, hubVars, taskVars, callVars
  <1>2. PICK effect \in {0, 1} : executed' = [executed EXCEPT ![x] = @ + effect]
    BY DEF VenueHandlesRest
  <1>3. executed \in [Requests -> Nat]
    BY DEF TypeOK
  <1> QED BY <1>1, <1>2, <1>3

\* Every step of the composed system keeps the invariant of the websocket.
LEMMA TransportInvKept == TransportInv /\ [Next]_allVars => TransportInv'
  <1> SUFFICES ASSUME TransportInv, [Next]_allVars PROVE TransportInv'
    OBVIOUS
  <1>1. CASE UNCHANGED vars
    BY <1>1, InvStep
  <1>2. CASE TransportNext
    BY <1>2, InvStep
  <1>3. ASSUME NEW r \in Requests, StartCommand(r) PROVE UNCHANGED vars \/ TransportNext
    <2>1. UNCHANGED vars \/ RequestText(r)
      BY <1>3, Starts DEF Refuse, TakeWs, TakeRest
    <2> QED BY <2>1 DEF TransportNext
  <1>4. ASSUME NEW r \in Requests, Abandon(r) PROVE UNCHANGED vars \/ TransportNext
    BY <1>4 DEF Abandon, TransportNext
  <1>5. CASE TransportStep
    BY <1>2, <1>5 DEF TransportStep, TransportNext
  <1>6. ASSUME NEW r \in Requests, NEW c \in 1 .. MaxCalls, NEW kind \in ReplyKinds,
               VenueHandlesRest(r, c, kind)
        PROVE  TransportInv'
    <2>1. /\ UNCHANGED <<hub, lock, task, queue, pending, pc, attempt, held, slot, outcome, wire,
                         replies, written>>
          /\ executed' \in [Requests -> Nat]
      BY <1>6, RestLeavesTransport DEF TransportInv
    <2> QED BY <2>1 DEF TransportInv, TypeOK, HeldInv, LockInv, OutcomeInv, TaskInv, FreshInv,
               Fresh, WrittenAtMostOnce, WaiterIsOwedAnswer
  <1>7. CASE UNCHANGED allVars
    BY <1>1, <1>7 DEF allVars
  <1> QED BY <1>1, <1>2, <1>3, <1>4, <1>5, <1>6, <1>7, CommandLeavesTransport DEF Next

\* Nothing of the command's own state changes.
Framed(r) ==
    /\ op'[r] = op[r]
    /\ mode'[r] = mode[r]
    /\ stage'[r] = stage[r]
    /\ call'[r] = call[r]
    /\ parts'[r] = parts[r]
    /\ restReply'[r] = restReply[r]
    /\ receipt'[r] = receipt[r]
    /\ \A c \in 1 .. MaxCalls : <<r, c>> \in restWire' <=> <<r, c>> \in restWire

\* A step of one command is calm for, and does not change, another one.
LEMMA OthersAreFramed ==
    ASSUME SubmissionTypeOK, TransportInv, NEW r \in Requests, NEW x \in Requests, x # r,
           \/ StartCommand(x) \/ CommandStep(x) \/ Abandon(x)
           \/ \E c \in 1 .. MaxCalls, kind \in ReplyKinds : VenueHandlesRest(x, c, kind)
    PROVE  Framed(r) /\ Undisturbed(r)
  <1>0. /\ DOMAIN op = Requests /\ DOMAIN mode = Requests /\ DOMAIN stage = Requests
        /\ DOMAIN call = Requests /\ DOMAIN parts = Requests /\ DOMAIN restReply = Requests
        /\ DOMAIN receipt = Requests
    BY DEF SubmissionTypeOK
  <1>1. CASE StartCommand(x)
    <2>1. UNCHANGED vars \/ RequestText(x)
      BY <1>1, Starts DEF Refuse, TakeWs, TakeRest
    <2>2. Undisturbed(r)
      BY <2>1, ElsewhereIsCalm, UntouchedIsCalm DEF Elsewhere, vars, taskVars, callVars, venueVars
    <2>3. Framed(r)
      <3>1. PICK o \in Operations, m \in {"Auto", "WebSocketOnly"} :
              /\ op' = [op EXCEPT ![x] = o]
              /\ mode' = [mode EXCEPT ![x] = m]
        BY <1>1, Starts
      <3>2. UNCHANGED <<call, parts, restWire, restReply>>
        BY <1>1, Starts
      <3>3. stage'[r] = stage[r] /\ receipt'[r] = receipt[r]
        BY <1>0, <1>1, Starts DEF Refuse, TakeWs, TakeRest, Return
      <3> QED BY <1>0, <3>1, <3>2, <3>3 DEF Framed
    <2> QED BY <2>2, <2>3
  <1>2. CASE CommandStep(x)
    <2>1. Undisturbed(r)
      BY <1>2, CommandLeavesTransport, UntouchedIsCalm DEF vars, taskVars, callVars, venueVars
    <2>2. CASE SendRest(x)
      BY <1>0, <2>1, <2>2 DEF SendRest, Framed
    <2>3. CASE RestAnswered(x) \/ RestUncertain(x)
      <3>1. /\ UNCHANGED <<op, mode, call, restWire>>
            /\ restReply' = [restReply EXCEPT ![x] = "none"]
        BY <2>3 DEF RestAnswered, RestUncertain
      <3>2. stage'[r] = stage[r] /\ receipt'[r] = receipt[r] /\ parts'[r] = parts[r]
        BY <1>0, <2>3 DEF RestAnswered, RestUncertain, FinishCall, Return
      <3> QED BY <1>0, <2>1, <3>1, <3>2 DEF Framed
    <2>4. CASE WsAnswered(x) \/ WsUncertain(x) \/ WsUnavailable(x) \/ RestNotSent(x)
      <3>1. UNCHANGED <<op, mode, call, parts, restWire, restReply>>
        BY <2>4 DEF WsAnswered, WsUncertain, WsUnavailable, RestNotSent
      <3>2. stage'[r] = stage[r] /\ receipt'[r] = receipt[r]
        BY <1>0, <2>4 DEF WsAnswered, WsUncertain, WsUnavailable, RestNotSent, Return
      <3> QED BY <2>1, <3>1, <3>2 DEF Framed
    <2> QED BY <1>2, <2>1, <2>2, <2>3, <2>4 DEF CommandStep
  <1>3. CASE Abandon(x)
    <2>1. UNCHANGED vars \/ DropCall(x)
      BY <1>3 DEF Abandon
    <2>2. Undisturbed(r)
      BY <2>1, ElsewhereIsCalm, UntouchedIsCalm DEF Elsewhere, vars, taskVars, callVars, venueVars
    <2>3. Framed(r)
      BY <1>3 DEF Abandon, Framed, SubmissionTypeOK
    <2> QED BY <2>2, <2>3
  <1>4. ASSUME NEW c \in 1 .. MaxCalls, NEW kind \in ReplyKinds, VenueHandlesRest(x, c, kind)
        PROVE  Framed(r) /\ Undisturbed(r)
    <2>1. TypeOK
      BY DEF TransportInv
    <2>2. Undisturbed(r)
      BY <1>4, <2>1, RestLeavesTransport, UntouchedIsCalm
    <2>3. Framed(r)
      BY <1>4 DEF VenueHandlesRest, Framed, SubmissionTypeOK
    <2> QED BY <2>2, <2>3
  <1> QED BY <1>1, <1>2, <1>3, <1>4

----------------------------------------------------------------------------
(* Type correctness and the routes of a command.                           *)

\* What a call contributes and what the calls amount to are receipts.
LEMMA MergeType ==
    ASSUME NEW ps \in Seq(Receipts \cup {"Err"}), NEW v \in Receipts \cup {"Err"}, NEW o
    PROVE  /\ Append(ps, v) \in Seq(Receipts \cup {"Err"})
           /\ MergeReceipts(o, Append(ps, v)) \in Receipts \cup {"Err"}
  <1> DEFINE qs == Append(ps, v)
  <1>1. qs \in Seq(Receipts \cup {"Err"}) /\ Head(qs) \in Receipts \cup {"Err"}
    OBVIOUS
  <1> HIDE DEF qs
  <1>2. MergeReceipts(o, qs) \in Receipts \cup {"Err"}
    BY <1>1 DEF MergeReceipts, Receipts
  <1> QED BY <1>1, <1>2 DEF qs

\* A command needs one or two REST calls.
LEMMA RestCallsType == \A o : RestCalls(o) \in {1, 2}
  BY DEF RestCalls

\* A reply is classified into a receipt or an error.
LEMMA ClassifyType ==
    \A kind \in AllReplyKinds :
        /\ Classify(kind) \in Receipts \cup {"Err"}
        /\ Classify(kind) = "Err" => kind = "garbled"
        /\ Classify(kind) = "Accepted" => kind = "accept"
        /\ Classify(kind) = "Rejected" => kind = "reject"
        /\ Classify(kind) # "UnknownExecution"
  BY DEF Classify, AllReplyKinds, Receipts

\* Finishing a REST call keeps the types.
LEMMA FinishType ==
    ASSUME SubmissionTypeOK, NEW r \in Requests, NEW v \in Receipts \cup {"Err"}, FinishCall(r, v)
    PROVE  /\ parts' \in [Requests -> Seq(Receipts \cup {"Err"})]
           /\ stage' \in [Requests -> {"new", "ws", "rest", "restAwait", "returned", "abandoned"}]
           /\ receipt' \in [Requests -> Receipts \cup {"none", "Err"}]
  <1>1. /\ parts[r] \in Seq(Receipts \cup {"Err"})
        /\ parts \in [Requests -> Seq(Receipts \cup {"Err"})]
        /\ stage \in [Requests -> {"new", "ws", "rest", "restAwait", "returned", "abandoned"}]
        /\ receipt \in [Requests -> Receipts \cup {"none", "Err"}]
    BY DEF SubmissionTypeOK
  <1>2. /\ Append(parts[r], v) \in Seq(Receipts \cup {"Err"})
        /\ MergeReceipts(op[r], Append(parts[r], v)) \in Receipts \cup {"Err"}
    BY <1>1, MergeType
  <1>3. CASE call[r] < RestCalls(op[r])
    <2>1. /\ parts' = [parts EXCEPT ![r] = Append(@, v)]
          /\ stage' = [stage EXCEPT ![r] = "rest"]
          /\ receipt' = receipt
      BY <1>3 DEF FinishCall
    <2> QED BY <1>1, <1>2, <2>1
  <1>4. CASE ~(call[r] < RestCalls(op[r]))
    <2>1. /\ parts' = parts
          /\ stage' = [stage EXCEPT ![r] = "returned"]
          /\ receipt' = [receipt EXCEPT ![r] = MergeReceipts(op[r], Append(parts[r], v))]
      BY <1>4 DEF FinishCall, Return
    <2> QED BY <1>1, <1>2, <2>1
  <1> QED BY <1>3, <1>4

\* Every step keeps the types of the commands' own state.
LEMMA SubmissionTypeStep ==
    ASSUME SubmissionInv, [Next]_allVars, TypeOK'
    PROVE  SubmissionTypeOK'
  <1> USE SubmissionAssumption
  <1> DEFINE Stages == {"new", "ws", "rest", "restAwait", "returned", "abandoned"}
             Types == /\ op' \in [Requests -> Operations \cup {"none"}]
                      /\ mode' \in [Requests -> {"Auto", "WebSocketOnly"}]
                      /\ stage' \in [Requests -> Stages]
                      /\ call' \in [Requests -> 0 .. MaxCalls]
                      /\ parts' \in [Requests -> Seq(Receipts \cup {"Err"})]
                      /\ restWire' \subseteq Requests \X (1 .. MaxCalls)
                      /\ restReply' \in [Requests -> {"none"} \cup AllReplyKinds]
                      /\ receipt' \in [Requests -> Receipts \cup {"none", "Err"}]
  <1>1. SubmissionTypeOK
    BY DEF SubmissionInv
  <1>2. ASSUME NEW r \in Requests, StartCommand(r) PROVE Types
    <2>1. PICK o \in Operations, m \in {"Auto", "WebSocketOnly"} :
            /\ op' = [op EXCEPT ![r] = o]
            /\ mode' = [mode EXCEPT ![r] = m]
      BY <1>2, Starts
    <2>2. UNCHANGED <<call, parts, restWire, restReply>>
      BY <1>2, Starts
    <2>3. PICK v \in {"Err", "Accepted"} :
             /\ stage' = [stage EXCEPT ![r] = "returned"] \/ stage' = [stage EXCEPT ![r] = "ws"]
                \/ stage' = [stage EXCEPT ![r] = "rest"]
             /\ receipt' = receipt \/ receipt' = [receipt EXCEPT ![r] = v]
      BY <1>2, Starts DEF Refuse, TakeWs, TakeRest, Return
    <2>4. stage' \in [Requests -> Stages]
      BY <1>1, <2>3 DEF SubmissionTypeOK
    <2>5. receipt' \in [Requests -> Receipts \cup {"none", "Err"}]
      BY <1>1, <2>3 DEF SubmissionTypeOK, Receipts
    <2> QED BY <1>1, <2>1, <2>2, <2>4, <2>5 DEF SubmissionTypeOK
  <1>3. ASSUME NEW r \in Requests, CommandStep(r) PROVE Types
    <2>1. CASE WsAnswered(r) \/ WsUncertain(r) \/ WsUnavailable(r) \/ RestNotSent(r)
      <3>1. UNCHANGED <<op, mode, call, parts, restWire, restReply>>
        BY <2>1 DEF WsAnswered, WsUncertain, WsUnavailable, RestNotSent
      <3>2. PICK v \in Receipts \cup {"Err"} :
              \/ Return(r, v)
              \/ stage' = [stage EXCEPT ![r] = "rest"] /\ receipt' = receipt
        BY <2>1, ClassifyType DEF WsAnswered, WsUncertain, WsUnavailable, RestNotSent, Receipts
      <3>3. stage' \in [Requests -> Stages]
        BY <1>1, <3>2 DEF SubmissionTypeOK, Return
      <3>4. receipt' \in [Requests -> Receipts \cup {"none", "Err"}]
        BY <1>1, <3>2 DEF SubmissionTypeOK, Return
      <3> QED BY <1>1, <3>1, <3>3, <3>4 DEF SubmissionTypeOK
    <2>2. CASE SendRest(r)
      <3>1. call[r] \in Nat /\ call[r] < RestCalls(op[r])
        <4>1. call[r] \in 0 .. MaxCalls /\ stage[r] = "rest"
          BY <1>1, <2>2 DEF SendRest, SubmissionTypeOK
        <4>2. Command(r)
          BY DEF SubmissionInv
        <4> QED BY <4>1, <4>2 DEF Command
      <3>2. call[r] + 1 \in 1 .. MaxCalls
        BY <3>1, RestCallsType
      <3>3. call' \in [Requests -> 0 .. MaxCalls]
        BY <1>1, <2>2, <3>2 DEF SendRest, SubmissionTypeOK
      <3>4. restWire' \subseteq Requests \X (1 .. MaxCalls)
        BY <1>1, <2>2, <3>2 DEF SendRest, SubmissionTypeOK
      <3> QED BY <1>1, <2>2, <3>3, <3>4 DEF SendRest, SubmissionTypeOK
    <2>3. CASE RestAnswered(r) \/ RestUncertain(r)
      <3>1. /\ UNCHANGED <<op, mode, call, restWire>>
            /\ restReply' = [restReply EXCEPT ![r] = "none"]
        BY <2>3 DEF RestAnswered, RestUncertain
      <3>2. \/ \E v \in Receipts \cup {"Err"} : FinishCall(r, v)
            \/ Return(r, "Err") /\ parts' = parts
        <4>1. CASE RestAnswered(r)
          <5>1. Classify(restReply[r]) \in Receipts \cup {"Err"}
            BY <1>1, <4>1, ClassifyType DEF RestAnswered, SubmissionTypeOK
          <5> QED BY <4>1, <5>1 DEF RestAnswered
        <4>2. CASE RestUncertain(r)
          BY <4>2 DEF RestUncertain, Receipts
        <4> QED BY <2>3, <4>1, <4>2
      <3>3. /\ parts' \in [Requests -> Seq(Receipts \cup {"Err"})]
            /\ stage' \in [Requests -> Stages]
            /\ receipt' \in [Requests -> Receipts \cup {"none", "Err"}]
        <4>1. CASE \E v \in Receipts \cup {"Err"} : FinishCall(r, v)
          BY <1>1, <4>1, FinishType
        <4>2. CASE Return(r, "Err") /\ parts' = parts
          BY <1>1, <4>2 DEF Return, SubmissionTypeOK
        <4> QED BY <3>2, <4>1, <4>2
      <3> QED BY <1>1, <3>1, <3>3 DEF SubmissionTypeOK
    <2> QED BY <1>3, <2>1, <2>2, <2>3 DEF CommandStep
  <1>4. ASSUME NEW r \in Requests, Abandon(r) PROVE Types
    BY <1>1, <1>4 DEF Abandon, SubmissionTypeOK
  <1>5. ASSUME NEW r \in Requests, NEW c \in 1 .. MaxCalls, NEW kind \in ReplyKinds,
               VenueHandlesRest(r, c, kind)
        PROVE  Types
    <2>1. restReply' \in [Requests -> {"none"} \cup AllReplyKinds]
      BY <1>1, <1>5, TransportAssumption DEF VenueHandlesRest, SubmissionTypeOK
    <2> QED BY <1>1, <1>5, <2>1 DEF VenueHandlesRest, SubmissionTypeOK
  <1>6. ASSUME UNCHANGED submitVars PROVE Types
    BY <1>1, <1>6 DEF submitVars, SubmissionTypeOK
  <1> HIDE DEF Types
  <1>7. UNCHANGED submitVars \/ Next
    BY DEF allVars
  <1>8. Types
    <2>1. CASE Next
      <3>1. CASE \E r \in Requests : StartCommand(r) \/ CommandStep(r) \/ Abandon(r)
        BY <3>1, <1>2, <1>3, <1>4
      <3>2. CASE \E r \in Requests, c \in 1 .. MaxCalls, kind \in ReplyKinds :
                     VenueHandlesRest(r, c, kind)
        BY <3>2, <1>5
      <3>3. CASE TransportStep
        BY <3>3, <1>6 DEF TransportStep
      <3> QED BY <2>1, <3>1, <3>2, <3>3 DEF Next
    <2> QED BY <1>6, <1>7, <2>1
  <1> QED BY <1>8 DEF SubmissionTypeOK, Types

\* A step elsewhere keeps what holds of a command.
LEMMA CommandFramed ==
    ASSUME SubmissionTypeOK, NEW r \in Requests, Command(r), Framed(r), Undisturbed(r)
    PROVE  Command(r)'
  <1>1. call[r] \in 0 .. MaxCalls
    BY DEF SubmissionTypeOK
  <1>2. /\ Travelling(r, 1)' = Travelling(r, 1)
        /\ Travelling(r, 2)' = Travelling(r, 2)
    BY DEF Framed, Travelling
  <1>3. executed'[r] = executed[r] => Effects(r)' = Effects(r)
    BY <1>2 DEF Effects
  <1>4. stage[r] \in {"rest", "restAwait"} \/ call[r] > 0 =>
          Gone(r)' /\ mode'[r] = "Auto" /\ Effects(r)' <= call'[r]
    BY <1>3 DEF Command, Framed, Undisturbed
  <1>5. call[r] = 0 => Verdict(r)'
    BY DEF Command, Undisturbed
  <1>6. pc[r] \in {"idle", "done", "dropped"} => pc'[r] = pc[r]
    BY DEF Undisturbed
  <1> HIDE DEF Effects, Gone, Verdict
  <1> QED BY <1>4, <1>5, <1>6 DEF Command, Framed

\* A fresh request may start on REST: the websocket has nothing of it.
LEMMA FreshIsGone ==
    ASSUME TypeOK, NEW r \in Requests, Fresh(r), Verdict(r), pc[r] \in {"idle", "done"}
    PROVE  Gone(r) /\ executed[r] = 0
  BY DEF Fresh, Verdict, Unseen, Gone

\* A command that starts takes the websocket, REST or neither.
LEMMA CommandStarts ==
    ASSUME SubmissionInv, TransportInv', NEW r \in Requests, StartCommand(r)
    PROVE  Command(r)'
  <1>0. SubmissionTypeOK /\ TransportInv /\ TypeOK /\ Command(r)
    BY DEF SubmissionInv, TransportInv
  <1>1. /\ stage[r] = "new" /\ pc[r] = "idle" /\ call[r] = 0 /\ op[r] = "none" /\ Verdict(r)
        /\ call' = call /\ restWire' = restWire
    BY <1>0, Starts DEF Command
  <1>2. PICK o \in Operations, m \in {"Auto", "WebSocketOnly"} :
                /\ op' = [op EXCEPT ![r] = o]
                /\ mode' = [mode EXCEPT ![r] = m]
                /\ \/ Refuse(r)
                   \/ TakeWs(r)
                   \/ m = "Auto" /\ TakeRest(r)
                   \/ /\ ~KeepsUncertainty(o)
                      /\ Return(r, "Accepted")
                      /\ UNCHANGED vars
    BY Starts
  <1>3. call'[r] = 0 /\ RestCalls(op'[r]) \in {1, 2}
    BY <1>1, RestCallsType
  <1>4. \A c \in 1 .. MaxCalls : <<r, c>> \notin restWire
    BY <1>0, <1>1 DEF Command
  <1>5. mode'[r] = m
    BY <1>0, <1>2 DEF SubmissionTypeOK
  <1>6. Fresh(r)
    BY <1>0, <1>1 DEF TransportInv, FreshInv
  <1>7. Gone(r) /\ executed[r] = 0
    BY <1>0, <1>1, <1>6, FreshIsGone
  <1>8. Verdict(r)'
    <2>1. CASE UNCHANGED vars
      <3>1. Undisturbed(r)
        BY <2>1, UntouchedIsCalm DEF vars, taskVars, callVars, venueVars
      <3> QED BY <1>1, <3>1 DEF Undisturbed
    <2>2. CASE RequestText(r)
      BY <1>0, <1>1, <2>2, VerdictCall
    <2> QED BY <1>2, <2>1, <2>2 DEF Refuse, TakeWs, TakeRest
  <1>9. CASE TakeWs(r)
    <2>1. stage'[r] = "ws"
      BY <1>0, <1>9 DEF TakeWs, SubmissionTypeOK
    <2> QED BY <1>1, <1>3, <1>4, <1>8, <2>1 DEF Command
  <1>10. CASE m = "Auto" /\ TakeRest(r)
    <2>1. stage'[r] = "rest" /\ UNCHANGED vars
      BY <1>0, <1>10 DEF TakeRest, SubmissionTypeOK
    <2>2. Gone(r)'
      BY <1>7, <2>1 DEF Gone, OnWire, vars, taskVars, callVars, venueVars
    <2>3. Effects(r)' <= 0
      BY <1>1, <1>4, <1>7, <2>1 DEF Effects, Travelling, vars, venueVars
    <2> QED BY <1>1, <1>3, <1>4, <1>5, <1>8, <1>10, <2>1, <2>2, <2>3 DEF Command
  <1>11. CASE \/ Refuse(r)
              \/ Return(r, "Accepted") /\ UNCHANGED vars
    <2>1. stage'[r] = "returned" /\ pc' = pc
      BY <1>0, <1>11 DEF Refuse, Return, SubmissionTypeOK, vars, callVars
    <2> QED BY <1>1, <1>3, <1>4, <1>8, <2>1 DEF Command
  <1> QED BY <1>2, <1>9, <1>10, <1>11

\* A command goes from the websocket to REST, from one REST call to the next,
\* or returns.
LEMMA CommandMoves ==
    ASSUME SubmissionInv, NEW r \in Requests, CommandStep(r)
    PROVE  Command(r)'
  <1>0. SubmissionTypeOK /\ TransportInv /\ TypeOK /\ Command(r)
    BY DEF SubmissionInv, TransportInv
  <1>1. UNCHANGED vars
    BY CommandLeavesTransport
  <1>2. Undisturbed(r)
    BY <1>1, UntouchedIsCalm DEF vars, taskVars, callVars, venueVars
  <1>3. /\ Verdict(r) => Verdict(r)'
        /\ Gone(r) => Gone(r)'
        /\ pc'[r] = pc[r] /\ executed'[r] = executed[r]
    BY <1>1, <1>2 DEF Undisturbed, vars, callVars, venueVars
  <1>4. call[r] \in 0 .. MaxCalls /\ RestCalls(op[r]) \in {1, 2} /\ executed[r] \in Nat
    BY <1>0, RestCallsType DEF SubmissionTypeOK, TypeOK
  <1>5. CASE WsAnswered(r) \/ WsUncertain(r) \/ WsUnavailable(r)
    <2>1. /\ stage[r] = "ws" /\ pc[r] = "done" /\ call[r] = 0
          /\ UNCHANGED <<op, mode, call, parts, restWire, restReply>>
      BY <1>0, <1>5 DEF WsAnswered, WsUncertain, WsUnavailable, Command
    <2>2. Verdict(r) /\ \A c \in 1 .. MaxCalls : <<r, c>> \notin restWire
      BY <1>0, <1>4, <2>1 DEF Command
    <2>3. CASE stage'[r] = "returned"
      BY <1>0, <1>3, <1>4, <2>1, <2>2, <2>3 DEF Command
    <2>4. CASE stage'[r] = "rest" /\ outcome[r] = "Unavailable" /\ mode[r] # "WebSocketOnly"
      <3>1. Fresh(r)
        BY <1>0, <2>4 DEF TransportInv, FreshInv
      <3>2. Gone(r) /\ executed[r] = 0
        BY <1>0, <2>1, <2>2, <3>1, FreshIsGone
      <3>3. Effects(r)' = 0
        BY <1>3, <2>1, <2>2, <3>2 DEF Effects, Travelling
      <3>4. mode'[r] = "Auto"
        BY <1>0, <2>1, <2>4 DEF SubmissionTypeOK
      <3>5. Gone(r)' /\ Verdict(r)' /\ call'[r] = 0 /\ op'[r] = op[r] /\ restWire' = restWire
        BY <1>3, <2>1, <2>2, <3>2
      <3> QED BY <1>4, <2>2, <2>4, <3>3, <3>4, <3>5 DEF Command
    <2> QED
      <3>1. stage'[r] = "returned" \/ (stage'[r] = "rest" /\ outcome[r] = "Unavailable"
                                         /\ mode[r] # "WebSocketOnly")
        BY <1>0, <1>5 DEF WsAnswered, WsUncertain, WsUnavailable, Return, SubmissionTypeOK
      <3> QED BY <3>1, <2>3, <2>4
  <1>6. CASE RestNotSent(r) \/ RestAnswered(r) \/ RestUncertain(r)
    <2>1. /\ stage[r] \in {"rest", "restAwait"}
          /\ UNCHANGED <<op, mode, call, restWire>>
      BY <1>6 DEF RestNotSent, RestAnswered, RestUncertain
    <2>2. stage'[r] = "returned" \/ (stage'[r] = "rest" /\ call[r] < RestCalls(op[r]))
      BY <1>0, <1>6 DEF RestNotSent, RestAnswered, RestUncertain, FinishCall, Return,
         SubmissionTypeOK
    <2>3. Effects(r)' = Effects(r)
      BY <1>3, <2>1 DEF Effects, Travelling
    <2>4. Gone(r) /\ mode[r] = "Auto" /\ Effects(r) <= call[r]
      BY <1>0, <2>1 DEF Command
    <2>5. pc[r] \in {"idle", "done", "dropped"}
      BY <2>4 DEF Gone
    <2>6. (call[r] = 0 => Verdict(r)') /\ Gone(r)'
      BY <1>0, <1>3, <2>4 DEF Command
    <2>7. /\ \A c \in 1 .. MaxCalls : <<r, c>> \in restWire' => c <= call'[r]
          /\ call'[r] <= RestCalls(op'[r])
          /\ call'[r] = call[r] /\ mode'[r] = "Auto" /\ op'[r] = op[r]
      BY <1>0, <2>1, <2>4 DEF Command
    <2>8. Effects(r)' <= call'[r]
      BY <2>3, <2>4, <2>7
    <2> QED BY <1>3, <2>2, <2>5, <2>6, <2>7, <2>8 DEF Command
  <1>7. CASE SendRest(r)
    <2>1. /\ stage[r] = "rest" /\ stage'[r] = "restAwait" /\ call'[r] = call[r] + 1
          /\ restWire' = restWire \cup {<<r, call[r] + 1>>}
          /\ UNCHANGED <<op, mode>>
      BY <1>0, <1>7 DEF SendRest, SubmissionTypeOK
    <2>2. /\ Gone(r) /\ mode[r] = "Auto" /\ Effects(r) <= call[r] /\ call[r] < RestCalls(op[r])
          /\ \A c \in 1 .. MaxCalls : <<r, c>> \in restWire => c <= call[r]
      BY <1>0, <2>1 DEF Command
    <2>3. call[r] \in {0, 1}
      BY <1>4, <2>2
    <2>4. /\ \A c \in 1 .. MaxCalls : <<r, c>> \in restWire' => <<r, c>> \in restWire \/ c = call[r] + 1
      BY <2>1
    <2>5. Effects(r)' <= call'[r]
      <3>1. CASE call[r] = 0
        <4>1. <<r, 1>> \notin restWire /\ <<r, 2>> \notin restWire /\ <<r, 2>> \notin restWire'
          BY <2>2, <2>4, <3>1
        <4> QED BY <1>3, <1>4, <2>1, <2>2, <3>1, <4>1 DEF Effects, Travelling
      <3>2. CASE call[r] = 1
        <4>1. <<r, 2>> \notin restWire /\ (<<r, 1>> \in restWire' <=> <<r, 1>> \in restWire)
          BY <2>1, <2>2, <3>2
        <4> QED BY <1>3, <1>4, <2>1, <2>2, <3>2, <4>1 DEF Effects, Travelling
      <3> QED BY <2>3, <3>1, <3>2
    <2>6. \A c \in 1 .. MaxCalls : <<r, c>> \in restWire' => c <= call'[r]
      BY <2>1, <2>2, <2>3, <2>4
    <2>7. call'[r] > 0 /\ call'[r] <= RestCalls(op'[r]) /\ mode'[r] = "Auto" /\ Gone(r)'
      BY <1>3, <1>4, <2>1, <2>2
    <2> QED BY <2>1, <2>5, <2>6, <2>7 DEF Command
  <1> QED BY <1>5, <1>6, <1>7 DEF CommandStep

\* The caller drops its command: the call on the websocket is dropped, or the
\* REST call is left alone.
LEMMA CommandAbandoned ==
    ASSUME SubmissionInv, NEW r \in Requests, Abandon(r)
    PROVE  Command(r)'
  <1>0. SubmissionTypeOK /\ TransportInv /\ TypeOK /\ Command(r)
    BY DEF SubmissionInv, TransportInv
  <1>1. stage'[r] = "abandoned" /\ UNCHANGED <<op, mode, call, restWire>>
    BY <1>0 DEF Abandon, SubmissionTypeOK
  <1>2. CASE stage[r] = "ws" /\ DropCall(r)
    <2>1. call[r] = 0 /\ Verdict(r)
      BY <1>0, <1>2 DEF Command
    <2>2. Verdict(r)'
      BY <1>0, <1>2, <2>1, VerdictCall
    <2>3. pc'[r] = "dropped"
      BY <1>0, <1>2 DEF DropCall, TypeOK
    <2> QED BY <1>0, <1>1, <2>1, <2>2, <2>3 DEF Command
  <1>3. CASE stage[r] = "restAwait" /\ UNCHANGED vars
    <2>1. Undisturbed(r) /\ executed' = executed /\ pc' = pc
      BY <1>3, UntouchedIsCalm DEF vars, taskVars, callVars, venueVars
    <2>2. Gone(r) /\ mode[r] = "Auto" /\ Effects(r) <= call[r]
      BY <1>0, <1>3 DEF Command
    <2>3. Gone(r)' /\ pc[r] \in {"idle", "done", "dropped"} /\ (call[r] = 0 => Verdict(r)')
      BY <1>0, <2>1, <2>2 DEF Undisturbed, Gone, Command
    <2>4. Effects(r)' = Effects(r)
      BY <1>1, <2>1 DEF Effects, Travelling
    <2> QED BY <1>0, <1>1, <2>1, <2>2, <2>3, <2>4 DEF Command
  <1> QED BY <1>2, <1>3 DEF Abandon

\* The venue handles a REST call: what was on its way has its effect.
LEMMA CommandHandled ==
    ASSUME SubmissionInv, NEW r \in Requests, NEW c \in 1 .. MaxCalls, NEW kind \in ReplyKinds,
           VenueHandlesRest(r, c, kind)
    PROVE  Command(r)'
  <1>0. SubmissionTypeOK /\ TransportInv /\ TypeOK /\ Command(r)
    BY DEF SubmissionInv, TransportInv
  <1>1. UNCHANGED <<pc, queue, wire, op, mode, stage, call>>
    BY DEF VenueHandlesRest, taskVars, callVars
  <1>2. <<r, c>> \in restWire /\ restWire' = restWire \ {<<r, c>>}
    BY DEF VenueHandlesRest
  <1>3. PICK effect \in {0, 1} : executed' = [executed EXCEPT ![r] = @ + effect]
    BY DEF VenueHandlesRest
  <1>4. executed[r] \in Nat /\ executed'[r] = executed[r] + effect /\ call[r] \in 0 .. 2
    BY <1>0, <1>3 DEF TypeOK, SubmissionTypeOK
  <1>5. c <= call[r] /\ call[r] > 0
    BY <1>0, <1>2, <1>4 DEF Command
  <1>6. Gone(r) /\ mode[r] = "Auto" /\ Effects(r) <= call[r]
    BY <1>0, <1>5 DEF Command
  <1>7. Effects(r)' <= call[r]
    <2>1. CASE c = 1
      <3>1. Travelling(r, 1) = 1 /\ Travelling(r, 1)' = 0 /\ Travelling(r, 2)' = Travelling(r, 2)
        BY <1>2, <2>1 DEF Travelling
      <3> QED BY <1>4, <1>6, <3>1 DEF Effects, Travelling
    <2>2. CASE c = 2
      <3>1. Travelling(r, 2) = 1 /\ Travelling(r, 2)' = 0 /\ Travelling(r, 1)' = Travelling(r, 1)
        BY <1>2, <2>2 DEF Travelling
      <3> QED BY <1>4, <1>6, <3>1 DEF Effects, Travelling
    <2> QED BY <2>1, <2>2
  <1>8. Gone(r)'
    BY <1>1, <1>6 DEF Gone, OnWire
  <1>9. \A d \in 1 .. MaxCalls : <<r, d>> \in restWire' => d <= call[r]
    BY <1>0, <1>2 DEF Command
  <1> QED BY <1>0, <1>1, <1>4, <1>5, <1>6, <1>7, <1>8, <1>9 DEF Command

\* Every step is framed and calm for a command, or one of its own.
LEMMA StepOf ==
    ASSUME SubmissionTypeOK, TransportInv, [Next]_allVars, NEW r \in Requests
    PROVE  \/ Framed(r) /\ Undisturbed(r)
           \/ StartCommand(r)
           \/ CommandStep(r)
           \/ Abandon(r)
           \/ \E c \in 1 .. MaxCalls, kind \in ReplyKinds : VenueHandlesRest(r, c, kind)
  <1>1. CASE UNCHANGED allVars
    <2>1. Framed(r)
      BY <1>1 DEF allVars, submitVars, Framed
    <2>2. Undisturbed(r)
      BY <1>1, UntouchedIsCalm DEF allVars, vars, taskVars, callVars, venueVars
    <2> QED BY <2>1, <2>2
  <1>2. CASE TransportStep
    <2>1. Framed(r)
      BY <1>2 DEF TransportStep, submitVars, Framed
    <2>2. Undisturbed(r)
      BY <1>2, ElsewhereIsCalm DEF TransportStep, Elsewhere
    <2> QED BY <2>1, <2>2
  <1>3. ASSUME NEW x \in Requests, x # r,
               \/ StartCommand(x) \/ CommandStep(x) \/ Abandon(x)
               \/ \E c \in 1 .. MaxCalls, kind \in ReplyKinds : VenueHandlesRest(x, c, kind)
        PROVE  Framed(r) /\ Undisturbed(r)
    BY <1>3, OthersAreFramed
  <1> QED BY <1>1, <1>2, <1>3 DEF Next

\* The invariant holds initially.
LEMMA SubmissionInvInit == Init => SubmissionInv
  <1> SUFFICES ASSUME Init PROVE SubmissionInv
    OBVIOUS
  <1>1. TransportInit /\ TransportInv /\ TypeOK
    BY InvInit DEF Init, TransportInv
  <1>2. SubmissionTypeOK
    BY <1>1, SubmissionAssumption DEF Init, SubmissionTypeOK
  <1>3. ASSUME NEW r \in Requests PROVE Command(r)
    <2>1. Verdict(r)
      BY <1>1, VerdictInit
    <2>2. RestCalls(op[r]) \in {1, 2}
      BY RestCallsType
    <2>3. /\ stage[r] = "new" /\ pc[r] = "idle" /\ op[r] = "none" /\ call[r] = 0
          /\ restWire = {}
      BY <1>1 DEF Init, TransportInit
    <2> QED BY <2>1, <2>2, <2>3 DEF Command
  <1> QED BY <1>1, <1>2, <1>3 DEF SubmissionInv

\* Every step keeps the invariant.
LEMMA SubmissionInvStep == SubmissionInv /\ [Next]_allVars => SubmissionInv'
  <1> SUFFICES ASSUME SubmissionInv, [Next]_allVars PROVE SubmissionInv'
    OBVIOUS
  <1>1. SubmissionTypeOK /\ TransportInv /\ \A r \in Requests : Command(r)
    BY DEF SubmissionInv
  <1>2. TransportInv'
    BY <1>1, TransportInvKept
  <1>3. SubmissionTypeOK'
    BY <1>2, SubmissionTypeStep DEF TransportInv
  <1>4. ASSUME NEW r \in Requests PROVE Command(r)'
    <2>1. CASE Framed(r) /\ Undisturbed(r)
      BY <1>1, <2>1, CommandFramed
    <2>2. CASE \E c \in 1 .. MaxCalls, kind \in ReplyKinds : VenueHandlesRest(r, c, kind)
      BY <2>2, CommandHandled
    <2> QED BY <1>1, <1>2, <2>1, <2>2, StepOf, CommandStarts, CommandMoves, CommandAbandoned
  <1> QED BY <1>2, <1>3, <1>4 DEF SubmissionInv

\* For any number of commands, sessions, failures and timeouts, a command
\* uses one route at a time and its effects never outnumber its calls.
THEOREM SubmissionInvariant == Spec => []SubmissionInv
  BY SubmissionInvInit, SubmissionInvStep, PTL DEF Spec

\* Every variable of the composed system keeps its type.
THEOREM SubmissionTypes == Spec => []SubmissionTypeOK
  <1>1. SubmissionInv => SubmissionTypeOK
    BY DEF SubmissionInv
  <1> QED BY <1>1, SubmissionInvariant, PTL

\* The venue carries no command out twice: not through the second session,
\* not through the REST fallback and not through a frame left in a channel.
THEOREM NoCommandRunsTwice == Spec => []ExecutedAtMostOnce
  <1>1. SubmissionInv => ExecutedAtMostOnce
    <2> SUFFICES ASSUME SubmissionInv, NEW r \in Requests
                 PROVE  executed[r] <= RestCalls(op[r])
      BY DEF ExecutedAtMostOnce
    <2>1. Command(r) /\ executed[r] \in Nat /\ call[r] \in 0 .. MaxCalls
      BY DEF SubmissionInv, SubmissionTypeOK, TypeOK
    <2>2. RestCalls(op[r]) \in {1, 2}
      BY RestCallsType
    <2>3. CASE call[r] = 0
      <3>1. executed[r] <= 1
        BY <2>1, <2>3 DEF Command, Verdict
      <3> QED BY <2>1, <2>2, <3>1
    <2>4. CASE call[r] > 0
      <3>1. Effects(r) <= call[r] /\ call[r] <= RestCalls(op[r])
        BY <2>1, <2>4 DEF Command
      <3>2. executed[r] <= call[r]
        BY <2>1, <3>1 DEF Effects, Travelling
      <3> QED BY <2>1, <2>2, <3>1, <3>2
    <2> QED BY <2>1, <2>3, <2>4
  <1> QED BY <1>1, SubmissionInvariant, PTL

\* A websocket-only command never makes a REST call.
THEOREM WebSocketOnlyStaysOnWebSocket == Spec => []WebSocketOnlyNeverRest
  <1>1. SubmissionInv => WebSocketOnlyNeverRest
    <2> SUFFICES ASSUME SubmissionInv, NEW r \in Requests, mode[r] = "WebSocketOnly"
                 PROVE  call[r] = 0
      BY DEF WebSocketOnlyNeverRest
    <2>1. Command(r) /\ call[r] \in 0 .. MaxCalls
      BY DEF SubmissionInv, SubmissionTypeOK
    <2> QED BY <2>1 DEF Command
  <1> QED BY <1>1, SubmissionInvariant, PTL

----------------------------------------------------------------------------
(* Receipts.                                                               *)

\* What Certain says of a command stays true when nothing happens to it.
LEMMA CertainFramed ==
    ASSUME SubmissionInv, NEW r \in Requests, Certain(r), Framed(r), Undisturbed(r)
    PROVE  Certain(r)'
  <1>1. Command(r) /\ call[r] \in 0 .. MaxCalls
    BY DEF SubmissionInv, SubmissionTypeOK
  <1>2. InFlight(r) <=> \/ OnWire(r)
                        \/ \E s \in Sessions : r \in Members(queue[s])
                        \/ \E c \in 1 .. MaxCalls : <<r, c>> \in restWire
    BY DEF InFlight, OnWire
  <1>3. InFlight(r)' <=> \/ OnWire(r)'
                         \/ \E s \in Sessions : r \in Members(queue'[s])
                         \/ \E c \in 1 .. MaxCalls : <<r, c>> \in restWire'
    BY DEF InFlight, OnWire
  <1>4. CASE receipt[r] \in {"Accepted", "Rejected", "Err"}
    <2>1. stage[r] = "returned" /\ Proven(r) /\ ~InFlight(r)
      BY <1>4 DEF Certain
    <2>2. Gone(r)
      BY <1>1, <1>2, <2>1 DEF Command, Gone
    <2>3. Gone(r)' /\ executed'[r] = executed[r]
      BY <2>2 DEF Undisturbed
    <2>4. ~InFlight(r)'
      BY <1>2, <1>3, <2>1, <2>3 DEF Framed, Gone
    <2>5. Proven(r)'
      BY <2>1, <2>3, <2>4 DEF Proven, Framed
    <2>6. restReply[r] = "none"
      BY <2>1 DEF Certain
    <2> QED BY <1>4, <2>1, <2>4, <2>5, <2>6 DEF Certain, Framed
  <1>5. CASE receipt[r] \notin {"Accepted", "Rejected", "Err"} /\ restReply[r] # "none"
    <2>1. stage[r] = "restAwait"
      BY <1>5 DEF Certain
    <2>2. executed'[r] = executed[r]
      BY <1>1, <2>1 DEF Command, Undisturbed
    <2> QED BY <1>5, <2>2 DEF Certain, Framed
  <1>6. CASE receipt[r] \notin {"Accepted", "Rejected", "Err"} /\ restReply[r] = "none"
    BY <1>6 DEF Certain, Framed
  <1> QED BY <1>4, <1>5, <1>6

\* Nothing is in flight for a fresh request that is not on REST.
LEMMA FreshIsProven ==
    ASSUME TypeOK, NEW r \in Requests, Fresh(r), Verdict(r),
           \A c \in 1 .. MaxCalls : <<r, c>> \notin restWire
    PROVE  executed[r] = 0 /\ ~InFlight(r)
  <1>1. executed[r] = 0 /\ ~OnWire(r)
    BY DEF Fresh, Verdict, Unseen
  <1>2. \A s \in Sessions : r \notin Members(queue[s])
    BY DEF Fresh
  <1> QED BY <1>1, <1>2 DEF InFlight, OnWire

\* A command that starts has no receipt, or was refused before it was sent.
LEMMA CertainStarts ==
    ASSUME SubmissionInv, NEW r \in Requests, Certain(r), StartCommand(r),
           KeepsUncertainty(op'[r])
    PROVE  Certain(r)'
  <1>0. SubmissionTypeOK /\ TransportInv /\ TypeOK /\ Command(r)
    BY DEF SubmissionInv, TransportInv
  <1>1. /\ stage[r] = "new" /\ pc[r] = "idle" /\ call[r] = 0 /\ Verdict(r)
        /\ \A c \in 1 .. MaxCalls : <<r, c>> \notin restWire
        /\ UNCHANGED <<call, parts, restWire, restReply>>
    BY <1>0, Starts DEF Command
  <1>2. receipt[r] = "none" /\ restReply[r] = "none" /\ parts[r] = << >>
    BY <1>1 DEF Certain
  <1>3. Fresh(r)
    BY <1>0, <1>1 DEF TransportInv, FreshInv
  <1>4. executed[r] = 0 /\ ~InFlight(r)
    BY <1>0, <1>1, <1>3, FreshIsProven
  <1>5. CASE Refuse(r)
    <2>1. stage'[r] = "returned" /\ receipt'[r] = "Err" /\ UNCHANGED vars
      BY <1>0, <1>5 DEF Refuse, SubmissionTypeOK
    <2>2. executed'[r] = 0 /\ ~InFlight(r)'
      BY <1>1, <1>4, <2>1 DEF InFlight, vars, taskVars, venueVars
    <2>3. Proven(r)'
      BY <2>1, <2>2 DEF Proven
    <2> QED BY <1>1, <1>2, <2>1, <2>2, <2>3 DEF Certain
  <1>6. CASE TakeWs(r) \/ TakeRest(r)
    BY <1>1, <1>2, <1>6 DEF TakeWs, TakeRest, Certain
  <1>7. \/ Refuse(r) \/ TakeWs(r) \/ TakeRest(r)
    <2>1. PICK o \in Operations, m \in {"Auto", "WebSocketOnly"} :
                /\ op' = [op EXCEPT ![r] = o]
                /\ \/ Refuse(r)
                   \/ TakeWs(r)
                   \/ m = "Auto" /\ TakeRest(r)
                   \/ ~KeepsUncertainty(o)
      BY Starts
    <2>2. op'[r] = o
      BY <1>0, <2>1 DEF SubmissionTypeOK
    <2> QED BY <2>1, <2>2
  <1> QED BY <1>5, <1>6, <1>7

\* One call's receipt is the command's receipt.
LEMMA MergeOne ==
    ASSUME NEW o, KeepsUncertainty(o), NEW v \in Receipts
    PROVE  MergeReceipts(o, Append(<< >>, v)) = v
  <1>1. Append(<< >>, v) = <<v>>
    OBVIOUS
  <1>2. Members(<<v>>) = {v}
    BY DEF Members
  <1> QED BY <1>1, <1>2 DEF MergeReceipts, LooksAtBodiesLast, KeepsUncertainty, Receipts

\* A command that returns v has nothing in flight and knows its effect.
LEMMA CertainReturns ==
    ASSUME SubmissionTypeOK, NEW r \in Requests, Certain(r),
           NEW v \in Receipts \cup {"Err"}, Return(r, v),
           UNCHANGED <<op, restWire>>, UNCHANGED vars,
           parts' = parts, restReply'[r] = "none", ~InFlight(r),
           v = "Accepted" => executed[r] = RestCalls(op[r]),
           v \in {"Rejected", "Err"} => executed[r] = 0
    PROVE  Certain(r)'
  <1>1. stage'[r] = "returned" /\ receipt'[r] = v
    BY DEF Return, SubmissionTypeOK
  <1>2. executed' = executed /\ ~InFlight(r)'
    BY DEF InFlight, vars, taskVars, venueVars
  <1>3. Proven(r)'
    BY <1>1, <1>2 DEF Proven
  <1> QED BY <1>1, <1>2, <1>3 DEF Certain

\* A command that returns UnknownExecution claims nothing.
LEMMA CertainUnknown ==
    ASSUME SubmissionTypeOK, NEW r \in Requests, Certain(r), Return(r, "UnknownExecution"),
           parts' = parts, restReply'[r] = "none"
    PROVE  Certain(r)'
  <1>1. stage'[r] = "returned" /\ receipt'[r] = "UnknownExecution"
    BY DEF Return, SubmissionTypeOK
  <1> QED BY <1>1 DEF Certain

\* A command concludes from an answer, a failure or a timeout only what they
\* prove.
LEMMA CertainMoves ==
    ASSUME SubmissionInv, NEW r \in Requests, Certain(r), KnownAnswers(r), CommandStep(r),
           KeepsUncertainty(op[r]), RestCalls(op[r]) = 1, "garbled" \notin ReplyKinds
    PROVE  Certain(r)'
  <1>0. SubmissionTypeOK /\ TransportInv /\ TypeOK /\ Command(r)
    BY DEF SubmissionInv, TransportInv
  <1>1. UNCHANGED vars
    BY CommandLeavesTransport
  <1>2. call[r] \in 0 .. MaxCalls /\ executed[r] \in Nat
    BY <1>0 DEF SubmissionTypeOK, TypeOK
  <1>3. ASSUME stage[r] = "ws"
        PROVE  /\ call[r] = 0 /\ Verdict(r) /\ restReply[r] = "none"
               /\ \A c \in 1 .. MaxCalls : <<r, c>> \notin restWire
    BY <1>0, <1>2, <1>3 DEF Command, Certain
  <1>4. CASE WsAnswered(r)
    <2>1. /\ stage[r] = "ws" /\ outcome[r] \in AllReplyKinds /\ Return(r, Classify(outcome[r]))
          /\ UNCHANGED <<op, parts, restWire, restReply>>
      BY <1>4 DEF WsAnswered
    <2>2. Answer(r, outcome[r])
      BY DEF Answer
    <2>3. outcome[r] # "garbled"
      BY <2>1, <2>2 DEF KnownAnswers
    <2>4. ~Unseen(r)
      BY <2>1, <2>2 DEF Unseen
    <2>5. ~OnWire(r) /\ written[r] # 0
      BY <1>3, <2>1, <2>4 DEF Verdict
    <2>6. written[r] = 1
      <3>1. written[r] \in Nat /\ written[r] <= 1
        BY <1>0 DEF TransportInv, TypeOK, WrittenAtMostOnce
      <3> QED BY <2>5, <3>1
    <2>7. \A s \in Sessions : r \notin Members(queue[s])
      BY <1>0, <2>6 DEF TransportInv, WrittenAtMostOnce
    <2>8. ~InFlight(r)
      BY <1>3, <2>1, <2>5, <2>7 DEF InFlight, OnWire
    <2>9. /\ outcome[r] = "accept" => executed[r] = 1
          /\ outcome[r] = "reject" => executed[r] = 0
      BY <1>3, <2>1, <2>2 DEF Verdict
    <2>10. /\ Classify(outcome[r]) \in Receipts \cup {"Err"}
           /\ Classify(outcome[r]) # "Err"
           /\ Classify(outcome[r]) = "Accepted" => outcome[r] = "accept"
           /\ Classify(outcome[r]) = "Rejected" => outcome[r] = "reject"
      BY <2>1, <2>3, ClassifyType
    <2>11. restReply'[r] = "none" /\ parts' = parts /\ UNCHANGED <<op, restWire>>
      BY <1>3, <2>1
    <2> QED BY <1>0, <1>1, <2>1, <2>8, <2>9, <2>10, <2>11, CertainReturns
  <1>5. CASE WsUncertain(r)
    <2>1. /\ stage[r] = "ws" /\ Return(r, "UnknownExecution")
          /\ UNCHANGED <<parts, restReply>>
      BY <1>5 DEF WsUncertain
    <2> QED BY <1>0, <1>3, <2>1, CertainUnknown
  <1>6. CASE WsUnavailable(r)
    <2>1. /\ stage[r] = "ws" /\ outcome[r] = "Unavailable"
          /\ UNCHANGED <<op, parts, restWire, restReply>>
      BY <1>6 DEF WsUnavailable
    <2>2. Fresh(r)
      BY <1>0, <2>1 DEF TransportInv, FreshInv
    <2>3. executed[r] = 0 /\ ~InFlight(r)
      BY <1>0, <1>3, <2>1, <2>2, FreshIsProven
    <2>4. CASE Return(r, "Err")
      BY <1>0, <1>1, <1>3, <2>1, <2>3, <2>4, CertainReturns
    <2>5. CASE stage' = [stage EXCEPT ![r] = "rest"] /\ receipt' = receipt
      <3>1. receipt[r] = "none" /\ stage'[r] = "rest"
        BY <1>0, <2>1, <2>5 DEF Certain, SubmissionTypeOK
      <3> QED BY <1>3, <2>1, <2>5, <3>1 DEF Certain
    <2> QED BY <1>6, <2>4, <2>5 DEF WsUnavailable
  <1>7. ASSUME stage[r] \in {"rest", "restAwait"}
        PROVE  /\ Gone(r) /\ receipt[r] = "none"
               /\ (\A c \in 1 .. MaxCalls : <<r, c>> \notin restWire) => ~InFlight(r)
    <2>1. Gone(r) /\ receipt[r] = "none"
      BY <1>0, <1>7 DEF Command, Certain
    <2> QED BY <2>1 DEF Gone, InFlight, OnWire
  <1>8. CASE RestNotSent(r)
    <2>1. /\ stage[r] = "rest" /\ call[r] = 0 /\ Return(r, "Err")
          /\ UNCHANGED <<op, parts, restWire, restReply>>
      BY <1>8 DEF RestNotSent
    <2>2. Effects(r) <= 0 /\ \A c \in 1 .. MaxCalls : <<r, c>> \notin restWire
      BY <1>0, <2>1 DEF Command
    <2>3. executed[r] = 0
      BY <1>2, <2>2 DEF Effects, Travelling
    <2>4. restReply[r] = "none"
      BY <2>1 DEF Certain
    <2> QED BY <1>0, <1>1, <1>7, <2>1, <2>2, <2>3, <2>4, CertainReturns
  <1>9. CASE SendRest(r)
    <2>1. /\ stage[r] = "rest" /\ stage'[r] = "restAwait"
          /\ UNCHANGED <<parts, restReply, receipt>>
      BY <1>0, <1>9 DEF SendRest, SubmissionTypeOK
    <2>2. restReply[r] = "none" /\ receipt[r] = "none"
      BY <2>1 DEF Certain
    <2> QED BY <2>1, <2>2 DEF Certain
  <1>10. ASSUME stage[r] = "restAwait", NEW v \in Receipts, FinishCall(r, v)
         PROVE  Return(r, v) /\ parts' = parts
    <2>1. ~(call[r] < RestCalls(op[r]))
      BY <1>0, <1>2, <1>10 DEF Command
    <2>2. parts[r] = << >>
      BY DEF Certain
    <2>3. MergeReceipts(op[r], Append(parts[r], v)) = v
      BY <1>10, <2>2, MergeOne
    <2> QED BY <1>10, <2>1, <2>3 DEF FinishCall
  <1>11. CASE RestAnswered(r)
    <2> DEFINE k == restReply[r]
    <2>1. /\ stage[r] = "restAwait" /\ k # "none"
          /\ UNCHANGED <<op, restWire>>
          /\ restReply' = [restReply EXCEPT ![r] = "none"]
      BY <1>11 DEF RestAnswered
    <2>2. k \in ReplyKinds /\ k \in AllReplyKinds /\ k # "garbled"
      BY <2>1, TransportAssumption DEF Certain
    <2>3. k \in {"accept", "reject"}
      BY <2>2 DEF AllReplyKinds
    <2>4. /\ k = "accept" => executed[r] = 1
          /\ k = "reject" => executed[r] = 0
          /\ ~InFlight(r)
      BY <1>7, <2>1 DEF Certain
    <2>5. restReply'[r] = "none"
      BY <1>0, <2>1 DEF SubmissionTypeOK
    <2>6. ~LooksAtBodiesLast(op[r])
      BY DEF LooksAtBodiesLast, KeepsUncertainty
    <2>7. /\ Classify(k) \in Receipts
          /\ Classify(k) = "Accepted" => k = "accept"
          /\ Classify(k) = "Rejected" => k = "reject"
          /\ Classify(k) # "Err"
      BY <2>3 DEF Classify, Receipts
    <2>8. \/ FinishCall(r, Classify(k))
          \/ k # "accept" /\ Return(r, "Err") /\ parts' = parts
      BY <1>11, <2>6 DEF RestAnswered
    <2> HIDE DEF k
    <2>9. CASE FinishCall(r, Classify(k))
      <3>1. Return(r, Classify(k)) /\ parts' = parts
        BY <1>10, <2>1, <2>7, <2>9
      <3> QED BY <1>0, <1>1, <2>1, <2>4, <2>5, <2>7, <3>1, CertainReturns
    <2>10. CASE k # "accept" /\ Return(r, "Err") /\ parts' = parts
      <3>1. executed[r] = 0
        BY <2>3, <2>4, <2>10
      <3> QED BY <1>0, <1>1, <2>1, <2>4, <2>5, <2>10, <3>1, CertainReturns
    <2> QED BY <2>8, <2>9, <2>10
  <1>12. CASE RestUncertain(r)
    <2>1. /\ stage[r] = "restAwait"
          /\ FinishCall(r, "UnknownExecution")
          /\ restReply' = [restReply EXCEPT ![r] = "none"]
      BY <1>12 DEF RestUncertain
    <2>2. Return(r, "UnknownExecution") /\ parts' = parts
      BY <1>10, <2>1 DEF Receipts
    <2>3. restReply'[r] = "none"
      BY <1>0, <2>1 DEF SubmissionTypeOK
    <2> QED BY <1>0, <2>2, <2>3, CertainUnknown
  <1> QED BY <1>4, <1>5, <1>6, <1>8, <1>9, <1>11, <1>12 DEF CommandStep

\* The venue's handling of the only REST call settles what the command may
\* conclude, if it still waits.
LEMMA CertainHandled ==
    ASSUME SubmissionInv, NEW r \in Requests, Certain(r), RestCalls(op[r]) = 1,
           NEW c \in 1 .. MaxCalls, NEW kind \in ReplyKinds, VenueHandlesRest(r, c, kind)
    PROVE  Certain(r)'
  <1>0. SubmissionTypeOK /\ TransportInv /\ TypeOK /\ Command(r)
    BY DEF SubmissionInv, TransportInv
  <1>1. /\ <<r, c>> \in restWire /\ restWire' = restWire \ {<<r, c>>}
        /\ UNCHANGED <<stage, call, parts, receipt>>
    BY DEF VenueHandlesRest
  <1>2. receipt[r] \notin {"Accepted", "Rejected", "Err"} /\ restReply[r] = "none"
    BY <1>1 DEF Certain, InFlight
  <1>3. CASE stage[r] # "restAwait"
    <2>1. restReply' = restReply
      BY <1>3 DEF VenueHandlesRest
    <2> QED BY <1>1, <1>2, <2>1 DEF Certain
  <1>4. CASE stage[r] = "restAwait"
    <2>1. call[r] \in 0 .. MaxCalls /\ executed[r] \in Nat
      BY <1>0 DEF SubmissionTypeOK, TypeOK
    <2>2. c <= call[r] /\ call[r] <= 1
      BY <1>0, <1>1 DEF Command
    <2>3. c = 1 /\ call[r] = 1
      BY <2>1, <2>2
    <2>4. restReply'[r] = kind
      BY <1>0, <1>4, <2>3 DEF VenueHandlesRest, SubmissionTypeOK
    <2>5. Effects(r) <= 1 /\ \A d \in 1 .. MaxCalls : <<r, d>> \in restWire => d = 1
      BY <1>0, <1>4, <2>3 DEF Command
    <2>6. executed[r] = 0
      BY <1>1, <2>1, <2>3, <2>5 DEF Effects, Travelling
    <2>7. \A d \in 1 .. MaxCalls : <<r, d>> \notin restWire'
      BY <1>1, <2>3, <2>5
    <2>8. PICK effect \in CASE kind = "accept" -> {1}
                            [] kind = "reject" -> {0}
                            [] OTHER -> {0, 1} :
             executed' = [executed EXCEPT ![r] = @ + effect]
      BY DEF VenueHandlesRest
    <2>9. effect \in {0, 1} /\ (kind = "accept" => effect = 1) /\ (kind = "reject" => effect = 0)
      BY <2>8
    <2>10. executed'[r] = effect
      BY <1>0, <2>6, <2>8, <2>9 DEF TypeOK
    <2>11. receipt'[r] = "none" /\ stage'[r] = "restAwait" /\ parts'[r] = << >>
      BY <1>1, <1>4 DEF Certain
    <2> QED BY <2>4, <2>7, <2>9, <2>10, <2>11 DEF Certain
  <1> QED BY <1>3, <1>4

\* Orders and, on Binance and Bybit, account settings: if every reply can be
\* decoded, a receipt other than UnknownExecution tells what the venue did.
\* (With an undecodable reply, or with two REST calls of which one fails, the
\* code's receipt says more than it knows.)
THEOREM ReceiptsAreProof ==
    ASSUME SingleCalls, "garbled" \notin ReplyKinds
    PROVE  Spec => []ReceiptIsProof
  <1>1. Init => ReceiptInv
    <2> SUFFICES ASSUME Init, NEW r \in Requests PROVE KnownAnswers(r) /\ Certain(r)
      BY DEF ReceiptInv
    <2>1. KnownAnswers(r)
      BY DEF Init, TransportInit, KnownAnswers, Answer, AllReplyKinds
    <2> QED BY <2>1 DEF Init, Certain
  <1>2. SubmissionInv /\ ReceiptInv /\ [Next]_allVars => ReceiptInv'
    <2> SUFFICES ASSUME SubmissionInv, ReceiptInv, [Next]_allVars, NEW r \in Requests
                 PROVE  KnownAnswers(r)' /\ (KeepsUncertainty(op'[r]) => Certain(r)')
      BY DEF ReceiptInv
    <2>0. SubmissionTypeOK /\ TransportInv /\ TypeOK /\ Command(r) /\ KnownAnswers(r)
      BY DEF SubmissionInv, TransportInv, ReceiptInv
    <2>1. KeepsUncertainty(op[r]) => Certain(r) /\ RestCalls(op[r]) = 1
      <3>1. op[r] \in Operations \cup {"none"}
        BY <2>0 DEF SubmissionTypeOK
      <3>2. RestCalls("none") = 1
        BY DEF RestCalls
      <3> QED BY <3>1, <3>2 DEF ReceiptInv, SingleCalls
    <2>2. CASE Framed(r) /\ Undisturbed(r)
      <3>1. KnownAnswers(r)' /\ op'[r] = op[r]
        BY <2>0, <2>2 DEF Undisturbed, Framed
      <3> QED BY <2>1, <2>2, <3>1, CertainFramed
    <2>3. CASE StartCommand(r)
      <3>1. UNCHANGED vars \/ RequestText(r)
        BY <2>3, Starts DEF Refuse, TakeWs, TakeRest
      <3>2. \A kind \in AllReplyKinds : Answer(r, kind)' => Answer(r, kind)
        <4>1. CASE UNCHANGED vars
          BY <4>1 DEF Answer, vars, callVars, venueVars
        <4>2. CASE RequestText(r)
          BY <2>0, <4>2, CallAnswers
        <4> QED BY <3>1, <4>1, <4>2
      <3>3. op[r] = "none"
        BY <2>0, <2>3, Starts DEF Command
      <3>4. Certain(r)
        BY <2>1, <3>3 DEF KeepsUncertainty
      <3> QED BY <2>0, <2>3, <3>2, <3>4, CertainStarts DEF KnownAnswers
    <2>4. CASE CommandStep(r)
      <3>1. UNCHANGED vars
        BY <2>4, CommandLeavesTransport
      <3>2. KnownAnswers(r)'
        BY <2>0, <3>1 DEF KnownAnswers, Answer, vars, callVars, venueVars
      <3>3. op' = op
        BY <2>4 DEF CommandStep, WsAnswered, WsUncertain, WsUnavailable, RestNotSent, SendRest,
           RestAnswered, RestUncertain
      <3> QED BY <2>0, <2>1, <2>4, <3>2, <3>3, CertainMoves
    <2>5. CASE Abandon(r)
      <3>1. \A kind \in AllReplyKinds : Answer(r, kind)' => Answer(r, kind)
        <4>1. CASE UNCHANGED vars
          BY <4>1 DEF Answer, vars, callVars, venueVars
        <4>2. CASE DropCall(r)
          BY <2>0, <4>2, CallAnswers
        <4> QED BY <2>5, <4>1, <4>2 DEF Abandon
      <3>2. /\ stage[r] \in {"ws", "restAwait"}
            /\ UNCHANGED <<op, parts, receipt>>
            /\ restReply'[r] = "none"
        BY <2>0, <2>5 DEF Abandon, SubmissionTypeOK
      <3>3. Certain(r) => Certain(r)'
        <4>1. Certain(r) => receipt[r] = "none"
          BY <3>2 DEF Certain
        <4> QED BY <3>2, <4>1 DEF Certain
      <3> QED BY <2>0, <2>1, <3>1, <3>2, <3>3 DEF KnownAnswers
    <2>6. ASSUME NEW c \in 1 .. MaxCalls, NEW kind \in ReplyKinds, VenueHandlesRest(r, c, kind)
          PROVE  KnownAnswers(r)' /\ (KeepsUncertainty(op'[r]) => Certain(r)')
      <3>1. UNCHANGED <<replies, slot, outcome, op>>
        BY <2>6 DEF VenueHandlesRest, callVars
      <3>2. KnownAnswers(r)'
        BY <2>0, <3>1 DEF KnownAnswers, Answer
      <3> QED BY <2>1, <2>6, <3>1, <3>2, CertainHandled
    <2> QED BY <2>0, <2>2, <2>3, <2>4, <2>5, <2>6, StepOf
  <1>3. ReceiptInv => ReceiptIsProof
    <2> SUFFICES ASSUME NEW r \in Requests, Certain(r) PROVE Proven(r)
      BY DEF ReceiptInv, ReceiptIsProof
    <2> QED BY DEF Certain, Proven
  <1> QED BY <1>1, <1>2, <1>3, SubmissionInvariant, PTL DEF Spec
============================================================================
