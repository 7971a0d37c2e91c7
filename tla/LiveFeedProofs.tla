--------------------------- MODULE LiveFeedProofs ---------------------------
(***************************************************************************)
(* Proofs about LiveFeed, for any number of sockets, requests in flight    *)
(* and errors, and any statuses for which the page polls.  The liveness    *)
(* properties of LiveFeed stay with TLC; here are the safety facts that    *)
(* carry them.                                                             *)
(***************************************************************************)
EXTENDS LiveFeed, TLAPS

Frame == [seq: Nat, status: Status]

-----------------------------------------------------------------------------
(* Types.                                                                  *)

\* A socket is sent frames, numbered and with a status.
LEMMA SendTyped ==
    ASSUME TypeOK, NEW k, NEW s \in Status, Send(k, s)
    PROVE  sequence' \in Nat /\ frames' \in Seq(Frame)
<1>1. [seq |-> sequence + 1, status |-> s] \in Frame
  BY DEF TypeOK, Frame
<1>2. frames \in Seq(Frame) /\ sequence \in Nat
  BY DEF TypeOK, Frame
<1>3. frames' \in {frames, Append(frames, [seq |-> sequence + 1, status |-> s])}
  BY DEF Send
<1>4. Append(frames, [seq |-> sequence + 1, status |-> s]) \in Seq(Frame)
  BY <1>1, <1>2
<1>. QED
  BY <1>2, <1>3, <1>4 DEF Send

\* So it is if the job id may be pruned instead.
LEMMA SendOrPruneTyped ==
    ASSUME TypeOK, NEW k, NEW s \in Status, SendOrPrune(k, s)
    PROVE  /\ conn' \in 0..MaxSockets
           /\ sequence' \in Nat /\ frames' \in Seq(Frame)
<1>1. CASE Send(k, s) /\ UNCHANGED conn
  BY <1>1, SendTyped DEF TypeOK
<1>2. CASE Disconnect /\ UNCHANGED frames
  BY <1>2, FeedAssumption DEF TypeOK, Disconnect, Frame
<1>. QED
  BY <1>1, <1>2 DEF SendOrPrune

\* Every step of worker, manager, endpoints, hook and page keeps the types.
LEMMA TypeInductive ==
    ASSUME TypeOK, [Next]_vars
    PROVE  TypeOK'
<1> USE FeedAssumption DEF TypeOK, serverVars, managerVars, endpointVars,
        browserVars, hookVars, pageVars
<1>0. {"queued", "processing", "completed", "dead_lettered"} \subseteq Status
  BY DEF Status, Terminal
<1>1. CASE PickUp \/ DeadLetter \/ Complete
  BY <1>0, <1>1 DEF PickUp, DeadLetter, Complete
<1>2. CASE SendPersonal
  <2>1. conn' \in 0..MaxSockets /\ sequence' \in Nat /\ frames' \in Seq(Frame)
    BY <1>0, <1>2, SendOrPruneTyped DEF SendPersonal, Frame
  <2>. QED
    BY <1>2, <2>1 DEF SendPersonal, Frame
<1>3. CASE StartBroadcast
  BY <1>3 DEF StartBroadcast
<1>4. CASE SendBroadcast
  <2>1. conn' \in 0..MaxSockets /\ sequence' \in Nat /\ frames' \in Seq(Frame)
    BY <1>0, <1>4, SendOrPruneTyped DEF SendBroadcast
  <2>. QED
    BY <1>4, <2>1 DEF SendBroadcast, Frame
<1>5. ASSUME NEW k \in Sockets, Register(k) \/ AcceptFails(k) \/ ReadCached(k)
                                \/ ReadCachedFails(k) \/ Prune(k)
      PROVE  TypeOK'
  <2>1. CASE Register(k)
    BY <1>5, <2>1 DEF Register, Become, Sockets
  <2>2. CASE AcceptFails(k)
    BY <2>2 DEF AcceptFails, Become
  <2>3. CASE ReadCached(k)
    BY <2>3 DEF ReadCached, Become
  <2>4. CASE ReadCachedFails(k)
    <3>1. errors' \in 0..MaxErrors
      BY <2>4 DEF ReadCachedFails, Error
    <3>. QED
      BY <2>4, <3>1 DEF ReadCachedFails, Become
  <2>5. CASE Prune(k)
    BY <2>5 DEF Prune, Become, Disconnect
  <2>. QED
    BY <1>5, <2>1, <2>2, <2>3, <2>4, <2>5
<1>6. ASSUME NEW k \in Sockets, PushCached(k)
      PROVE  TypeOK'
  <2>1. sequence' \in Nat /\ frames' \in Seq(Frame)
    BY <1>6, SendTyped DEF PushCached
  <2>. QED
    BY <1>0, <1>6, <2>1 DEF PushCached, Become, Frame
<1>7. CASE Connect \/ ConnectionDrops
  <2>1. frames' \in Seq(Frame)
    <3>1. frames \in Seq(Frame) /\ <<>> \in Seq(Frame)
      BY DEF Frame
    <3>2. frames' = frames \/ frames' = <<>>
      BY <1>7 DEF Connect, ConnectionDrops
    <3>. QED
      BY <3>1, <3>2
  <2>2. CASE Connect
    BY <2>1, <2>2 DEF Connect, Become, Sockets, Frame
  <2>3. CASE ConnectionDrops
    BY <2>1, <2>3 DEF ConnectionDrops, Frame
  <2>. QED
    BY <1>7, <2>2, <2>3
<1>8. CASE DropFrame \/ AcceptFrame
  <2>1. frames \in Seq(Frame) /\ frames # <<>> /\ frames' = Tail(frames)
    BY <1>8 DEF DropFrame, AcceptFrame, Frame
  <2>2. Head(frames) \in Frame /\ frames' \in Seq(Frame)
    BY <2>1
  <2>3. Head(frames).seq \in Nat /\ Head(frames).status \in Status
    BY <2>2 DEF Frame
  <2>4. CASE DropFrame
    BY <2>2, <2>4 DEF DropFrame, Frame
  <2>5. CASE AcceptFrame
    BY <2>2, <2>3, <2>5 DEF AcceptFrame, Show, Frame
  <2>. QED
    BY <1>8, <2>4, <2>5
<1>9. ASSUME NEW i \in Polls, Poll(i) \/ ApplyReply(i) \/ PollFails(i)
      PROVE  TypeOK'
  <2>1. CASE Poll(i)
    BY <2>1 DEF Poll
  <2>2. CASE ApplyReply(i)
    BY <2>2 DEF ApplyReply, Show
  <2>3. CASE PollFails(i)
    <3>1. errors' \in 0..MaxErrors
      BY <2>3 DEF PollFails, Error
    <3>. QED
      BY <2>3, <3>1 DEF PollFails, Show
  <2>. QED
    BY <1>9, <2>1, <2>2, <2>3
<1>10. CASE ShowMemo
  BY <1>0, <1>10 DEF ShowMemo
<1>11. CASE UNCHANGED vars
  BY <1>11 DEF vars
<1>. QED
  BY <1>1, <1>2, <1>3, <1>4, <1>5, <1>6, <1>7, <1>8, <1>9, <1>10, <1>11
     DEF Next, Endpoint

\* Every variable of the feed keeps its type.
THEOREM TypeCorrect == Spec => []TypeOK
<1>1. Init => TypeOK
  <2> SUFFICES ASSUME Init PROVE TypeOK
    OBVIOUS
  <2>1. {"queued", "processing"} \subseteq Status
    BY DEF Status
  <2>2. frames \in Seq(Frame)
    BY DEF Init
  <2>3. 0 \in 0..MaxSockets /\ 0 \in 0..MaxErrors
    BY FeedAssumption
  <2>. QED
    BY <2>1, <2>2, <2>3 DEF Init, TypeOK, Frame
<1>. QED
  BY <1>1, TypeInductive, PTL DEF Spec

-----------------------------------------------------------------------------
(* What is told about the job's end is true.                               *)

Told(s) == s \in Terminal => s = status

FramesTold == \A i \in 1..Len(frames) : Told(frames[i].status)

\* Results are sent of completed jobs, and whatever is on its way to the page
\* or was put there by it names no end but the one the job has.
ToldInv ==
    /\ result # "none" => status = "completed"
    /\ target # 0 => result = "sent"
    /\ \A k \in Sockets : Told(cached[k])
    /\ FramesTold
    /\ \A i \in Polls : Told(reply[i])
    /\ ~memoed => Told(view)
    /\ memoed => view = "completed"
    /\ view = "failed" => errors > 0

\* Sending a frame that tells the truth.
LEMMA SendTold ==
    ASSUME TypeOK, FramesTold, NEW k, NEW s \in Status, Told(s), Send(k, s),
           status' = status
    PROVE  FramesTold'
<1>1. CASE frames' = frames
  BY <1>1 DEF FramesTold, Told
<1>2. CASE frames' = Append(frames, [seq |-> sequence + 1, status |-> s])
  <2> DEFINE f == [seq |-> sequence + 1, status |-> s]
  <2>1. f \in Frame /\ f.status = s /\ frames \in Seq(Frame)
    BY DEF TypeOK, Frame
  <2> HIDE DEF f
  <2>2. /\ Len(frames') = Len(frames) + 1 /\ Len(frames) \in Nat
        /\ frames'[Len(frames) + 1] = f
        /\ \A i \in 1..Len(frames) : frames'[i] = frames[i]
    BY <1>2, <2>1 DEF f
  <2>3. ASSUME NEW i \in 1..Len(frames') PROVE Told(frames'[i].status)
    <3>1. i \in 1..Len(frames) \/ i = Len(frames) + 1
      BY <2>2
    <3>. QED
      BY <2>1, <2>2, <3>1 DEF FramesTold
  <2>. QED
    BY <2>3 DEF FramesTold, Told
<1>. QED
  BY <1>1, <1>2 DEF Send

\* Taking a frame off the socket leaves the others.
LEMMA TailTold ==
    ASSUME TypeOK, FramesTold, frames # <<>>, frames' = Tail(frames),
           status' = status
    PROVE  FramesTold' /\ Head(frames) \in Frame /\ Told(Head(frames).status)
<1>1. frames \in Seq(Frame) /\ Len(frames) \in Nat /\ Len(frames) > 0
  BY DEF TypeOK, Frame
<1>2. Len(frames') = Len(frames) - 1 /\ Head(frames) = frames[1]
      /\ \A i \in 1..Len(frames') : frames'[i] = frames[i + 1]
  BY <1>1
<1>3. 1 \in 1..Len(frames) /\ frames[1] \in Frame
  BY <1>1
<1>4. \A i \in 1..Len(frames') : i + 1 \in 1..Len(frames)
  BY <1>1, <1>2
<1>. QED
  BY <1>2, <1>3, <1>4 DEF FramesTold, Told

\* No step tells the page of an end the job does not have.
LEMMA ToldInductive ==
    ASSUME TypeOK, ToldInv, [Next]_vars
    PROVE  ToldInv'
<1> USE DEF ToldInv, serverVars, managerVars, endpointVars, browserVars,
        hookVars, pageVars
<1>0. "completed" \in Status /\ "completed" \in Terminal
  BY DEF Status, Terminal
<1>1. CASE PickUp \/ DeadLetter \/ Complete
  <2>1. status \notin Terminal /\ result = "none" /\ target = 0
    BY <1>1 DEF PickUp, DeadLetter, Complete, Terminal
  <2>2. /\ \A k \in Sockets : cached[k] \notin Terminal
        /\ \A i \in 1..Len(frames) : frames[i].status \notin Terminal
        /\ \A i \in Polls : reply[i] \notin Terminal
        /\ ~memoed => view \notin Terminal
    BY <2>1 DEF Told, FramesTold
  <2>. QED
    BY <1>1, <2>1, <2>2 DEF PickUp, DeadLetter, Complete, Told, FramesTold
<1>2. CASE SendPersonal \/ SendBroadcast
  <2>1. /\ Told("completed") /\ status' = status
        /\ UNCHANGED <<cached, reply, view, memoed, errors>>
    BY <1>2 DEF Told, SendPersonal, SendBroadcast
  <2>2. \/ \E k \in 0..MaxSockets : Send(k, "completed")
        \/ UNCHANGED frames
    BY <1>2 DEF SendPersonal, SendBroadcast, SendOrPrune, TypeOK
  <2>3. FramesTold'
    BY <1>0, <2>1, <2>2, SendTold DEF FramesTold, Told
  <2>. QED
    BY <1>2, <2>1, <2>3 DEF SendPersonal, SendBroadcast, Told
<1>3. CASE StartBroadcast
  BY <1>3 DEF StartBroadcast, FramesTold, Told
<1>4. ASSUME NEW k \in Sockets, PushCached(k)
      PROVE  ToldInv'
  <2>1. cached[k] \in Status
    BY DEF TypeOK
  <2>2. FramesTold'
    BY <1>4, <2>1, SendTold DEF PushCached
  <2>3. \A i \in Sockets : Told(cached[i])'
    BY <1>4 DEF PushCached, TypeOK, Told, Terminal
  <2>. QED
    BY <1>4, <2>2, <2>3 DEF PushCached, Told
<1>5. ASSUME NEW k \in Sockets, ReadCached(k)
      PROVE  ToldInv'
  <2>1. \A i \in Sockets : Told(cached[i])'
    BY <1>5 DEF ReadCached, TypeOK, Told
  <2>. QED
    BY <1>5, <2>1 DEF ReadCached, FramesTold, Told
<1>6. ASSUME NEW k \in Sockets, Register(k) \/ AcceptFails(k)
                                \/ ReadCachedFails(k) \/ Prune(k)
      PROVE  ToldInv'
  <2>1. errors > 0 => errors' > 0
    BY <1>6, FeedAssumption
       DEF Register, AcceptFails, ReadCachedFails, Prune, Error, TypeOK
  <2>. QED
    BY <1>6, <2>1 DEF Register, AcceptFails, ReadCachedFails, Prune,
       Disconnect, FramesTold, Told
<1>7. CASE Connect
  BY <1>7 DEF Connect, FramesTold, Told
<1>8. CASE ConnectionDrops
  <2>1. FramesTold'
    BY <1>8 DEF ConnectionDrops, FramesTold
  <2>. QED
    BY <1>8, <2>1 DEF ConnectionDrops, Told
<1>9. CASE DropFrame \/ AcceptFrame
  <2>1. FramesTold' /\ Told(Head(frames).status) /\ Head(frames) \in Frame
    BY <1>9, TailTold DEF DropFrame, AcceptFrame
  <2>2. \/ UNCHANGED <<view, memoed>>
        \/ view' = Head(frames).status /\ ~memoed'
    BY <1>9 DEF DropFrame, AcceptFrame, Show
  <2>3. /\ (~memoed' => Told(view)') /\ (memoed' => view' = "completed")
        /\ view' = "failed" => view = "failed"
    BY <1>9, <2>1, <2>2
       DEF DropFrame, AcceptFrame, Told, Frame, Status, Terminal
  <2>. QED
    BY <1>9, <2>1, <2>3 DEF DropFrame, AcceptFrame, Told
<1>10. ASSUME NEW i \in Polls, Poll(i) \/ ApplyReply(i) \/ PollFails(i)
       PROVE  ToldInv'
  <2>1. \A k \in Polls : Told(reply[k])'
    BY <1>10 DEF Poll, ApplyReply, PollFails, TypeOK, Told, Terminal
  <2>2. /\ ~memoed' => Told(view)'
        /\ memoed' => view' = "completed"
        /\ view' = "failed" => errors' > 0
    <3>1. CASE Poll(i)
      BY <1>10, <3>1 DEF Poll, Told
    <3>2. CASE ApplyReply(i)
      BY <1>10, <3>2 DEF ApplyReply, Show, Told, TypeOK, Status, Terminal
    <3>3. CASE PollFails(i)
      <4>1. errors' > 0
        BY <3>3, FeedAssumption DEF PollFails, Error, TypeOK
      <4>. QED
        BY <3>3, <4>1 DEF PollFails, Show, Told, Terminal
    <3>. QED
      BY <1>10, <3>1, <3>2, <3>3
  <2>. QED
    BY <1>10, <2>1, <2>2 DEF Poll, ApplyReply, PollFails, FramesTold, Told
<1>11. CASE ShowMemo
  BY <1>11 DEF ShowMemo, FramesTold, Told
<1>12. CASE UNCHANGED vars
  BY <1>12 DEF vars, FramesTold, Told
<1>. QED
  BY <1>1, <1>2, <1>3, <1>4, <1>5, <1>6, <1>7, <1>8, <1>9, <1>10, <1>11, <1>12
     DEF Next, Endpoint

\* ToldInv holds in every reachable state.
LEMMA ToldInvariant == Spec => []ToldInv
<1>1. Init => ToldInv
  BY DEF Init, ToldInv, FramesTold, Told, Terminal
<1>. QED
  BY <1>1, TypeCorrect, ToldInductive, PTL DEF Spec

\* Whatever order frames and replies arrive in, the page shows an end the job
\* does not have only where a cached memo wrote last, and then "completed",
\* never a dead letter; and a failure only after a failed request.
NoFalseOutcome ==
    /\ view \in Terminal /\ view # status => memoed /\ view = "completed"
    /\ view = "failed" => errors > 0

\* So a page that polls for both unfinished statuses, as page.tsx does for
\* its batch matrix, has not stopped asking while it shows something else:
\* the safety half of ViewSettles.
StillAsks ==
    Polled = {"queued", "processing"} => Excused \/ view \in Polled

\* No stale reply, frame or reconnect shows a false end; a memo may.
THEOREM OutcomesAreTrue == Spec => []NoFalseOutcome
<1>1. ToldInv => NoFalseOutcome
  BY DEF ToldInv, Told, NoFalseOutcome
<1>. QED
  BY <1>1, ToldInvariant, PTL

\* A page that is wrong, and not for a memo or a failed request, is polling.
THEOREM WrongViewIsPolled == Spec => []StillAsks
<1>1. TypeOK /\ NoFalseOutcome => StillAsks
  BY DEF TypeOK, NoFalseOutcome, StillAsks, Excused, Status
<1>. QED
  BY <1>1, TypeCorrect, OutcomesAreTrue, PTL

-----------------------------------------------------------------------------
(* The first socket of a browser.                                          *)

\* Nothing happens before the browser connects.
BeforeConnecting ==
    socket = 0 =>
        /\ ~open
        /\ conn = 0 /\ target = 0
        /\ sequence = 0 /\ lastSequence = 0 /\ frames = <<>>
        /\ ~gap

NoHandlerYet == \A k \in Sockets : k > socket => handler[k] = "none"

\* Frames arrive in the order and with the numbers they were sent with.
Numbered ==
    /\ sequence = lastSequence + Len(frames)
    /\ \A i \in 1..Len(frames) : frames[i].seq = lastSequence + i

\* While the browser keeps its first socket the manager knows that one or,
\* before connect has registered it, none, so nothing prunes the job id.
FirstSocketOK ==
    /\ handler[1] \in {"accept", "get", "push", "listen", "blind"}
    /\ conn = IF handler[1] = "accept" THEN 0 ELSE 1
    /\ target \in {0, conn}
    /\ handler[1] = "accept" => sequence = 0
    /\ Numbered
    /\ ~gap

FirstInv ==
    /\ BeforeConnecting
    /\ NoHandlerYet
    /\ OnFirstSocket => FirstSocketOK

\* A frame to the first socket is appended under the next number.
LEMMA SendNumbered ==
    ASSUME TypeOK, OnFirstSocket, Numbered, NEW s \in Status, Send(1, s),
           lastSequence' = lastSequence
    PROVE  /\ Numbered'
           /\ Len(frames') = Len(frames) + 1
           /\ frames'[Len(frames) + 1].status = s
           /\ \A i \in 1..Len(frames) : frames'[i] = frames[i]
<1> DEFINE f == [seq |-> sequence + 1, status |-> s]
<1>1. /\ f \in Frame /\ f.status = s /\ f.seq = sequence + 1
      /\ frames \in Seq(Frame) /\ sequence \in Nat /\ lastSequence \in Nat
  BY DEF TypeOK, Frame
<1>2. frames' = Append(frames, f) /\ sequence' = sequence + 1
  BY DEF Send, Alive, OnFirstSocket
<1> HIDE DEF f
<1>3. /\ Len(frames') = Len(frames) + 1 /\ Len(frames) \in Nat
      /\ frames'[Len(frames) + 1] = f
      /\ \A i \in 1..Len(frames) : frames'[i] = frames[i]
  BY <1>1, <1>2
<1>4. ASSUME NEW i \in 1..Len(frames')
      PROVE  frames'[i].seq = lastSequence' + i
  <2>1. CASE i \in 1..Len(frames)
    BY <1>3, <2>1 DEF Numbered
  <2>2. CASE i = Len(frames) + 1
    BY <1>1, <1>3, <2>2 DEF Numbered
  <2>. QED
    BY <1>3, <2>1, <2>2
<1>. QED
  BY <1>1, <1>2, <1>3, <1>4 DEF Numbered

\* The frame the hook takes has the number it expects.
LEMMA HeadNumbered ==
    ASSUME TypeOK, Numbered, frames # <<>>
    PROVE  /\ Head(frames) = frames[1] /\ Head(frames).seq = lastSequence + 1
           /\ Len(Tail(frames)) = Len(frames) - 1 /\ Len(frames) \in Nat
           /\ 1 \in 1..Len(frames)
           /\ \A i \in 1..Len(Tail(frames)) :
                 i + 1 \in 1..Len(frames) /\ Tail(frames)[i] = frames[i + 1]
<1>1. frames \in Seq(Frame) /\ Len(frames) \in Nat /\ Len(frames) > 0
  BY DEF TypeOK, Frame
<1>2. /\ Head(frames) = frames[1]
      /\ Len(Tail(frames)) = Len(frames) - 1
      /\ \A i \in 1..Len(Tail(frames)) : Tail(frames)[i] = frames[i + 1]
  BY <1>1
<1>3. 1 \in 1..Len(frames)
  BY <1>1
<1>. QED
  BY <1>1, <1>2, <1>3 DEF Numbered

\* On the first socket a step of an endpoint is one of the first endpoint.
LEMMA FirstEndpoint ==
    ASSUME TypeOK, FirstInv, OnFirstSocket, NEW k \in Sockets,
           Endpoint(k) \/ Prune(k)
    PROVE  k = 1
<1>1. handler[k] # "none"
  BY DEF Endpoint, Prune, Register, AcceptFails, ReadCached, ReadCachedFails,
     PushCached
<1>. QED
  BY <1>1, FeedAssumption DEF FirstInv, NoHandlerYet, OnFirstSocket, Sockets

\* What the worker, the endpoints and a connection do to the first socket.
LEMMA FirstServer ==
    ASSUME TypeOK, FirstInv, OnFirstSocket,
           \/ PickUp \/ DeadLetter \/ Complete
           \/ SendPersonal \/ StartBroadcast \/ SendBroadcast
           \/ \E k \in Sockets : Endpoint(k) \/ Prune(k)
    PROVE  FirstSocketOK'
<1> USE DEF serverVars, managerVars, endpointVars, browserVars, hookVars, pageVars
<1>1. FirstSocketOK /\ Alive(1) /\ 1 \in Sockets
  BY FeedAssumption DEF FirstInv, OnFirstSocket, Alive, Sockets
<1>2. CASE PickUp \/ DeadLetter \/ Complete
  BY <1>1, <1>2 DEF PickUp, DeadLetter, Complete, FirstSocketOK, Numbered
<1>3. CASE SendPersonal \/ SendBroadcast
  <2>1. CASE SendPersonal /\ conn = 0
    BY <1>1, <2>1 DEF SendPersonal, FirstSocketOK, Numbered
  <2>2. CASE SendBroadcast \/ (SendPersonal /\ conn # 0)
    <3>1. conn = 1 /\ (SendBroadcast => target = 1)
      BY <1>1, <2>2 DEF FirstSocketOK, SendBroadcast
    <3>2. Send(1, "completed") /\ UNCHANGED conn
      BY <1>1, <2>2, <3>1 DEF SendPersonal, SendBroadcast, SendOrPrune
    <3>3. Numbered'
      BY <1>1, <2>2, <3>2, SendNumbered
         DEF SendPersonal, SendBroadcast, FirstSocketOK, Status, Terminal
    <3>4. /\ UNCHANGED <<handler, gap>> /\ target' \in {0, target}
          /\ handler[1] # "accept"
      BY <1>1, <2>2, <3>1 DEF SendPersonal, SendBroadcast, FirstSocketOK
    <3>. QED
      BY <1>1, <3>2, <3>3, <3>4 DEF FirstSocketOK
  <2>. QED
    BY <1>3, <2>1, <2>2
<1>4. CASE StartBroadcast
  BY <1>1, <1>4 DEF StartBroadcast, FirstSocketOK, Numbered
<1>5. CASE Endpoint(1) \/ Prune(1)
  <2>1. CASE Register(1)
    <3>1. sequence = 0 /\ handler'[1] = "get" /\ conn' = 1 /\ target = 0
      BY <1>1, <2>1 DEF Register, Become, FirstSocketOK, TypeOK
    <3>. QED
      BY <1>1, <2>1, <3>1 DEF Register, FirstSocketOK, Numbered
  <2>2. CASE ReadCached(1) \/ ReadCachedFails(1)
    <3>1. handler'[1] \in {"push", "blind"} /\ handler[1] = "get"
      BY <1>1, <2>2 DEF ReadCached, ReadCachedFails, Become, TypeOK
    <3>. QED
      BY <1>1, <2>2, <3>1
         DEF ReadCached, ReadCachedFails, FirstSocketOK, Numbered
  <2>3. CASE PushCached(1)
    <3>1. handler'[1] = "listen" /\ handler[1] = "push" /\ cached[1] \in Status
      BY <1>1, <2>3 DEF PushCached, Become, TypeOK
    <3>2. Numbered'
      BY <1>1, <2>3, <3>1, SendNumbered DEF PushCached, FirstSocketOK
    <3>. QED
      BY <1>1, <2>3, <3>1, <3>2 DEF PushCached, FirstSocketOK
  <2>. QED
    BY <1>1, <1>5, <2>1, <2>2, <2>3 DEF Endpoint, AcceptFails, Prune
<1>. QED
  BY <1>2, <1>3, <1>4, <1>5, FirstEndpoint

\* What the hook and the page do to it.
LEMMA FirstClient ==
    ASSUME TypeOK, FirstInv, OnFirstSocket,
           \/ DropFrame \/ AcceptFrame
           \/ \E i \in Polls : Poll(i) \/ ApplyReply(i) \/ PollFails(i)
           \/ ShowMemo \/ UNCHANGED vars
    PROVE  FirstSocketOK' /\ ~DropFrame
<1> USE DEF serverVars, managerVars, endpointVars, browserVars, hookVars, pageVars
<1>1. FirstSocketOK
  BY DEF FirstInv
<1>2. ~DropFrame
  <2>1. lastSequence \in Nat
    BY DEF TypeOK
  <2>. QED
    BY <1>1, <2>1, HeadNumbered DEF DropFrame, FirstSocketOK
<1>3. CASE AcceptFrame
  <2>1. /\ frames # <<>> /\ frames' = Tail(frames)
        /\ lastSequence' = Head(frames).seq
        /\ gap' = (gap \/ (lastSequence > 0 /\ Head(frames).seq > lastSequence + 1))
        /\ UNCHANGED <<handler, conn, target, sequence>>
    BY <1>3 DEF AcceptFrame
  <2>2. lastSequence' = lastSequence + 1 /\ lastSequence \in Nat /\ sequence \in Nat
    BY <1>1, <2>1, HeadNumbered DEF FirstSocketOK, TypeOK
  <2>3. ~gap'
    <3>1. ~(Head(frames).seq > lastSequence + 1)
      BY <2>1, <2>2
    <3>. QED
      BY <1>1, <2>1, <3>1, Zenon DEF FirstSocketOK
  <2>4. Numbered'
    <3>1. Numbered
      BY <1>1 DEF FirstSocketOK
    <3>2. ASSUME NEW i \in 1..Len(frames')
          PROVE  frames'[i].seq = lastSequence' + i
      <4>1. i + 1 \in 1..Len(frames) /\ frames'[i] = frames[i + 1]
        BY <2>1, <3>1, <3>2, HeadNumbered
      <4>. QED
        BY <2>2, <3>1, <4>1 DEF Numbered
    <3>3. sequence' = lastSequence' + Len(frames')
      BY <2>1, <2>2, <3>1, HeadNumbered DEF Numbered
    <3>. QED
      BY <3>2, <3>3 DEF Numbered
  <2>. QED
    BY <1>1, <1>2, <2>1, <2>3, <2>4 DEF FirstSocketOK
<1>4. CASE \E i \in Polls : Poll(i) \/ ApplyReply(i) \/ PollFails(i)
  BY <1>1, <1>2, <1>4 DEF Poll, ApplyReply, PollFails, FirstSocketOK, Numbered
<1>5. CASE ShowMemo \/ UNCHANGED vars
  BY <1>1, <1>2, <1>5 DEF ShowMemo, vars, FirstSocketOK, Numbered
<1>. QED
  BY <1>2, <1>3, <1>4, <1>5

\* A new endpoint is one of the latest socket.
LEMMA HandlersInOrder ==
    ASSUME TypeOK, NoHandlerYet, [Next]_vars
    PROVE  NoHandlerYet' /\ socket' \in {socket, socket + 1}
<1> USE DEF serverVars, managerVars, endpointVars, browserVars, hookVars, pageVars
<1>1. CASE Connect
  BY <1>1 DEF Connect, Become, NoHandlerYet, TypeOK, Sockets
<1>2. ASSUME NEW k \in Sockets, Endpoint(k) \/ Prune(k)
      PROVE  NoHandlerYet' /\ socket' = socket
  <2>0. handler[k] # "none" /\ \E pc : Become(k, pc)
    BY <1>2 DEF Endpoint, Prune, Register, AcceptFails, ReadCached,
       ReadCachedFails, PushCached
  <2>1. handler[k] # "none" /\ \A i \in Sockets : i # k => handler'[i] = handler[i]
    BY <2>0 DEF Become, TypeOK
  <2>2. socket' = socket
    BY <1>2 DEF Endpoint, Prune, Register, AcceptFails, ReadCached,
       ReadCachedFails, PushCached
  <2>. QED
    BY <2>1, <2>2 DEF NoHandlerYet
<1>3. CASE ~Connect /\ ~\E k \in Sockets : Endpoint(k) \/ Prune(k)
  <2>1. UNCHANGED <<handler, socket>>
    BY <1>3 DEF Next, PickUp, DeadLetter, Complete, SendPersonal,
       StartBroadcast, SendBroadcast, ConnectionDrops, DropFrame, AcceptFrame,
       Poll, ApplyReply, PollFails, ShowMemo, vars
  <2>. QED
    BY <2>1 DEF NoHandlerYet
<1>. QED
  BY <1>1, <1>2, <1>3

\* Before it connects, the browser and the manager know of nothing.
LEMMA NothingBefore ==
    ASSUME TypeOK, FirstInv, [Next]_vars
    PROVE  BeforeConnecting'
<1> USE DEF serverVars, managerVars, endpointVars, browserVars, hookVars, pageVars
<1> SUFFICES ASSUME socket' = 0
             PROVE  BeforeConnecting'
  BY DEF BeforeConnecting
<1>1. socket = 0
  BY HandlersInOrder DEF FirstInv, TypeOK
<1>2. /\ ~open /\ conn = 0 /\ target = 0 /\ frames = <<>> /\ ~gap
      /\ sequence = 0 /\ lastSequence = 0
  BY <1>1 DEF FirstInv, BeforeConnecting
<1>3. \A k \in Sockets : handler[k] = "none"
  BY <1>1 DEF FirstInv, NoHandlerYet, Sockets
<1>4. /\ ~Connect /\ ~SendBroadcast /\ ~ConnectionDrops
      /\ ~DropFrame /\ ~AcceptFrame
      /\ \A k \in Sockets : ~Endpoint(k) /\ ~Prune(k)
  BY <1>1, <1>2, <1>3
     DEF Connect, SendBroadcast, ConnectionDrops, DropFrame, AcceptFrame,
         Endpoint, Prune, Register, AcceptFails, ReadCached, ReadCachedFails,
         PushCached
<1>5. CASE SendPersonal \/ StartBroadcast
  BY <1>2, <1>5 DEF SendPersonal, StartBroadcast, BeforeConnecting
<1>6. CASE \/ PickUp \/ DeadLetter \/ Complete \/ ShowMemo \/ UNCHANGED vars
           \/ \E i \in Polls : Poll(i) \/ ApplyReply(i) \/ PollFails(i)
  BY <1>2, <1>6 DEF PickUp, DeadLetter, Complete, Poll, ApplyReply, PollFails,
     ShowMemo, vars, BeforeConnecting
<1>. QED
  BY <1>4, <1>5, <1>6 DEF Next

\* FirstInv is inductive.
LEMMA FirstInductive ==
    ASSUME TypeOK, FirstInv, [Next]_vars
    PROVE  FirstInv'
<1> USE DEF serverVars, managerVars, endpointVars, browserVars, hookVars, pageVars
<1>1. ASSUME OnFirstSocket'
      PROVE  FirstSocketOK'
  <2>1. CASE Connect
    <3>1. socket = 0 /\ UNCHANGED <<conn, target, sequence, lastSequence, frames, gap>>
      BY <1>1, <2>1 DEF Connect, OnFirstSocket, TypeOK
    <3>2. handler'[1] = "accept"
      BY <2>1, <3>1, FeedAssumption DEF Connect, Become, TypeOK, Sockets
    <3>. QED
      BY <3>1, <3>2 DEF FirstInv, BeforeConnecting, FirstSocketOK, Numbered
  <2>2. CASE ~Connect
    <3>1. OnFirstSocket /\ ~ConnectionDrops
      BY <1>1, <2>2 DEF Next, PickUp, DeadLetter, Complete, SendPersonal,
         StartBroadcast, SendBroadcast, Endpoint, Prune, Register,
         AcceptFails, ReadCached, ReadCachedFails, PushCached,
         ConnectionDrops, DropFrame, AcceptFrame, Poll, ApplyReply, PollFails,
         ShowMemo, vars, OnFirstSocket
    <3>. QED
      BY <2>2, <3>1, FirstServer, FirstClient DEF Next
  <2>. QED
    BY <2>1, <2>2
<1>. QED
  BY <1>1, HandlersInOrder, NothingBefore DEF FirstInv

\* FirstInv holds in every reachable state.
LEMMA FirstInvariant == Spec => []FirstInv
<1>1. Init => FirstInv
  BY DEF Init, FirstInv, BeforeConnecting, NoHandlerYet, OnFirstSocket
<1>. QED
  BY <1>1, TypeCorrect, FirstInductive, PTL DEF Spec

\* On a browser's first socket the hook never takes a frame for a duplicate
\* and never sees a gap: only reconnecting disturbs the numbers.
FirstSocketDropsNothing == [][OnFirstSocket => ~DropFrame /\ ~gap]_vars

\* Broadcast, cached push and personal message number their frames as one.
THEOREM FirstSocketIsOrderly == Spec => FirstSocketDropsNothing
<1>1. TypeOK /\ FirstInv /\ [Next]_vars
        => [OnFirstSocket => ~DropFrame /\ ~gap]_vars
  BY FirstClient DEF FirstInv, FirstSocketOK
<1>. QED
  BY <1>1, TypeCorrect, FirstInvariant, PTL DEF Spec, FirstSocketDropsNothing

-----------------------------------------------------------------------------
(* The result of a job run in the API process.                             *)

OnItsWay == \E i \in 1..Len(frames) : frames[i].status = "completed"

\* While the browser keeps its first socket and the endpoint could read the
\* job key, a result is never missed: it has arrived, is on its way, or is
\* still to be sent or read by the handshake.  FirstSocketDelivers is this
\* under fairness.
FirstSocketKeepsResult ==
    result \notin {"none", "apart"} /\ OnFirstSocket /\ handler[1] # "blind" =>
        \/ got
        \/ OnItsWay
        \/ result = "personal"
        \/ handler[1] \in {"accept", "get"}
        \/ handler[1] = "push" /\ cached[1] = "completed"

\* It is inductive relative to the other invariants.
LEMMA KeepsResultInductive ==
    ASSUME TypeOK, ToldInv, FirstInv, FirstSocketKeepsResult, [Next]_vars
    PROVE  FirstSocketKeepsResult'
<1> USE DEF serverVars, managerVars, endpointVars, browserVars, hookVars, pageVars
<1> SUFFICES ASSUME result' \notin {"none", "apart"}, OnFirstSocket',
                    handler'[1] # "blind", ~got',
                    result' # "personal", handler'[1] \notin {"accept", "get"}
             PROVE  \/ OnItsWay'
                    \/ handler'[1] = "push" /\ cached'[1] = "completed"
  BY DEF FirstSocketKeepsResult
<1>0. 1 \in Sockets
  BY FeedAssumption DEF Sockets
<1>1. ~Connect
  <2> SUFFICES ASSUME Connect PROVE FALSE
    OBVIOUS
  <2>1. socket + 1 = 1
    BY DEF Connect, OnFirstSocket
  <2>2. handler'[1] = "accept"
    BY <1>0, <2>1 DEF Connect, Become, TypeOK
  <2>. QED
    BY <2>2
<1>2. OnFirstSocket /\ ~ConnectionDrops
  BY <1>1 DEF Next, PickUp, DeadLetter, Complete, SendPersonal,
     StartBroadcast, SendBroadcast, Endpoint, Prune, Register,
     AcceptFails, ReadCached, ReadCachedFails, PushCached,
     ConnectionDrops, DropFrame, AcceptFrame, Poll, ApplyReply, PollFails,
     ShowMemo, vars, OnFirstSocket
<1>3. FirstSocketOK /\ Alive(1) /\ ~got
  <2>1. got => got'
    BY <1>1, <1>2 DEF Next, PickUp, DeadLetter, Complete, SendPersonal,
       StartBroadcast, SendBroadcast, Endpoint, Prune, Register,
       AcceptFails, ReadCached, ReadCachedFails, PushCached, DropFrame,
       AcceptFrame, Poll, ApplyReply, PollFails, ShowMemo, vars
  <2>. QED
    BY <1>2, <2>1 DEF FirstInv, OnFirstSocket, Alive
<1>4. ASSUME NEW s \in Status, Send(1, s), lastSequence' = lastSequence,
             OnItsWay \/ s = "completed"
      PROVE  OnItsWay'
  <2>1. /\ Len(frames') = Len(frames) + 1 /\ Len(frames) \in Nat
        /\ frames'[Len(frames) + 1].status = s
        /\ \A i \in 1..Len(frames) : frames'[i] = frames[i]
    BY <1>2, <1>3, <1>4, SendNumbered DEF FirstSocketOK, TypeOK
  <2>2. Len(frames) + 1 \in 1..Len(frames')
        /\ \A i \in 1..Len(frames) : i \in 1..Len(frames')
    BY <2>1
  <2>. QED
    BY <1>4, <2>1, <2>2 DEF OnItsWay
<1>5. CASE PickUp \/ DeadLetter \/ Complete
  BY <1>5 DEF PickUp, DeadLetter, Complete, ToldInv, Terminal
<1>6. CASE SendPersonal \/ SendBroadcast
  <2>1. /\ lastSequence' = lastSequence /\ handler' = handler
        /\ "completed" \in Status
    BY <1>6 DEF SendPersonal, SendBroadcast, Status, Terminal
  <2>2. conn = 1 /\ (SendBroadcast => target = 1)
    BY <1>3, <1>6, <2>1 DEF FirstSocketOK, SendBroadcast
  <2>3. Send(1, "completed")
    BY <1>3, <1>6, <2>2 DEF SendPersonal, SendBroadcast, SendOrPrune
  <2>. QED
    BY <1>4, <2>1, <2>3
<1>7. CASE Endpoint(1) \/ Prune(1)
  <2>1. CASE Register(1) \/ ReadCachedFails(1)
    BY <1>0, <2>1 DEF Register, ReadCachedFails, Become, TypeOK
  <2>2. CASE ReadCached(1)
    <3>1. handler'[1] = "push" /\ cached'[1] = status /\ status = "completed"
      BY <1>0, <2>2 DEF ReadCached, Become, TypeOK, ToldInv
    <3>. QED
      BY <3>1
  <2>3. CASE PushCached(1)
    <3>1. OnItsWay \/ cached[1] = "completed"
      BY <1>2, <1>3, <2>3 DEF PushCached, FirstSocketKeepsResult
    <3>2. cached[1] \in Status
      BY <1>0 DEF TypeOK
    <3>. QED
      BY <1>4, <2>3, <3>1, <3>2 DEF PushCached
  <2>. QED
    BY <1>3, <1>7, <2>1, <2>2, <2>3 DEF Endpoint, AcceptFails, Prune
<1>8. CASE AcceptFrame
  <2>1. /\ OnItsWay \/ (handler'[1] = "push" /\ cached'[1] = "completed")
        /\ frames # <<>> /\ frames' = Tail(frames)
    BY <1>2, <1>3, <1>8 DEF AcceptFrame, FirstSocketKeepsResult
  <2>2. Head(frames).status # "completed"
    BY <1>2, <1>8 DEF AcceptFrame, OnFirstSocket
  <2>3. ASSUME OnItsWay
        PROVE  OnItsWay'
    <3>1. PICK i \in 1..Len(frames) : frames[i].status = "completed"
      BY <2>3 DEF OnItsWay
    <3>2. i # 1 /\ Len(frames) \in Nat /\ Len(Tail(frames)) = Len(frames) - 1
      BY <1>3, <2>1, <2>2, <3>1, HeadNumbered DEF FirstSocketOK
    <3>3. PICK m \in 1..Len(frames') : i = m + 1
      <4>1. i - 1 \in 1..Len(frames')
        BY <2>1, <3>2
      <4>. QED
        BY <4>1
    <3>4. frames'[m] = frames[i]
      BY <1>3, <2>1, <3>3, HeadNumbered DEF FirstSocketOK
    <3>. QED
      BY <3>1, <3>3, <3>4 DEF OnItsWay
  <2>. QED
    BY <2>1, <2>3
<1>9. CASE \/ StartBroadcast \/ ShowMemo \/ UNCHANGED vars
           \/ \E i \in Polls : Poll(i) \/ ApplyReply(i) \/ PollFails(i)
  BY <1>2, <1>3, <1>9
     DEF StartBroadcast, Poll, ApplyReply, PollFails, ShowMemo, vars,
         FirstSocketKeepsResult, OnItsWay
<1>10. ~DropFrame
  BY <1>2, FirstClient
<1>. QED
  BY <1>1, <1>2, <1>5, <1>6, <1>7, <1>8, <1>9, <1>10, FirstEndpoint DEF Next

\* The key is written before the frame is sent and the socket registered
\* before the key is read: no interleaving of worker, endpoint and hook
\* loses the result on a first socket.
THEOREM ResultIsKept == Spec => []FirstSocketKeepsResult
<1>1. Init => FirstSocketKeepsResult
  BY DEF Init, FirstSocketKeepsResult
<1>. QED
  BY <1>1, TypeCorrect, ToldInvariant, FirstInvariant, KeepsResultInductive,
     PTL DEF Spec
=============================================================================
