------------------------------ MODULE LiveFeed ------------------------------
(***************************************************************************)
(* How the dashboard page follows one job: the API process pushes frames   *)
(* through the ConnectionManager of app/routers/websocket.py to the hook   *)
(* useWebSocket.ts, which reconnects, and the page polls the job key while *)
(* it deems the job pending (app/dashboard/[ticker]/page.tsx).             *)
(*                                                                         *)
(* The job runs in the API process or in a stand-alone worker, whose own   *)
(* ConnectionManager knows no client.  "completed" stands for failed too.  *)
(* Frames about other jobs are not modelled, neither for the sequence      *)
(* numbers they take nor, if it is the same ticker, for the page showing   *)
(* them as its own; nor are a reload of the page, which restores its last  *)
(* view, and other tabs.  Redelivery is in Consumer; here a job ends once. *)
(*                                                                         *)
(* MaxSockets bounds the connections, Polls the status requests in flight, *)
(* MaxErrors the failed reads.                                             *)
(***************************************************************************)
EXTENDS Naturals, Sequences

CONSTANTS MaxSockets, Polls, MaxErrors,
    Polled         \* the statuses for which the page goes on polling

ASSUME FeedAssumption ==
    /\ MaxSockets \in Nat \ {0} /\ MaxErrors \in Nat
    /\ Polled \subseteq {"queued", "processing"}

VARIABLES
    status,        \* "status" under the job key in Redis
    result,        \* what is left to send of the result
    target,        \* the socket a running broadcast will send to, or 0
    conn,          \* active_connections[job_id]: a socket, 0 if absent
    sequence,      \* connection_sequences[job_id], 0 if absent
    handler,       \* the endpoint coroutine of each socket
    cached,        \* what it read from Redis and has yet to push
    socket,        \* the browser's latest socket, 0 before the first
    open,          \* is it open?
    frames,        \* frames on their way through it
    lastSequence,  \* lastSequenceNumber
    gap,           \* onSequenceGap is due
    view,          \* the status the page shows
    memoed,        \* history: was it put there by a cached memo?
    got,           \* history: did the first socket bring the result?
    reply,         \* answers to status requests on their way
    errors

serverVars == <<status, result, target>>
managerVars == <<conn, sequence>>
endpointVars == <<handler, cached>>
browserVars == <<socket, open>>
hookVars == <<lastSequence, gap, got>>
pageVars == <<view, memoed, reply>>
vars == <<serverVars, managerVars, endpointVars, browserVars, frames,
          hookVars, pageVars, errors>>

Sockets == 1..MaxSockets
Terminal == {"completed", "dead_lettered"}
Status == {"queued", "processing"} \cup Terminal

TypeOK ==
    /\ status \in Status
    /\ result \in {"none", "personal", "broadcast", "sent", "apart"}
    /\ target \in 0..MaxSockets
    /\ conn \in 0..MaxSockets
    /\ sequence \in Nat
    /\ handler \in [Sockets -> {"none", "accept", "get", "push", "listen",
                                "blind", "gone"}]
    /\ cached \in [Sockets -> Status]
    /\ socket \in 0..MaxSockets
    /\ open \in BOOLEAN
    /\ frames \in Seq([seq: Nat, status: Status])
    /\ lastSequence \in Nat
    /\ gap \in BOOLEAN
    /\ view \in Status \cup {"failed"}
    /\ memoed \in BOOLEAN
    /\ got \in BOOLEAN
    /\ reply \in [Polls -> Status \cup {"none"}]
    /\ errors \in 0..MaxErrors

\* The POST has returned and the page shows "processing" (dispatchJob).
Init ==
    /\ status = "queued"
    /\ result = "none"
    /\ target = 0
    /\ conn = 0
    /\ sequence = 0
    /\ handler = [k \in Sockets |-> "none"]
    /\ cached = [k \in Sockets |-> "queued"]
    /\ socket = 0
    /\ open = FALSE
    /\ frames = <<>>
    /\ lastSequence = 0
    /\ gap = FALSE
    /\ view = "processing"
    /\ memoed = FALSE
    /\ got = FALSE
    /\ reply = [i \in Polls |-> "none"]
    /\ errors = 0

Error == errors < MaxErrors /\ errors' = errors + 1

-----------------------------------------------------------------------------
(* The worker.                                                             *)

PickUp ==
    /\ status = "queued"
    /\ status' = "processing"
    /\ UNCHANGED <<result, target, managerVars, endpointVars, browserVars,
                   frames, hookVars, pageVars, errors>>

\* Quarantine sends nothing to the page.
DeadLetter ==
    /\ status \notin Terminal
    /\ status' = "dead_lettered"
    /\ UNCHANGED <<result, target, managerVars, endpointVars,
                   browserVars, frames, hookVars, pageVars, errors>>

\* The result is in Redis before it is sent, here or in a stand-alone worker.
Complete ==
    /\ status = "processing"
    /\ status' = "completed"
    /\ result' \in {"personal", "apart"}
    /\ UNCHANGED <<target, managerVars, endpointVars, browserVars, frames,
                   hookVars, pageVars, errors>>

-----------------------------------------------------------------------------
(* ConnectionManager.                                                      *)

Alive(k) == k = socket /\ open

\* A frame to socket k takes the next sequence number of the job id.
Send(k, s) ==
    /\ sequence' = sequence + 1
    /\ frames' = IF Alive(k) THEN Append(frames, [seq |-> sequence + 1, status |-> s])
                 ELSE frames

Disconnect == conn' = 0 /\ sequence' = 0

\* Sending to a dead socket may succeed or raise; if it raises, the manager
\* prunes the job id, whatever socket it stands for by now.
SendOrPrune(k, s) ==
    \/ Send(k, s) /\ UNCHANGED conn
    \/ ~Alive(k) /\ Disconnect /\ UNCHANGED frames

\* send_personal_message
SendPersonal ==
    /\ result = "personal"
    /\ IF conn = 0 THEN UNCHANGED <<managerVars, frames>>
       ELSE SendOrPrune(conn, "completed")
    /\ result' = "broadcast"
    /\ UNCHANGED <<status, target, endpointVars, browserVars,
                   hookVars, pageVars, errors>>

\* broadcast copies the connections, then sends to one after the other; a
\* job id without a connection is not among them.
StartBroadcast ==
    /\ result = "broadcast"
    /\ result' = "sent"
    /\ target' = conn
    /\ UNCHANGED <<status, managerVars, endpointVars, browserVars, frames,
                   hookVars, pageVars, errors>>

SendBroadcast ==
    /\ target # 0
    /\ SendOrPrune(target, "completed")
    /\ target' = 0
    /\ UNCHANGED <<status, result, endpointVars, browserVars, hookVars,
                   pageVars, errors>>

-----------------------------------------------------------------------------
(* websocket_job_endpoint.                                                 *)

Become(k, pc) == handler' = [handler EXCEPT ![k] = pc]

\* connect: the newest socket of a job id replaces the previous one.
Register(k) ==
    /\ handler[k] = "accept"
    /\ conn' = k
    /\ sequence' = 0
    /\ Become(k, "get")
    /\ UNCHANGED <<serverVars, cached, browserVars, frames, hookVars,
                   pageVars, errors>>

ReadCached(k) ==
    /\ handler[k] = "get"
    /\ cached' = [cached EXCEPT ![k] = status]
    /\ Become(k, "push")
    /\ UNCHANGED <<serverVars, managerVars, browserVars, frames,
                   hookVars, pageVars, errors>>

\* Fail-open: the socket stays, without an initial state.
ReadCachedFails(k) ==
    /\ handler[k] = "get"
    /\ Error
    /\ Become(k, "blind")
    /\ UNCHANGED <<serverVars, managerVars, cached, browserVars,
                   frames, hookVars, pageVars>>

\* Mutant: nothing is pushed after the handshake
PushNothing(k) ==
    /\ handler[k] = "push"
    /\ Become(k, "listen")
    /\ UNCHANGED <<serverVars, managerVars, cached, browserVars,
                   frames, hookVars, pageVars, errors>>

PushCached(k) ==
    /\ handler[k] = "push"
    /\ Send(k, cached[k])
    /\ cached' = [cached EXCEPT ![k] = "queued"]
    /\ Become(k, "listen")
    /\ UNCHANGED <<serverVars, conn, browserVars, hookVars, pageVars,
                   errors>>

\* accept raises, the job id is left alone
AcceptFails(k) ==
    /\ handler[k] = "accept"
    /\ ~Alive(k)
    /\ Become(k, "gone")
    /\ UNCHANGED <<serverVars, managerVars, cached, browserVars,
                   frames, hookVars, pageVars, errors>>

\* The endpoint learns that its socket is dead and prunes the job id, which
\* may belong to the next socket already.
Prune(k) ==
    /\ handler[k] \in {"listen", "blind"}
    /\ ~Alive(k)
    /\ Disconnect
    /\ Become(k, "gone")
    /\ UNCHANGED <<serverVars, cached, browserVars, frames, hookVars,
                   pageVars, errors>>

-----------------------------------------------------------------------------
(* useWebSocket.                                                           *)

\* Mutant: no limit to the reconnections
ConnectForever ==
    /\ ~open
    /\ socket' = socket + 1
    /\ open' = TRUE
    /\ Become(socket + 1, "accept")
    /\ UNCHANGED <<serverVars, managerVars, cached, frames, hookVars, pageVars,
                   errors>>

Connect ==
    /\ ~open
    /\ socket < MaxSockets
    /\ socket' = socket + 1
    /\ open' = TRUE
    /\ Become(socket + 1, "accept")
    /\ UNCHANGED <<serverVars, managerVars, cached, frames, hookVars,
                   pageVars, errors>>

\* lastSequence is reset before the next socket delivers a frame.
ConnectionDrops ==
    /\ open
    /\ open' = FALSE
    /\ frames' = <<>>
    /\ lastSequence' = 0
    /\ UNCHANGED <<serverVars, managerVars, endpointVars, socket,
                   gap, got, pageVars, errors>>

\* A frame or a status reply about the job is merged into the card.
Show(s) == view' = s /\ memoed' = FALSE

\* A frame numbered below the expected one counts as a duplicate.
DropFrame ==
    /\ frames # <<>>
    /\ Head(frames).seq <= lastSequence
    /\ frames' = Tail(frames)
    /\ UNCHANGED <<serverVars, managerVars, endpointVars, browserVars,
                   hookVars, pageVars, errors>>

AcceptFrame ==
    /\ frames # <<>>
    /\ LET f == Head(frames) IN
           /\ f.seq > lastSequence
           /\ lastSequence' = f.seq
           /\ gap' = (gap \/ (lastSequence > 0 /\ f.seq > lastSequence + 1))
           /\ Show(f.status)
           /\ got' = (got \/ (socket = 1 /\ f.status = "completed"))
    /\ frames' = Tail(frames)
    /\ UNCHANGED <<serverVars, managerVars, endpointVars, browserVars,
                   reply, errors>>

-----------------------------------------------------------------------------
(* The page.                                                               *)

\* Mutant: a page that sees "queued" stops asking
PollRunning(i) ==
    /\ view = "processing" \/ gap
    /\ reply[i] = "none"
    /\ reply' = [reply EXCEPT ![i] = status]
    /\ gap' = FALSE
    /\ UNCHANGED <<serverVars, managerVars, endpointVars, browserVars,
                   frames, lastSequence, got, view, memoed, errors>>

\* fetchJobStatus every 2 s while pending, and once for a sequence gap.
Poll(i) ==
    /\ view \in Polled \/ gap
    /\ reply[i] = "none"
    /\ reply' = [reply EXCEPT ![i] = status]
    /\ gap' = FALSE
    /\ UNCHANGED <<serverVars, managerVars, endpointVars, browserVars,
                   frames, lastSequence, got, view, memoed, errors>>

\* Replies arrive in any order and each overwrites the view.
ApplyReply(i) ==
    /\ reply[i] # "none"
    /\ Show(reply[i])
    /\ reply' = [reply EXCEPT ![i] = "none"]
    /\ UNCHANGED <<serverVars, managerVars, endpointVars, browserVars,
                   frames, hookVars, errors>>

\* A proxy answers 500 when it cannot reach the API, and the page takes that
\* for the failure of the job; any other error is ignored.
PollFails(i) ==
    /\ reply[i] # "none"
    /\ Error
    /\ Show("failed") \/ UNCHANGED <<view, memoed>>
    /\ reply' = [reply EXCEPT ![i] = "none"]
    /\ UNCHANGED <<serverVars, managerVars, endpointVars, browserVars,
                   frames, hookVars>>

\* fetchCachedIntelligence: the answer to GET /results/{ticker}, asked for on
\* mount or by a click, marks the card completed, whatever became of its job.
\* The request carries nothing of the page's state, so its answer may come
\* at any time; one that fails changes nothing.
ShowMemo ==
    /\ view' = "completed"
    /\ memoed' = TRUE
    /\ UNCHANGED <<serverVars, managerVars, endpointVars, browserVars,
                   frames, hookVars, reply, errors>>

-----------------------------------------------------------------------------
Endpoint(k) ==
    \/ Register(k) \/ AcceptFails(k) \/ ReadCached(k) \/ ReadCachedFails(k)
    \/ PushCached(k)

Next ==
    \/ PickUp \/ DeadLetter \/ Complete
    \/ SendPersonal \/ StartBroadcast \/ SendBroadcast
    \/ \E k \in Sockets : Endpoint(k) \/ Prune(k)
    \/ Connect \/ ConnectionDrops \/ DropFrame \/ AcceptFrame
    \/ \E i \in Polls : Poll(i) \/ ApplyReply(i) \/ PollFails(i)
    \/ ShowMemo

Spec == Init /\ [][Next]_vars

(***************************************************************************)
(* Ready coroutines run, frames and replies arrive while their connection  *)
(* lasts, and the page's interval timer fires.  A connection need never be *)
(* opened or stay, and the job need not end.                               *)
(***************************************************************************)
Fairness ==
    /\ WF_vars(SendPersonal \/ StartBroadcast) /\ WF_vars(SendBroadcast)
    /\ \A k \in Sockets : WF_vars(Endpoint(k))
    /\ WF_vars(DropFrame \/ AcceptFrame)
    /\ \A i \in Polls : WF_vars(Poll(i)) /\ WF_vars(ApplyReply(i))

FairSpec == Spec /\ Fairness

-----------------------------------------------------------------------------
(* Properties.                                                             *)

OnFirstSocket == socket = 1 /\ open

\* A browser that keeps its first socket gets the result of a job run in
\* the API process through it, whether the job ends before, within or after
\* the handshake: the key is written before the frame is sent, the socket
\* registered before the key is read.
FirstSocketDelivers ==
    (result \notin {"none", "apart"} /\ OnFirstSocket)
        ~> (got \/ ~OnFirstSocket \/ handler[1] = "blind")

\* The page shows how the job stands, a request that failed, or a cached memo
\* that has taken the card over.
Excused ==
    \/ view = status
    \/ view = "failed" /\ errors > 0
    \/ view = "completed" /\ memoed

\* In the end the page shows how the job ended, unless a failed request or a
\* memo was the last to write: no stale reply or frame, no reconnect and no
\* lost frame wins for good.
ViewSettles == (status \in Terminal) ~> []Excused
=============================================================================
