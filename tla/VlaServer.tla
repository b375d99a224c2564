----------------------------- MODULE VlaServer ------------------------------
(***************************************************************************)
(* vla-server (src/serving/server.cpp): one thread that polls a ZMQ REP    *)
(* socket, checks a request, predicts, and replies, until a signal asks it *)
(* to stop. It may die at any point and be started again. The network may  *)
(* lose what is under way in either direction.                             *)
(*                                                                         *)
(* A request is of one of four kinds, for what the loop does with it:      *)
(* "frames" (more than one frame), "garbled" (not a PredictRequest),       *)
(* "refused" (one of the checks fails) and "good". What it asks about is   *)
(* its "obs"; "corr" is the number the client's socket gave it, which the  *)
(* REP socket returns with the reply.                                      *)
(***************************************************************************)
EXTENDS Naturals, Sequences

CONSTANTS
  Peer,       \* the sockets that may connect
  MaxStarts,  \* bound on the times the server is started
  None

VARIABLES
  srv,        \* where the server is in its loop: down, top, poll, check, reply
  shutdown,   \* g_shutdown
  signalled,  \* auxiliary: SIGINT or SIGTERM came
  rep,        \* what the REP socket is ready for: recv, send
  got,        \* the request being served
  out,        \* its reply
  starts,
  inbox,      \* by peer, the requests on their way to the server
  back        \* by peer, the replies on their way back

loop       == <<srv, shutdown, signalled, rep, got, out, starts>>
network    == <<inbox, back>>
serverVars == <<loop, network>>

Kind == {"frames", "garbled", "refused", "good"}

Reply(r, id, ok) == [corr |-> r.corr, rid |-> id, ok |-> ok, obs |-> IF ok THEN r.obs ELSE None]

-----------------------------------------------------------------------------
ServerInit ==
  /\ srv = "down"
  /\ shutdown = FALSE
  /\ signalled = FALSE
  /\ rep = "recv"
  /\ got = None
  /\ out = None
  /\ starts = 0
  /\ inbox = [p \in Peer |-> <<>>]
  /\ back  = [p \in Peer |-> <<>>]

\* The model is loaded and warmed up, the socket bound, the handlers installed.
Start ==
  /\ srv = "down"
  /\ starts < MaxStarts
  /\ starts' = starts + 1
  /\ srv' = "top"
  /\ shutdown' = FALSE
  /\ signalled' = FALSE
  /\ rep' = "recv"
  /\ UNCHANGED <<got, out, network>>

\* The loop's condition. Once it fails the socket is closed and main returns.
Loop ==
  /\ srv = "top"
  /\ srv' = IF shutdown THEN "down" ELSE "poll"
  /\ UNCHANGED <<shutdown, signalled, rep, got, out, starts, network>>

\* A broken variant: polls on without a look at the loop's condition.
PollOn == srv = "poll" /\ UNCHANGED serverVars

\* Nothing within 200 ms, or a signal interrupts the poll or the receive.
PollNothing ==
  /\ srv = "poll"
  /\ srv' = "top"
  /\ UNCHANGED <<shutdown, signalled, rep, got, out, starts, network>>

\* REP receives only when the last request was replied to, and turns to sending
\* once the last frame was read.
Recv(p) ==
  /\ srv = "poll"
  /\ rep = "recv"
  /\ inbox[p] # <<>>
  /\ got' = [from |-> p, req |-> Head(inbox[p])]
  /\ inbox' = [inbox EXCEPT ![p] = Tail(@)]
  /\ rep' = IF Head(inbox[p]).kind = "frames" THEN "recv" ELSE "send"
  /\ srv' = "check"
  /\ UNCHANGED <<shutdown, signalled, out, starts, back>>

\* A broken variant: refuses a request of several frames without reading them.
RefuseUndrained ==
  /\ srv = "check"
  /\ got.req.kind = "frames"
  /\ out' = Reply(got.req, 0, FALSE)
  /\ srv' = "reply"
  /\ UNCHANGED <<shutdown, signalled, rep, got, starts, network>>

\* drain_extra_frames reads the other frames, and the request is refused.
RefuseFrames ==
  /\ srv = "check"
  /\ got.req.kind = "frames"
  /\ rep' = "send"
  /\ out' = Reply(got.req, 0, FALSE)
  /\ srv' = "reply"
  /\ UNCHANGED <<shutdown, signalled, got, starts, network>>

RefuseGarbled ==
  /\ srv = "check"
  /\ got.req.kind = "garbled"
  /\ out' = Reply(got.req, 0, FALSE)
  /\ srv' = "reply"
  /\ UNCHANGED <<shutdown, signalled, rep, got, starts, network>>

\* A broken variant: a check that goes on to the next request without a reply.
RefuseSilently ==
  /\ srv = "check"
  /\ got.req.kind = "refused"
  /\ srv' = "top"
  /\ UNCHANGED <<shutdown, signalled, rep, got, out, starts, network>>

\* Counts, lengths, images, finite numbers: the first check that fails replies.
Refuse ==
  /\ srv = "check"
  /\ got.req.kind = "refused"
  /\ out' = Reply(got.req, got.req.rid, FALSE)
  /\ srv' = "reply"
  /\ UNCHANGED <<shutdown, signalled, rep, got, starts, network>>

\* The engine answers, or gives an empty chunk.
Predict ==
  /\ srv = "check"
  /\ got.req.kind = "good"
  /\ \E ok \in BOOLEAN : out' = Reply(got.req, got.req.rid, ok)
  /\ srv' = "reply"
  /\ UNCHANGED <<shutdown, signalled, rep, got, starts, network>>

\* send_reply. A REP socket that is not ready to send throws, and that ends the
\* server: it could never receive again.
Send ==
  /\ srv = "reply"
  /\ IF rep = "send"
       THEN /\ back' = [back EXCEPT ![got.from] = Append(@, out)]
            /\ rep' = "recv"
            /\ UNCHANGED shutdown
       ELSE /\ shutdown' = TRUE
            /\ UNCHANGED <<back, rep>>
  /\ srv' = "top"
  /\ got' = None /\ out' = None
  /\ UNCHANGED <<signalled, starts, inbox>>

Serve == \/ Loop \/ RefuseFrames \/ RefuseGarbled \/ Refuse \/ Predict \/ Send
         \/ \E p \in Peer : Recv(p)

\* on_signal.
Signal ==
  /\ srv # "down"
  /\ shutdown' = TRUE
  /\ signalled' = TRUE
  /\ UNCHANGED <<srv, rep, got, out, starts, network>>

\* The process dies: it is killed, or an exception of the engine reaches main.
Crash ==
  /\ srv # "down"
  /\ srv' = "down"
  /\ got' = None /\ out' = None
  /\ UNCHANGED <<shutdown, signalled, rep, starts, network>>

\* A connection breaks: the requests sent first are lost, and the replies sent
\* last. What a socket has not sent yet goes out when it has reconnected.
LoseRequest(p) ==
  /\ inbox[p] # <<>>
  /\ inbox' = [inbox EXCEPT ![p] = Tail(@)]
  /\ UNCHANGED <<loop, back>>

LoseReply(p) ==
  /\ back[p] # <<>>
  /\ back' = [back EXCEPT ![p] = SubSeq(@, 1, Len(@) - 1)]
  /\ UNCHANGED <<loop, inbox>>

ServerFaults == Signal \/ Crash \/ \E p \in Peer : LoseRequest(p) \/ LoseReply(p)

\* libzmq takes requests from its peers in turn.
ServerFairness ==
  /\ WF_serverVars(Loop)
  /\ WF_serverVars(RefuseFrames \/ RefuseGarbled \/ Refuse \/ Predict \/ Send)
  /\ \A p \in Peer : SF_serverVars(Recv(p))
  /\ WF_serverVars(PollNothing)

-----------------------------------------------------------------------------
(* Only a signal makes the server stop: no request, whatever it is, leaves *)
(* the REP socket where a reply fails (server.cpp, drain_extra_frames and  *)
(* send_reply).                                                            *)
StopsOnlyWhenSignalled == shutdown => signalled

(* A request that reached the server's socket is taken up, whatever came   *)
(* before it: the loop never leaves the socket waiting for a reply that    *)
(* nobody will send.                                                       *)
KeepsServing == \A p \in Peer : inbox[p] # <<>> ~> (inbox[p] = <<>> \/ srv = "down")

(* A signal ends the server, also in the middle of a request.              *)
SignalEndsIt == signalled /\ srv # "down" ~> srv = "down"
=============================================================================
