----------------------------- MODULE VlaServing -----------------------------
(***************************************************************************)
(* vla-server and its clients (eval/client/vla_cpp_client.py): each client *)
(* drives one REQ socket with a receive timeout, REQ_RELAXED (a request    *)
(* may follow one that was never answered) and REQ_CORRELATE (a reply that *)
(* is not to the last request is dropped). A call that times out raises,   *)
(* and its reply may still come; request ids start over in each episode.   *)
(*                                                                         *)
(* Other programs may send the server anything.                            *)
(***************************************************************************)
EXTENDS VlaServer

CONSTANTS
  Client,       \* the peers that are Python clients
  Steps,        \* n_action_steps
  FixedNoise,   \* VLA_FIXED_NOISE_SEED is set
  MaxRequests,  \* bound on observations predicted from, and other requests
  MaxEpisodes

ASSUME ServingAssumption ==
  /\ Client \subseteq Peer
  /\ Steps \in Nat \ {0}
  /\ FixedNoise \in BOOLEAN
  /\ MaxStarts \in Nat /\ MaxRequests \in Nat /\ MaxEpisodes \in Nat

VARIABLES
  pc,        \* each client: idle, probe, wait (in recv)
  corr,      \* the number of its socket's last request
  step,      \* _step, the request id
  episode,   \* _episode
  noiseLen,  \* _noise_len is known
  asking,    \* the observation the call in progress predicts from
  kind,      \* what the server will make of its request
  queue,     \* _action_queue
  acted,     \* auxiliary: the last action get_action returned
  asked,     \* auxiliary: observations predicted from so far
  others     \* requests other programs sent so far

clientVars == <<pc, corr, step, episode, noiseLen, asking, kind, queue, acted, asked, others>>
vars == <<serverVars, clientVars>>

-----------------------------------------------------------------------------
NoObs == [episode |-> 0, nr |-> 0]

Init ==
  /\ ServerInit
  /\ pc       = [c \in Client |-> "idle"]
  /\ corr     = [c \in Client |-> 0]
  /\ step     = [c \in Client |-> 0]
  /\ episode  = [c \in Client |-> 0]
  /\ noiseLen = [c \in Client |-> FALSE]
  /\ asking   = [c \in Client |-> NoObs]
  /\ kind     = [c \in Client |-> "good"]
  /\ queue    = [c \in Client |-> <<>>]
  /\ acted    = [c \in Client |-> [of |-> NoObs, row |-> 0]]
  /\ asked    = 0
  /\ others   = 0

\* REQ: the request goes out under a new number, and what came back and was not
\* read is discarded.
SendReq(c, r) ==
  /\ corr' = [corr EXCEPT ![c] = @ + 1]
  /\ inbox' = [inbox EXCEPT ![c] = Append(@, r)]
  /\ back' = [back EXCEPT ![c] = <<>>]

Request(c, id, obs, k) == [corr |-> corr[c] + 1, rid |-> id, obs |-> obs, kind |-> k]

\* get_action on an empty queue: the observation is packed and sent; when the
\* noise is fixed and its length unknown, a first request asks for it.
Ask(c) ==
  LET o == [episode |-> episode[c], nr |-> asked + 1] IN
  /\ pc[c] = "idle" /\ queue[c] = <<>>
  /\ asked < MaxRequests
  /\ asked' = asked + 1
  /\ asking' = [asking EXCEPT ![c] = o]
  /\ step' = [step EXCEPT ![c] = @ + 1]
  /\ pc' = [pc EXCEPT ![c] = IF FixedNoise /\ ~noiseLen[c] THEN "probe" ELSE "wait"]
  /\ \E k \in {"good", "refused"} :
       kind' = [kind EXCEPT ![c] = k] /\ SendReq(c, Request(c, step[c], o, k))
  /\ UNCHANGED <<loop, episode, noiseLen, queue, acted, others>>

\* A broken variant: a reply is known by its request id.
ComesById(c) == pc[c] # "idle" /\ back[c] # <<>> /\ Head(back[c]).rid = step[c] - 1

\* What recv returns: the reply to the last request. REQ_CORRELATE drops others.
Comes(c) == pc[c] # "idle" /\ back[c] # <<>> /\ Head(back[c]).corr = corr[c]

Read(c) == back' = [back EXCEPT ![c] = Tail(@)]

\* The call is over, with an action or with an exception.
Done(c) ==
  /\ pc' = [pc EXCEPT ![c] = "idle"]
  /\ asking' = [asking EXCEPT ![c] = NoObs]

DropLate(c) ==
  /\ pc[c] # "idle" /\ back[c] # <<>> /\ ~Comes(c)
  /\ Read(c)
  /\ UNCHANGED <<loop, inbox, clientVars>>

\* The probe's reply tells the length; the request goes out again, with noise.
Probed(c) ==
  /\ pc[c] = "probe"
  /\ Comes(c) /\ Head(back[c]).ok
  /\ noiseLen' = [noiseLen EXCEPT ![c] = TRUE]
  /\ SendReq(c, Request(c, step[c] - 1, asking[c], kind[c]))
  /\ pc' = [pc EXCEPT ![c] = "wait"]
  /\ UNCHANGED <<loop, step, episode, asking, kind, queue, acted, asked, others>>

Chunk(o) == [i \in 1 .. Steps |-> [of |-> o, row |-> i]]

\* A broken variant: the row returned stays first in the queue.
GiveFirst(c, rows) ==
  /\ acted' = [acted EXCEPT ![c] = Head(rows)]
  /\ queue' = [queue EXCEPT ![c] = rows]

\* The first row is returned, the others stay in the queue.
Give(c, rows) ==
  /\ acted' = [acted EXCEPT ![c] = Head(rows)]
  /\ queue' = [queue EXCEPT ![c] = Tail(rows)]

Answered(c) ==
  /\ pc[c] = "wait"
  /\ Comes(c) /\ Head(back[c]).ok
  /\ Give(c, Chunk(Head(back[c]).obs))
  /\ Read(c)
  /\ Done(c)
  /\ UNCHANGED <<loop, inbox, corr, step, episode, noiseLen, kind, asked, others>>

\* RuntimeError: the reply is an error.
ErrorReply(c) ==
  /\ Comes(c) /\ ~Head(back[c]).ok
  /\ Read(c)
  /\ Done(c)
  /\ UNCHANGED <<loop, inbox, corr, step, episode, noiseLen, kind, queue, acted, asked, others>>

\* zmq.Again after RCVTIMEO.
Timeout(c) ==
  /\ pc[c] # "idle"
  /\ Done(c)
  /\ UNCHANGED <<serverVars, corr, step, episode, noiseLen, kind, queue, acted, asked, others>>

\* get_action with rows left.
Act(c) ==
  /\ pc[c] = "idle" /\ queue[c] # <<>>
  /\ Give(c, queue[c])
  /\ UNCHANGED <<serverVars, pc, corr, step, episode, noiseLen, asking, kind, asked, others>>

Reset(c) ==
  /\ pc[c] = "idle"
  /\ episode[c] < MaxEpisodes
  /\ queue' = [queue EXCEPT ![c] = <<>>]
  /\ episode' = [episode EXCEPT ![c] = @ + 1]
  /\ step' = [step EXCEPT ![c] = 0]
  /\ UNCHANGED <<serverVars, pc, corr, noiseLen, asking, kind, acted, asked, others>>

\* Another program sends a request of any kind, and does not wait.
OtherSends(p) ==
  /\ others < MaxRequests
  /\ others' = others + 1
  /\ \E k \in Kind :
       inbox' = [inbox EXCEPT ![p] = Append(@, [corr |-> 0, rid |-> 0, obs |-> NoObs, kind |-> k])]
  /\ UNCHANGED <<loop, back, pc, corr, step, episode, noiseLen, asking, kind, queue, acted, asked>>

Receives(c) == DropLate(c) \/ Probed(c) \/ Answered(c) \/ ErrorReply(c)

ServerStep == (Start \/ Serve \/ PollNothing) /\ UNCHANGED clientVars

Calm ==
  \/ ServerStep
  \/ \E c \in Client : Ask(c) \/ Receives(c) \/ Timeout(c) \/ Act(c) \/ Reset(c)
  \/ \E p \in Peer \ Client : OtherSends(p)

Next == Calm \/ (ServerFaults /\ UNCHANGED clientVars)

Spec == Init /\ [][Next]_vars

\* A server that nothing but a signal stops, over a network that loses nothing.
CalmSpec ==
  /\ Init /\ [][Calm \/ (Signal /\ UNCHANGED clientVars)]_vars
  /\ ServerFairness
  /\ WF_vars(Start /\ UNCHANGED clientVars)
  /\ \A c \in Client : WF_vars(Receives(c))

-----------------------------------------------------------------------------
Obs == [episode : 0 .. MaxEpisodes, nr : 0 .. MaxRequests]

TypeOK ==
  /\ srv \in {"down", "top", "poll", "check", "reply"}
  /\ shutdown \in BOOLEAN /\ signalled \in BOOLEAN
  /\ rep \in {"recv", "send"}
  /\ srv \in {"check", "reply"} => got.from \in Peer
  /\ starts \in 0 .. MaxStarts
  /\ pc \in [Client -> {"idle", "probe", "wait"}]
  /\ corr \in [Client -> Nat] /\ step \in [Client -> Nat]
  /\ episode \in [Client -> 0 .. MaxEpisodes]
  /\ noiseLen \in [Client -> BOOLEAN]
  /\ asking \in [Client -> Obs]
  /\ DOMAIN queue = Client /\ \A c \in Client : Len(queue[c]) < Steps
  /\ asked \in 0 .. MaxRequests /\ others \in 0 .. MaxRequests

(* What the driver of the robot sees is what a policy client promises: an  *)
(* action is a row of the chunk for the observation of its own call, in    *)
(* order and once, and of the current episode; a late reply, to a call     *)
(* that timed out or to the probe, in this episode or the one before, is   *)
(* never acted on (get_action, reset and the REQ socket's options).        *)
Policy == INSTANCE PolicyClient
ImplementsPolicy == Policy!Spec

(* A server that stays up answers every call, behind whatever else it is   *)
(* asked and behind requests that were given up: no call is left to its    *)
(* timeout.                                                                *)
CallsAreAnswered ==
  \A c \in Client : pc[c] # "idle" ~> pc[c] = "idle" \/ signalled
=============================================================================
