-------------------------- MODULE VlaServingProofs --------------------------
(***************************************************************************)
(* Proofs about VlaServing, for every set of peers and clients, every      *)
(* chunk length and every bound.                                           *)
(***************************************************************************)
EXTENDS VlaServing, Integers, TLAPS

Requests == [corr : Nat, rid : Int, obs : Obs, kind : Kind]
Replies  == [corr : Nat, rid : Int, ok : BOOLEAN, obs : Obs \cup {None}]
Rows     == [of : Obs, row : 1 .. Steps]

Elems(s) == {s[i] : i \in 1 .. Len(s)}

(* What is under way is well formed. *)
Traffic ==
  /\ inbox \in [Peer -> Seq(Requests)]
  /\ back \in [Peer -> Seq(Replies)]
  /\ srv \in {"check", "reply"} => got \in [from : Peer, req : Requests]
  /\ srv = "reply" => out \in Replies

Queues == queue \in [Client -> Seq(Rows)]

(* A message that carries the number of the client's last request is about *)
(* the observation the client is asking about; no number is ahead of it.   *)
AskedBy(c, m) ==
  /\ m.corr <= corr[c]
  /\ m.corr = corr[c] /\ pc[c] # "idle" => m.obs = asking[c]

AnswerTo(c, m) ==
  /\ m.corr <= corr[c]
  /\ m.corr = corr[c] /\ pc[c] # "idle" /\ m.ok => m.obs = asking[c]

Matched ==
  \A c \in Client :
    /\ \A m \in Elems(inbox[c]) : AskedBy(c, m)
    /\ \A m \in Elems(back[c]) : AnswerTo(c, m)
    /\ srv = "check" /\ got.from = c => AskedBy(c, got.req)
    /\ srv = "reply" /\ got.from = c => AnswerTo(c, out)

Asking == \A c \in Client : asking[c] = NoObs <=> pc[c] = "idle"

Kinds == kind \in [Client -> Kind]

IInv == TypeOK /\ Traffic /\ Queues /\ Matched /\ Asking /\ Kinds

-----------------------------------------------------------------------------
(* What the sequences of the network and of the queues keep. *)

LEMMA ElemsAppend ==
  ASSUME NEW S, NEW s \in Seq(S), NEW e \in S
  PROVE  /\ Append(s, e) \in Seq(S)
         /\ Elems(Append(s, e)) = Elems(s) \cup {e}
BY DEF Elems

LEMMA ElemsIn == ASSUME NEW S, NEW s \in Seq(S) PROVE Elems(s) \subseteq S
BY DEF Elems

LEMMA ElemsTail ==
  ASSUME NEW S, NEW s \in Seq(S), s # <<>>
  PROVE  /\ Head(s) \in S /\ Head(s) \in Elems(s)
         /\ Tail(s) \in Seq(S) /\ Len(Tail(s)) = Len(s) - 1
         /\ Elems(Tail(s)) \subseteq Elems(s)
BY DEF Elems

LEMMA ElemsFront ==
  ASSUME NEW S, NEW s \in Seq(S), s # <<>>
  PROVE  /\ SubSeq(s, 1, Len(s) - 1) \in Seq(S)
         /\ Elems(SubSeq(s, 1, Len(s) - 1)) \subseteq Elems(s)
BY DEF Elems

LEMMA ElemsEmpty ==
  ASSUME NEW S
  PROVE  <<>> \in Seq(S) /\ Elems(<<>>) = {} /\ Len(<<>>) = 0
BY DEF Elems

LEMMA ChunkOfRows ==
  ASSUME NEW o \in Obs, Steps \in Nat \ {0}
  PROVE  Chunk(o) \in Seq(Rows) /\ Len(Chunk(o)) = Steps /\ Chunk(o) # <<>>
BY DEF Chunk, Rows

-----------------------------------------------------------------------------
(* The invariant holds at first. *)
LEMMA InitInv == Init => IInv
<1> SUFFICES ASSUME Init PROVE IInv
  OBVIOUS
<1> USE ServingAssumption DEF Init, ServerInit
<1>1. TypeOK
  <2>1. NoObs \in Obs
    BY DEF NoObs, Obs
  <2>2. \A c \in Client : Len(queue[c]) < Steps
    BY ElemsEmpty
  <2>3. /\ srv \in {"down", "top", "poll", "check", "reply"}
        /\ srv \notin {"check", "reply"}
        /\ rep \in {"recv", "send"}
    OBVIOUS
  <2>6. shutdown \in BOOLEAN /\ signalled \in BOOLEAN
    BY Zenon
  <2>7. starts \in 0 .. MaxStarts
    OBVIOUS
  <2>4. /\ pc \in [Client -> {"idle", "probe", "wait"}]
        /\ corr \in [Client -> Nat] /\ step \in [Client -> Nat]
        /\ noiseLen \in [Client -> BOOLEAN]
        /\ DOMAIN queue = Client
    OBVIOUS
  <2>5. /\ episode \in [Client -> 0 .. MaxEpisodes]
        /\ asking \in [Client -> Obs]
        /\ asked \in 0 .. MaxRequests /\ others \in 0 .. MaxRequests
    BY <2>1
  <2> QED
    BY <2>2, <2>3, <2>4, <2>5, <2>6, <2>7 DEF TypeOK
<1>2. Traffic /\ Queues
  BY ElemsEmpty DEF Traffic, Queues
<1>3. Matched
  BY ElemsEmpty DEF Matched
<1>4. Asking /\ Kinds
  BY DEF Asking, Kinds, Kind
<1> QED
  BY <1>1, <1>2, <1>3, <1>4 DEF IInv

-----------------------------------------------------------------------------
(* The server and the network move messages and make none up: a reply      *)
(* carries the number and the observation of the request it answers.       *)
LEMMA ReplyAnswers ==
  ASSUME NEW r \in Requests, NEW id \in Int, NEW ok \in BOOLEAN
  PROVE  /\ Reply(r, id, ok) \in Replies
         /\ \A c \in Client : AskedBy(c, r) => AnswerTo(c, Reply(r, id, ok))
BY DEF Requests, Replies, Reply, AskedBy, AnswerTo

\* A step of the loop that neither receives nor sends.
LEMMA Stays ==
  ASSUME IInv, UNCHANGED <<network, clientVars>>,
         srv' \in {"down", "top", "poll"}, rep' \in {"recv", "send"},
         shutdown' \in BOOLEAN, signalled' \in BOOLEAN, starts' \in 0 .. MaxStarts
  PROVE  IInv'
<1>1. TypeOK'
  BY DEF IInv, TypeOK, clientVars, Obs
<1>2. Traffic' /\ Queues'
  BY DEF IInv, Traffic, Queues, network, clientVars, Requests, Replies, Rows, Obs
<1>3. Matched' /\ Asking' /\ Kinds'
  BY DEF IInv, Matched, AskedBy, AnswerTo, Asking, network, clientVars, Elems, NoObs, Kinds, Kind
<1> QED
  BY <1>1, <1>2, <1>3 DEF IInv

\* A step of the loop that makes the reply to the request it holds.
LEMMA Replied ==
  ASSUME IInv, UNCHANGED <<network, clientVars, shutdown, signalled, got, starts>>,
         srv = "check", srv' = "reply", rep' \in {"recv", "send"},
         NEW id \in Int, NEW ok \in BOOLEAN, out' = Reply(got.req, id, ok)
  PROVE  IInv'
<1>1. got \in [from : Peer, req : Requests] /\ got.req \in Requests
  BY DEF IInv, Traffic
<1>2. out' \in Replies /\ \A c \in Client : AskedBy(c, got.req) => AnswerTo(c, out')
  BY <1>1, ReplyAnswers
<1>3. TypeOK'
  BY <1>1 DEF IInv, TypeOK, network, clientVars, Obs
<1>4. Traffic' /\ Queues'
  BY <1>1, <1>2 DEF IInv, Traffic, Queues, network, clientVars, Requests, Replies, Rows, Obs
<1>5. Matched'
  BY <1>2 DEF IInv, Matched, AskedBy, AnswerTo, network, clientVars, Elems
<1>6. Asking' /\ Kinds'
  BY DEF IInv, Asking, clientVars, NoObs, Kinds, Kind
<1> QED
  BY <1>3, <1>4, <1>5, <1>6 DEF IInv

LEMMA RecvInv == ASSUME IInv, NEW p \in Peer, Recv(p), UNCHANGED clientVars PROVE IInv'
<1> USE DEF Recv
<1>1. inbox[p] \in Seq(Requests) /\ inbox[p] # <<>>
  BY DEF IInv, Traffic
<1>2. /\ Head(inbox[p]) \in Requests /\ Head(inbox[p]) \in Elems(inbox[p])
      /\ Tail(inbox[p]) \in Seq(Requests)
      /\ Elems(Tail(inbox[p])) \subseteq Elems(inbox[p])
  BY <1>1, ElemsTail
<1>3. TypeOK'
  BY DEF IInv, TypeOK, clientVars, Obs
<1>4. Traffic' /\ Queues'
  BY <1>2 DEF IInv, Traffic, Queues, clientVars, Requests, Replies, Rows, Obs
<1>5. Matched'
  <2> SUFFICES ASSUME NEW c \in Client
               PROVE  /\ \A m \in Elems(inbox'[c]) : AskedBy(c, m)
                      /\ \A m \in Elems(back[c]) : AnswerTo(c, m)
                      /\ got'.from = c => AskedBy(c, got'.req)
    BY DEF Matched, clientVars, AskedBy, AnswerTo, Elems
  <2>1. Elems(inbox'[c]) \subseteq Elems(inbox[c])
    BY <1>2, ServingAssumption DEF IInv, Traffic
  <2>2. \A m \in Elems(inbox[c]) : AskedBy(c, m)
    BY DEF IInv, Matched
  <2>3. \A m \in Elems(back[c]) : AnswerTo(c, m)
    BY DEF IInv, Matched
  <2>4. got'.from = c => got'.req \in Elems(inbox[c])
    BY <1>2
  <2> QED
    BY <2>1, <2>2, <2>3, <2>4
<1>6. Asking' /\ Kinds'
  BY DEF IInv, Asking, clientVars, NoObs, Kinds, Kind
<1> QED
  BY <1>3, <1>4, <1>5, <1>6 DEF IInv

LEMMA SendInv == ASSUME IInv, Send, UNCHANGED clientVars PROVE IInv'
<1> USE DEF Send
<1> DEFINE q == got.from
<1>1. q \in Peer /\ out \in Replies /\ back[q] \in Seq(Replies)
  BY DEF IInv, Traffic
<1>2. /\ Append(back[q], out) \in Seq(Replies)
      /\ Elems(Append(back[q], out)) = Elems(back[q]) \cup {out}
  BY <1>1, ElemsAppend
<1>3. TypeOK'
  BY DEF IInv, TypeOK, clientVars, Obs
<1>4. Traffic' /\ Queues'
  <2>1. back' \in [Peer -> Seq(Replies)]
    BY <1>2 DEF IInv, Traffic
  <2> QED
    BY <2>1 DEF IInv, Traffic, Queues, clientVars, Requests, Replies, Rows, Obs
<1>5. Matched'
  <2> SUFFICES ASSUME NEW c \in Client
               PROVE  /\ \A m \in Elems(inbox[c]) : AskedBy(c, m)
                      /\ \A m \in Elems(back'[c]) : AnswerTo(c, m)
    BY DEF Matched, clientVars, AskedBy, AnswerTo, Elems
  <2>1. \/ back'[c] = back[c]
        \/ c = q /\ back'[c] = Append(back[q], out)
    BY <1>1, ServingAssumption DEF IInv, Traffic
  <2>2. c = q => AnswerTo(c, out)
    BY DEF IInv, Matched
  <2> QED
    BY <1>2, <2>1, <2>2 DEF IInv, Matched
<1>6. Asking' /\ Kinds'
  BY DEF IInv, Asking, clientVars, NoObs, Kinds, Kind
<1> QED
  BY <1>3, <1>4, <1>5, <1>6 DEF IInv

LEMMA ServerInv == ASSUME IInv, ServerStep PROVE IInv'
<1> USE DEF ServerStep, Serve
<1>0. /\ shutdown \in BOOLEAN /\ signalled \in BOOLEAN
      /\ rep \in {"recv", "send"} /\ starts \in 0 .. MaxStarts
  BY DEF IInv, TypeOK
<1>1. CASE Start
  <2>1. starts' \in 0 .. MaxStarts
    BY <1>0, <1>1, ServingAssumption DEF Start
  <2> QED
    BY <1>0, <1>1, <2>1, Stays DEF Start
<1>2. CASE Loop
  BY <1>0, <1>2, Stays DEF Loop
<1>3. CASE PollNothing
  BY <1>0, <1>3, Stays DEF PollNothing
<1>4. CASE RefuseFrames
  <2>1. /\ srv = "check" /\ srv' = "reply"
        /\ out' = Reply(got.req, 0, FALSE) /\ 0 \in Int /\ FALSE \in BOOLEAN
    BY <1>4 DEF RefuseFrames
  <2>2. /\ UNCHANGED <<network, clientVars, shutdown, signalled, got, starts>>
        /\ rep' \in {"recv", "send"}
    BY <1>0, <1>4 DEF RefuseFrames, network
  <2> QED
    BY <2>1, <2>2, Replied
<1>5. CASE RefuseGarbled
  <2>1. /\ srv = "check" /\ srv' = "reply"
        /\ out' = Reply(got.req, 0, FALSE) /\ 0 \in Int /\ FALSE \in BOOLEAN
    BY <1>5 DEF RefuseGarbled
  <2>2. /\ UNCHANGED <<network, clientVars, shutdown, signalled, got, starts>>
        /\ rep' \in {"recv", "send"}
    BY <1>0, <1>5 DEF RefuseGarbled, network
  <2> QED
    BY <2>1, <2>2, Replied
<1>6. CASE Refuse
  <2>1. got.req.rid \in Int
    BY <1>6 DEF Refuse, IInv, Traffic, Requests
  <2> QED
    BY <1>0, <1>6, <2>1, Replied DEF Refuse, network
<1>7. CASE Predict
  <2>1. got.req.rid \in Int
    BY <1>7 DEF Predict, IInv, Traffic, Requests
  <2>2. PICK ok \in BOOLEAN : out' = Reply(got.req, got.req.rid, ok)
    BY <1>7 DEF Predict
  <2> QED
    BY <1>0, <1>7, <2>1, <2>2, Replied DEF Predict, network
<1>8. CASE Send
  BY <1>8, SendInv
<1>9. CASE \E p \in Peer : Recv(p)
  BY <1>9, RecvInv
<1> QED
  BY <1>1, <1>2, <1>3, <1>4, <1>5, <1>6, <1>7, <1>8, <1>9

\* Losing messages, or reading them, keeps the others matched.
LEMMA MatchedKept ==
  ASSUME IInv, UNCHANGED <<srv, got, out, pc, corr, asking>>,
         \A d \in Client : /\ Elems(inbox'[d]) \subseteq Elems(inbox[d])
                           /\ Elems(back'[d]) \subseteq Elems(back[d])
  PROVE  Matched' /\ Asking'
<1>1. Asking'
  BY DEF IInv, Asking, NoObs
<1> SUFFICES ASSUME NEW d \in Client
             PROVE  /\ \A m \in Elems(inbox'[d]) : AskedBy(d, m)'
                    /\ \A m \in Elems(back'[d]) : AnswerTo(d, m)'
                    /\ srv = "check" /\ got.from = d => AskedBy(d, got.req)'
                    /\ srv = "reply" /\ got.from = d => AnswerTo(d, out)'
  BY <1>1 DEF Matched, AskedBy, AnswerTo, Elems
<1>2. /\ \A m \in Elems(inbox'[d]) : AskedBy(d, m)
      /\ \A m \in Elems(back'[d]) : AnswerTo(d, m)
      /\ srv = "check" /\ got.from = d => AskedBy(d, got.req)
      /\ srv = "reply" /\ got.from = d => AnswerTo(d, out)
  BY DEF IInv, Matched
<1> QED
  BY <1>2 DEF AskedBy, AnswerTo

LEMMA FaultsInv == ASSUME IInv, ServerFaults, UNCHANGED clientVars PROVE IInv'
<1> USE DEF ServerFaults
<1>1. CASE Signal
  <2> USE <1>1 DEF Signal
  <2>1. TypeOK'
    BY DEF IInv, TypeOK, clientVars, Obs
  <2>2. Traffic' /\ Queues'
    BY DEF IInv, Traffic, Queues, network, clientVars, Requests, Replies, Rows, Obs
  <2>3. Matched' /\ Asking' /\ Kinds'
    BY DEF IInv, Matched, AskedBy, AnswerTo, Asking, network, clientVars, Elems, NoObs, Kinds, Kind
  <2> QED
    BY <2>1, <2>2, <2>3 DEF IInv
<1>2. CASE Crash
  <2>1. /\ shutdown \in BOOLEAN /\ signalled \in BOOLEAN
        /\ rep \in {"recv", "send"} /\ starts \in 0 .. MaxStarts
    BY DEF IInv, TypeOK
  <2> QED
    BY <1>2, <2>1, Stays DEF Crash
<1>3. ASSUME NEW p \in Peer, LoseRequest(p) PROVE IInv'
  <2> USE <1>3 DEF LoseRequest, loop
  <2>1. inbox[p] \in Seq(Requests)
    BY DEF IInv, Traffic
  <2>2. Tail(inbox[p]) \in Seq(Requests) /\ Elems(Tail(inbox[p])) \subseteq Elems(inbox[p])
    BY <2>1, ElemsTail
  <2>3. TypeOK'
    BY DEF IInv, TypeOK, clientVars, Obs
  <2>4. Traffic' /\ Queues'
    BY <2>2 DEF IInv, Traffic, Queues, clientVars, Requests, Replies, Rows, Obs
  <2>5. \A c \in Client : Elems(inbox'[c]) \subseteq Elems(inbox[c])
    BY <2>2, ServingAssumption DEF IInv, Traffic
  <2>6. Matched' /\ Asking'
    BY <2>5, MatchedKept DEF clientVars
  <2>7. Kinds'
    BY DEF IInv, Kinds, Kind, clientVars
  <2> QED
    BY <2>3, <2>4, <2>6, <2>7 DEF IInv
<1>4. ASSUME NEW p \in Peer, LoseReply(p) PROVE IInv'
  <2> USE <1>4 DEF LoseReply, loop
  <2> DEFINE front == SubSeq(back[p], 1, Len(back[p]) - 1)
  <2>1. back[p] \in Seq(Replies)
    BY DEF IInv, Traffic
  <2>2. front \in Seq(Replies) /\ Elems(front) \subseteq Elems(back[p])
    BY <2>1, ElemsFront
  <2>3. TypeOK'
    BY DEF IInv, TypeOK, clientVars, Obs
  <2>4. Traffic' /\ Queues'
    BY <2>2 DEF IInv, Traffic, Queues, clientVars, Requests, Replies, Rows, Obs
  <2>5. \A c \in Client : Elems(back'[c]) \subseteq Elems(back[c])
    BY <2>2, ServingAssumption DEF IInv, Traffic
  <2>6. Matched' /\ Asking'
    BY <2>5, MatchedKept DEF clientVars
  <2>7. Kinds'
    BY DEF IInv, Kinds, Kind, clientVars
  <2> QED
    BY <2>3, <2>4, <2>6, <2>7 DEF IInv
<1> QED
  BY <1>1, <1>2, <1>3, <1>4

-----------------------------------------------------------------------------
(* What a client's step does to its own messages. *)

LEMMA NoObsIsObs == NoObs \in Obs
BY ServingAssumption DEF NoObs, Obs

\* A step that ends a call: what is under way is about nothing asked any more.
LEMMA DoneKeeps ==
  ASSUME IInv, NEW c \in Client, Done(c), UNCHANGED <<loop, inbox, corr>>,
         \A d \in Client : Elems(back'[d]) \subseteq Elems(back[d])
  PROVE  /\ pc' \in [Client -> {"idle", "probe", "wait"}]
         /\ asking' \in [Client -> Obs]
         /\ Matched' /\ Asking'
<1> USE DEF Done, loop
<1>1. pc \in [Client -> {"idle", "probe", "wait"}] /\ asking \in [Client -> Obs]
  BY DEF IInv, TypeOK
<1>2. pc' \in [Client -> {"idle", "probe", "wait"}] /\ asking' \in [Client -> Obs]
  BY <1>1, NoObsIsObs
<1>3. \A d \in Client : \/ pc'[d] = "idle" /\ asking'[d] = NoObs
                        \/ pc'[d] = pc[d] /\ asking'[d] = asking[d]
  BY <1>1
<1>4. Matched'
  <2> SUFFICES ASSUME NEW d \in Client
               PROVE  /\ \A m \in Elems(inbox[d]) : AskedBy(d, m)'
                      /\ \A m \in Elems(back'[d]) : AnswerTo(d, m)'
                      /\ srv = "check" /\ got.from = d => AskedBy(d, got.req)'
                      /\ srv = "reply" /\ got.from = d => AnswerTo(d, out)'
    BY DEF Matched, AskedBy, AnswerTo, Elems
  <2>1. /\ \A m \in Elems(inbox[d]) : AskedBy(d, m)
        /\ \A m \in Elems(back'[d]) : AnswerTo(d, m)
        /\ srv = "check" /\ got.from = d => AskedBy(d, got.req)
        /\ srv = "reply" /\ got.from = d => AnswerTo(d, out)
    BY DEF IInv, Matched
  <2> QED
    BY <1>3, <2>1 DEF AskedBy, AnswerTo
<1>5. Asking'
  BY <1>3 DEF IInv, Asking, NoObs
<1> QED
  BY <1>2, <1>4, <1>5

\* Reading one message keeps the others.
LEMMA ReadKeeps ==
  ASSUME IInv, NEW c \in Client, back[c] # <<>>, Read(c)
  PROVE  /\ back' \in [Peer -> Seq(Replies)]
         /\ \A d \in Client : Elems(back'[d]) \subseteq Elems(back[d])
<1>1. back \in [Peer -> Seq(Replies)] /\ c \in Peer
  BY ServingAssumption DEF IInv, Traffic
<1>2. Tail(back[c]) \in Seq(Replies) /\ Elems(Tail(back[c])) \subseteq Elems(back[c])
  BY <1>1, ElemsTail
<1> QED
  BY <1>1, <1>2, ServingAssumption DEF Read

\* A request goes out: it is about what its client asks, under a number that
\* nothing under way carries.
LEMMA SendReqKeeps ==
  ASSUME IInv, NEW c \in Client, NEW r \in Requests, SendReq(c, r),
         r.corr = corr[c] + 1, r.obs = asking'[c], pc'[c] # "idle",
         UNCHANGED loop,
         \A d \in Client \ {c} : pc'[d] = pc[d] /\ asking'[d] = asking[d]
  PROVE  /\ corr' \in [Client -> Nat]
         /\ inbox' \in [Peer -> Seq(Requests)] /\ back' \in [Peer -> Seq(Replies)]
         /\ Matched'
<1> USE DEF SendReq, loop
<1>1. /\ inbox \in [Peer -> Seq(Requests)] /\ back \in [Peer -> Seq(Replies)]
      /\ c \in Peer /\ Client \subseteq Peer /\ corr \in [Client -> Nat]
  BY ServingAssumption DEF IInv, Traffic, TypeOK
<1>2. /\ Append(inbox[c], r) \in Seq(Requests)
      /\ Elems(Append(inbox[c], r)) = Elems(inbox[c]) \cup {r}
  BY <1>1, ElemsAppend
<1>3. <<>> \in Seq(Replies) /\ Elems(<<>>) = {}
  BY ElemsEmpty
<1>4. corr' \in [Client -> Nat] /\ corr'[c] = corr[c] + 1
  BY <1>1
<1>5. inbox' \in [Peer -> Seq(Requests)] /\ back' \in [Peer -> Seq(Replies)]
  BY <1>1, <1>2, <1>3
<1>6. ASSUME NEW d \in Client
      PROVE  /\ \A m \in Elems(inbox'[d]) : AskedBy(d, m)'
             /\ \A m \in Elems(back'[d]) : AnswerTo(d, m)'
             /\ srv = "check" /\ got.from = d => AskedBy(d, got.req)'
             /\ srv = "reply" /\ got.from = d => AnswerTo(d, out)'
  <2>1. /\ \A m \in Elems(inbox[d]) : AskedBy(d, m)
        /\ \A m \in Elems(back[d]) : AnswerTo(d, m)
        /\ srv = "check" /\ got.from = d => AskedBy(d, got.req)
        /\ srv = "reply" /\ got.from = d => AnswerTo(d, out)
    BY DEF IInv, Matched
  <2>2. CASE d = c
    <3>0. inbox[c] \in Seq(Requests)
      BY <1>1
    <3>1. \A m \in Elems(inbox[c]) : m.corr \in Nat
      BY <3>0, ElemsIn DEF Requests
    <3>2. srv = "check" => got.req.corr \in Nat
      BY DEF IInv, Traffic, Requests
    <3>3. srv = "reply" => out.corr \in Nat
      BY DEF IInv, Traffic, Replies
    <3>4. inbox'[c] = Append(inbox[c], r) /\ back'[c] = <<>>
      BY <1>1
    <3>5. AskedBy(c, r)'
      BY <1>4 DEF AskedBy, Requests
    <3>6. \A m \in Elems(inbox[c]) : AskedBy(c, m)'
      BY <1>1, <1>4, <2>1, <2>2, <3>1 DEF AskedBy
    <3>7. srv = "check" /\ got.from = c => AskedBy(c, got.req)'
      BY <1>1, <1>4, <2>1, <2>2, <3>2 DEF AskedBy
    <3>8. srv = "reply" /\ got.from = c => AnswerTo(c, out)'
      BY <1>1, <1>4, <2>1, <2>2, <3>3 DEF AnswerTo
    <3>9. \A m \in Elems(inbox'[c]) : AskedBy(c, m)'
      BY <1>2, <3>4, <3>5, <3>6
    <3>10. \A m \in Elems(back'[c]) : AnswerTo(c, m)'
      BY <1>3, <3>4
    <3> QED
      BY <2>2, <3>7, <3>8, <3>9, <3>10
  <2>3. CASE d # c
    <3>1. /\ inbox'[d] = inbox[d] /\ back'[d] = back[d] /\ corr'[d] = corr[d]
          /\ pc'[d] = pc[d] /\ asking'[d] = asking[d]
      BY <1>1, <2>3
    <3> QED
      BY <2>1, <3>1 DEF AskedBy, AnswerTo
  <2> QED
    BY <2>2, <2>3
<1>7. Matched'
  BY <1>6 DEF Matched, AskedBy, AnswerTo, Elems
<1> QED
  BY <1>4, <1>5, <1>7

\* The reply that comes is about the observation that was asked about.
LEMMA ComesIsAsked ==
  ASSUME IInv, NEW c \in Client, Comes(c), Head(back[c]).ok
  PROVE  Head(back[c]).obs = asking[c] /\ asking[c] \in Obs
<1>1. back[c] \in Seq(Replies) /\ back[c] # <<>> /\ pc[c] # "idle"
  BY ServingAssumption DEF IInv, Traffic, Comes
<1>2. Head(back[c]) \in Elems(back[c])
  BY <1>1, ElemsTail
<1> QED
  BY <1>1, <1>2 DEF IInv, Matched, AnswerTo, Comes, TypeOK

\* Giving the first of some rows leaves fewer than a chunk.
LEMMA GiveKeeps ==
  ASSUME IInv, NEW c \in Client, NEW rows \in Seq(Rows), rows # <<>>, Len(rows) <= Steps, Give(c, rows)
  PROVE  /\ Queues'
         /\ DOMAIN queue' = Client /\ \A d \in Client : Len(queue'[d]) < Steps
<1>1. Tail(rows) \in Seq(Rows) /\ Len(Tail(rows)) = Len(rows) - 1
  BY ElemsTail
<1>2. Len(rows) \in Nat
  OBVIOUS
<1>3. Len(Tail(rows)) < Steps
  BY <1>1, <1>2, ServingAssumption
<1>4. queue \in [Client -> Seq(Rows)] /\ \A d \in Client : Len(queue[d]) < Steps
  BY DEF IInv, Queues, TypeOK
<1>5. queue' = [queue EXCEPT ![c] = Tail(rows)]
  BY DEF Give
<1>6. queue' \in [Client -> Seq(Rows)] /\ \A d \in Client : queue'[d] = queue[d] \/ queue'[d] = Tail(rows)
  BY <1>1, <1>4, <1>5
<1> QED
  BY <1>3, <1>4, <1>6 DEF Queues, Rows, Obs

-----------------------------------------------------------------------------
(* Each step of a client keeps the invariant. *)

LEMMA AskInv == ASSUME IInv, NEW c \in Client, Ask(c) PROVE IInv'
<1> DEFINE o == [episode |-> episode[c], nr |-> asked + 1]
<1> USE DEF Ask, loop
<1>1. o \in Obs /\ o # NoObs /\ o.nr = asked + 1 /\ asked' \in 0 .. MaxRequests
  BY ServingAssumption DEF IInv, TypeOK, Obs, NoObs
<1>2. /\ pc' \in [Client -> {"idle", "probe", "wait"}] /\ asking' \in [Client -> Obs]
      /\ pc'[c] # "idle" /\ asking'[c] = o
      /\ \A d \in Client \ {c} : pc'[d] = pc[d] /\ asking'[d] = asking[d]
  BY <1>1 DEF IInv, TypeOK
<1>3. PICK k \in {"good", "refused"} : SendReq(c, Request(c, step[c], o, k))
  OBVIOUS
<1> DEFINE r == Request(c, step[c], o, k)
<1>4. r \in Requests /\ r.corr = corr[c] + 1 /\ r.obs = o
  BY <1>1, ServingAssumption DEF IInv, TypeOK, Request, Requests, Kind
<1>5. /\ corr' \in [Client -> Nat] /\ Matched'
      /\ inbox' \in [Peer -> Seq(Requests)] /\ back' \in [Peer -> Seq(Replies)]
  BY <1>2, <1>3, <1>4, SendReqKeeps
<1>6. step' \in [Client -> Nat]
  BY DEF IInv, TypeOK
<1>7. TypeOK'
  BY <1>1, <1>2, <1>5, <1>6 DEF IInv, TypeOK, Obs
<1>8. Traffic' /\ Queues'
  BY <1>5 DEF IInv, Traffic, Queues, Requests, Replies, Rows, Obs
<1>9. Asking'
  BY <1>1, <1>2 DEF IInv, Asking, NoObs
<1>10. Kinds'
  <2>1. PICK kd \in {"good", "refused"} : kind' = [kind EXCEPT ![c] = kd]
    OBVIOUS
  <2> QED
    BY <2>1 DEF IInv, Kinds, Kind
<1> QED
  BY <1>5, <1>7, <1>8, <1>9, <1>10 DEF IInv

LEMMA ProbedInv == ASSUME IInv, NEW c \in Client, Probed(c) PROVE IInv'
<1> USE DEF Probed, loop
<1> DEFINE r == Request(c, step[c] - 1, asking[c], kind[c])
<1>1. /\ pc' \in [Client -> {"idle", "probe", "wait"}] /\ pc'[c] # "idle"
      /\ noiseLen' \in [Client -> BOOLEAN]
      /\ \A d \in Client : d # c => pc'[d] = pc[d]
  BY DEF IInv, TypeOK
<1>2. kind[c] \in Kind
  BY DEF IInv, Kinds
<1>3. r \in Requests /\ r.corr = corr[c] + 1 /\ r.obs = asking[c]
  BY <1>2, ServingAssumption DEF IInv, TypeOK, Request, Requests
<1>4. /\ corr' \in [Client -> Nat] /\ Matched'
      /\ inbox' \in [Peer -> Seq(Requests)] /\ back' \in [Peer -> Seq(Replies)]
  BY <1>1, <1>3, SendReqKeeps
<1>5. TypeOK'
  BY <1>1, <1>4 DEF IInv, TypeOK, Obs
<1>6. Traffic' /\ Queues'
  BY <1>4 DEF IInv, Traffic, Queues, Requests, Replies, Rows, Obs
<1>7. Asking' /\ Kinds'
  BY <1>1 DEF IInv, Asking, NoObs, Kinds, Kind
<1> QED
  BY <1>4, <1>5, <1>6, <1>7 DEF IInv

LEMMA DropLateInv == ASSUME IInv, NEW c \in Client, DropLate(c) PROVE IInv'
<1> USE DEF DropLate, loop, clientVars
<1>1. /\ back' \in [Peer -> Seq(Replies)]
      /\ \A d \in Client : Elems(back'[d]) \subseteq Elems(back[d])
  BY ReadKeeps
<1>2. TypeOK'
  BY DEF IInv, TypeOK, Obs
<1>3. Traffic' /\ Queues'
  BY <1>1 DEF IInv, Traffic, Queues, Requests, Replies, Rows, Obs
<1>4. Matched' /\ Asking'
  BY <1>1, MatchedKept
<1>5. Kinds'
  BY DEF IInv, Kinds, Kind
<1> QED
  BY <1>2, <1>3, <1>4, <1>5 DEF IInv

LEMMA AnsweredInv == ASSUME IInv, NEW c \in Client, Answered(c) PROVE IInv'
<1> USE DEF Answered, loop
<1>1. back[c] # <<>>
  BY DEF Comes
<1>2. /\ back' \in [Peer -> Seq(Replies)]
      /\ \A d \in Client : Elems(back'[d]) \subseteq Elems(back[d])
  BY <1>1, ReadKeeps
<1>3. /\ pc' \in [Client -> {"idle", "probe", "wait"}] /\ asking' \in [Client -> Obs]
      /\ Matched' /\ Asking'
  BY <1>2, DoneKeeps
<1>4. Head(back[c]).obs \in Obs
  BY ComesIsAsked
<1>5. Queues' /\ DOMAIN queue' = Client /\ \A d \in Client : Len(queue'[d]) < Steps
  <2> DEFINE rows == Chunk(Head(back[c]).obs)
  <2>1. rows \in Seq(Rows) /\ Len(rows) = Steps /\ rows # <<>>
    BY <1>4, ChunkOfRows, ServingAssumption
  <2>2. Len(rows) <= Steps
    BY <2>1, ServingAssumption
  <2> HIDE DEF rows
  <2> QED
    BY <2>1, <2>2, GiveKeeps DEF rows
<1>6. TypeOK'
  BY <1>3, <1>5 DEF IInv, TypeOK, Obs
<1>7. Traffic' /\ Kinds'
  BY <1>2 DEF IInv, Traffic, Requests, Replies, Obs, Kinds, Kind
<1> QED
  BY <1>3, <1>5, <1>6, <1>7 DEF IInv

LEMMA EndsInv ==
  ASSUME IInv, NEW c \in Client, ErrorReply(c) \/ Timeout(c) PROVE IInv'
<1> USE DEF ErrorReply, Timeout, loop, serverVars, network
<1>1. /\ back' \in [Peer -> Seq(Replies)]
      /\ \A d \in Client : Elems(back'[d]) \subseteq Elems(back[d])
  <2>1. CASE ErrorReply(c)
    BY <2>1, ReadKeeps DEF Comes
  <2>2. CASE Timeout(c)
    BY <2>2 DEF IInv, Traffic
  <2> QED
    BY <2>1, <2>2
<1>2. Done(c) /\ UNCHANGED <<loop, inbox, corr, step, episode, noiseLen, kind, queue, acted, asked, others>>
  OBVIOUS
<1>3. /\ pc' \in [Client -> {"idle", "probe", "wait"}] /\ asking' \in [Client -> Obs]
      /\ Matched' /\ Asking'
  BY <1>1, <1>2, DoneKeeps
<1>4. TypeOK'
  BY <1>2, <1>3 DEF IInv, TypeOK, Obs
<1>5. Traffic' /\ Queues' /\ Kinds'
  BY <1>1, <1>2 DEF IInv, Traffic, Queues, Requests, Replies, Rows, Obs, Kinds, Kind
<1> QED
  BY <1>3, <1>4, <1>5 DEF IInv

LEMMA ActInv == ASSUME IInv, NEW c \in Client, Act(c) PROVE IInv'
<1> USE DEF Act, serverVars, loop, network
<1>1. queue[c] \in Seq(Rows) /\ Len(queue[c]) < Steps
  BY DEF IInv, Queues, TypeOK
<1>2. Len(queue[c]) <= Steps
  BY <1>1, ServingAssumption
<1>3. Queues' /\ DOMAIN queue' = Client /\ \A d \in Client : Len(queue'[d]) < Steps
  BY <1>1, <1>2, GiveKeeps
<1>4. TypeOK'
  BY <1>3 DEF IInv, TypeOK, Obs
<1>5. Traffic' /\ Kinds'
  BY DEF IInv, Traffic, Requests, Replies, Obs, Kinds, Kind
<1>7. Matched' /\ Asking'
  BY MatchedKept
<1> QED
  BY <1>3, <1>4, <1>5, <1>7 DEF IInv

LEMMA ResetInv == ASSUME IInv, NEW c \in Client, Reset(c) PROVE IInv'
<1> USE DEF Reset, serverVars, loop, network
<1>1. /\ queue' \in [Client -> Seq(Rows)]
      /\ \A d \in Client : queue'[d] = queue[d] \/ queue'[d] = <<>>
  BY ElemsEmpty DEF IInv, Queues
<1>2. \A d \in Client : Len(queue'[d]) < Steps
  BY <1>1, ElemsEmpty, ServingAssumption DEF IInv, TypeOK
<1>3. /\ episode' \in [Client -> 0 .. MaxEpisodes] /\ step' \in [Client -> Nat]
      /\ DOMAIN queue' = Client
  BY <1>1, ServingAssumption DEF IInv, TypeOK
<1>4. TypeOK'
  BY <1>2, <1>3 DEF IInv, TypeOK, Obs
<1>5. Traffic' /\ Kinds'
  BY DEF IInv, Traffic, Requests, Replies, Obs, Kinds, Kind
<1>7. Matched' /\ Asking'
  BY MatchedKept
<1>6. Queues'
  BY <1>1 DEF Queues, Rows, Obs
<1> QED
  BY <1>4, <1>5, <1>6, <1>7 DEF IInv

LEMMA OtherInv == ASSUME IInv, NEW p \in Peer \ Client, OtherSends(p) PROVE IInv'
<1> USE DEF OtherSends, loop
<1>1. PICK k \in Kind :
        inbox' = [inbox EXCEPT ![p] = Append(@, [corr |-> 0, rid |-> 0, obs |-> NoObs, kind |-> k])]
  OBVIOUS
<1> DEFINE r == [corr |-> 0, rid |-> 0, obs |-> NoObs, kind |-> k]
<1>2. r \in Requests
  BY NoObsIsObs DEF Requests
<1>3. inbox \in [Peer -> Seq(Requests)]
  BY DEF IInv, Traffic
<1>4. Append(inbox[p], r) \in Seq(Requests)
  BY <1>2, <1>3, ElemsAppend
<1>5. inbox' \in [Peer -> Seq(Requests)] /\ \A c \in Client : inbox'[c] = inbox[c]
  BY <1>1, <1>3, <1>4, ServingAssumption
<1>6. TypeOK'
  BY ServingAssumption DEF IInv, TypeOK, Obs
<1>7. Traffic' /\ Queues'
  BY <1>5 DEF IInv, Traffic, Queues, Requests, Replies, Rows, Obs
<1>8. Matched' /\ Asking'
  BY <1>5, MatchedKept
<1>9. Kinds'
  BY DEF IInv, Kinds, Kind
<1> QED
  BY <1>6, <1>7, <1>8, <1>9 DEF IInv

LEMMA StepInv == IInv /\ [Next]_vars => IInv'
<1> SUFFICES ASSUME IInv, [Next]_vars PROVE IInv'
  OBVIOUS
<1>1. CASE ServerStep
  BY <1>1, ServerInv
<1>2. CASE ServerFaults /\ UNCHANGED clientVars
  BY <1>2, FaultsInv
<1>3. ASSUME NEW c \in Client, Ask(c) \/ Receives(c) \/ Timeout(c) \/ Act(c) \/ Reset(c)
      PROVE  IInv'
  BY <1>3, AskInv, ProbedInv, DropLateInv, AnsweredInv, EndsInv, ActInv, ResetInv DEF Receives
<1>4. ASSUME NEW p \in Peer \ Client, OtherSends(p) PROVE IInv'
  BY <1>4, OtherInv
<1>5. CASE UNCHANGED vars
  <2> USE <1>5 DEF vars, serverVars, loop, network, clientVars
  <2>1. TypeOK'
    BY DEF IInv, TypeOK, Obs
  <2>2. Traffic' /\ Queues' /\ Kinds'
    BY DEF IInv, Traffic, Queues, Requests, Replies, Rows, Obs, Kinds, Kind
  <2>3. Matched' /\ Asking'
    BY DEF IInv, Matched, AskedBy, AnswerTo, Asking, Elems, NoObs
  <2> QED
    BY <2>1, <2>2, <2>3 DEF IInv
<1> QED
  BY <1>1, <1>2, <1>3, <1>4, <1>5 DEF Next, Calm

LEMMA Invariance == Spec => []IInv
BY InitInv, StepInv, PTL DEF Spec

(* Every variable keeps its type, and fewer rows than a chunk has wait in  *)
(* a client's queue (get_action).                                          *)
THEOREM TypeCorrect == Spec => []TypeOK
<1>1. IInv => TypeOK
  BY DEF IInv
<1> QED
  BY <1>1, Invariance, PTL

-----------------------------------------------------------------------------
(* The refinement. *)

LEMMA InitPolicy == Init => Policy!Init
BY DEF Init, NoObs, Policy!Init, Policy!NoObs

\* Each step of the serving system is a step of the policy client or none.
LEMMA StepPolicy ==
  ASSUME IInv, [Next]_vars
  PROVE  [Policy!Next]_(Policy!policyVars)
<1> USE DEF Policy!policyVars
<1>1. ASSUME NEW c \in Client, Ask(c) PROVE Policy!Ask(c)
  BY <1>1 DEF Ask, loop, IInv, Asking, NoObs, Policy!Ask, Policy!NoObs
<1>2. ASSUME NEW c \in Client, Answered(c) PROVE Policy!Answered(c)
  <2>1. Head(back[c]).obs = asking[c] /\ pc[c] = "wait"
    BY <1>2, ComesIsAsked DEF Answered
  <2>2. Give(c, Chunk(asking[c])) /\ Done(c) /\ UNCHANGED <<episode, asked>>
    BY <1>2, <2>1 DEF Answered
  <2>3. asking[c] # NoObs
    BY <2>1 DEF IInv, Asking
  <2> QED
    BY <2>2, <2>3 DEF Done, Give, Chunk, NoObs, Policy!Answered, Policy!Give, Policy!Chunk, Policy!NoObs
<1>3. ASSUME NEW c \in Client, ErrorReply(c) \/ Timeout(c) PROVE Policy!Failed(c)
  <2>1. pc[c] # "idle" /\ Done(c) /\ UNCHANGED <<episode, queue, acted, asked>>
    BY <1>3 DEF ErrorReply, Timeout, Comes
  <2> QED
    BY <2>1 DEF Done, IInv, Asking, NoObs, Policy!Failed, Policy!NoObs
<1>4. ASSUME NEW c \in Client, Act(c) PROVE Policy!Act(c)
  BY <1>4 DEF Act, Give, IInv, Asking, NoObs, Policy!Act, Policy!Give, Policy!NoObs
<1>5. ASSUME NEW c \in Client, Reset(c) PROVE Policy!Reset(c)
  BY <1>5 DEF Reset, IInv, Asking, NoObs, Policy!Reset, Policy!NoObs
<1>6. ASSUME NEW c \in Client, Probed(c) \/ DropLate(c) PROVE UNCHANGED Policy!policyVars
  BY <1>6 DEF Probed, DropLate, clientVars
<1>7. ASSUME NEW p \in Peer \ Client, OtherSends(p) PROVE UNCHANGED Policy!policyVars
  BY <1>7 DEF OtherSends
<1>8. CASE ServerStep \/ (ServerFaults /\ UNCHANGED clientVars) \/ UNCHANGED vars
  BY <1>8 DEF ServerStep, clientVars, vars
<1> QED
  BY <1>1, <1>2, <1>3, <1>4, <1>5, <1>6, <1>7, <1>8 DEF Next, Calm, Receives, Policy!Next

(* Whatever the server and the network do, whoever drives the robot sees a *)
(* policy client: no late reply is ever acted on (get_action, reset).      *)
THEOREM Refinement == Spec => ImplementsPolicy
<1>1. Init => Policy!Init
  BY InitPolicy
<1>2. IInv /\ [Next]_vars => [Policy!Next]_(Policy!policyVars)
  BY StepPolicy
<1> QED
  BY <1>1, <1>2, Invariance, PTL DEF Spec, ImplementsPolicy, Policy!Spec

-----------------------------------------------------------------------------
(* The REP socket turns to sending before the loop replies. *)
Lockstep ==
  /\ srv = "check" => rep = IF got.req.kind = "frames" THEN "recv" ELSE "send"
  /\ srv = "reply" => rep = "send"
  /\ StopsOnlyWhenSignalled

LEMMA StepLockstep == Lockstep /\ [Next]_vars => Lockstep'
<1> SUFFICES ASSUME Lockstep, [Next]_vars PROVE Lockstep'
  OBVIOUS
<1> USE DEF Lockstep, StopsOnlyWhenSignalled
<1>1. CASE Start \/ Loop \/ PollNothing \/ RefuseFrames \/ RefuseGarbled \/ Refuse \/ Predict
  <2>1. CASE Start
    BY <2>1 DEF Start
  <2>2. CASE Loop
    <3>1. srv' # "check" /\ srv' # "reply" /\ UNCHANGED <<shutdown, signalled>>
      BY <2>2 DEF Loop
    <3> QED
      BY <3>1
  <2>3. CASE PollNothing
    BY <2>3 DEF PollNothing
  <2>4. CASE RefuseFrames
    BY <2>4 DEF RefuseFrames
  <2>5. CASE RefuseGarbled \/ Refuse \/ Predict
    <3>1. /\ rep = "send" /\ srv' = "reply"
          /\ UNCHANGED <<rep, shutdown, signalled>>
      BY <2>5 DEF RefuseGarbled, Refuse, Predict
    <3> QED
      BY <3>1
  <2> QED
    BY <1>1, <2>1, <2>2, <2>3, <2>4, <2>5
<1>2. CASE Send
  BY <1>2 DEF Send
<1>3. ASSUME NEW p \in Peer, Recv(p) PROVE Lockstep'
  BY <1>3 DEF Recv
<1>4. CASE ServerFaults
  BY <1>4 DEF ServerFaults, Signal, Crash, LoseRequest, LoseReply, loop
<1>5. ASSUME NEW c \in Client, Ask(c) \/ Receives(c) \/ Timeout(c) \/ Act(c) \/ Reset(c)
      PROVE  Lockstep'
  BY <1>5 DEF Ask, Receives, DropLate, Probed, Answered, ErrorReply, Timeout, Act, Reset, serverVars, loop
<1>6. ASSUME NEW p \in Peer \ Client, OtherSends(p) PROVE Lockstep'
  BY <1>6 DEF OtherSends, loop
<1>7. CASE UNCHANGED vars
  BY <1>7 DEF vars, serverVars, loop
<1> QED
  BY <1>1, <1>2, <1>3, <1>4, <1>5, <1>6, <1>7 DEF Next, Calm, ServerStep, Serve

(* No request makes a reply fail: only a signal stops the server           *)
(* (drain_extra_frames, send_reply).                                       *)
THEOREM OnlySignalsStop == Spec => []StopsOnlyWhenSignalled
<1>1. Init => Lockstep
  BY DEF Init, ServerInit, Lockstep, StopsOnlyWhenSignalled
<1>2. Lockstep => StopsOnlyWhenSignalled
  BY DEF Lockstep
<1> QED
  BY <1>1, <1>2, StepLockstep, PTL DEF Spec
=============================================================================
