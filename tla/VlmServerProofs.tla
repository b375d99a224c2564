--------------------------- MODULE VlmServerProofs ---------------------------
(***************************************************************************)
(* Proofs about VlmServer, for every number of clients, every model and    *)
(* every limit: whose replies a client reads and what its transcript says. *)
(***************************************************************************)
EXTENDS VlmServer, Utf8Proofs

Serving == {"prefill", "decode", "final"}
Finish  == {"none", "stop", "length", "error"}
Jobs    == [c : Client, req : Requests, finish : Finish]
Message == [type : {"delta", "final", "garbled"}, rid : 0 .. MaxTurns, text : Texts, finish : Finish]
Said    == [text : Texts, special : BOOLEAN]
Turn    == [turn : 1 .. MaxTurns, text : Texts]

TypesOfEngine ==
  /\ server \in {"poll", "prefill", "decode", "final", "stopped"}
  /\ IF server \in Serving THEN cur \in Jobs ELSE cur = None
  /\ gen \in [raw : Texts, plain : Texts, pending : Texts, n : Nat]
  /\ Len(gen.pending) <= 3
  /\ said \in [Client -> [1 .. MaxTurns -> {None} \cup Said]]

TypesOfSocket ==
  /\ shutdown \in BOOLEAN /\ open \in BOOLEAN /\ failures \in 0 .. MaxFailures
  /\ torn \subseteq Client
  /\ pipe \in [Client -> Seq(Message)]
  /\ \A c \in Client : Len(pipe[c]) <= Hwm

TypesOfClients ==
  /\ inbox \in [Client -> Seq(Requests)]
  /\ cpc \in [Client -> {"idle", "waiting", "gone"}]
  /\ asked \in [Client -> Requests]
  /\ parts \in [Client -> Texts]
  /\ history \in [Client -> Seq(Turn)]

Types == TypesOfEngine /\ TypesOfSocket /\ TypesOfClients

Busy(c) == server \in Serving /\ cur.c = c

(* A client has one turn at a time: its request is on its way, or served,  *)
(* or its final is the last thing in its pipe, and never two of these.     *)
OneTurn(c) ==
  /\ cpc[c] = "idle" => inbox[c] = <<>> /\ pipe[c] = <<>> /\ ~Busy(c)
  /\ cpc[c] # "idle" => asked[c].rid >= 1
  /\ Len(inbox[c]) <= 1
  /\ inbox[c] # <<>> => inbox[c][1].rid = asked[c].rid /\ ~Busy(c)
  /\ Busy(c) => cur.req.rid = asked[c].rid
  /\ \A i \in DOMAIN pipe[c] : pipe[c][i].rid = asked[c].rid
  /\ \A i \in DOMAIN pipe[c] :
       pipe[c][i].type = "final" => i = Len(pipe[c]) /\ inbox[c] = <<>> /\ ~Busy(c)

(* Turns in the transcript are over, so what was said in them is settled.  *)
Transcript(c) ==
  /\ \A i, j \in DOMAIN history[c] : i < j => history[c][i].turn < history[c][j].turn
  /\ \A i \in DOMAIN history[c] :
       /\ history[c][i].turn <= asked[c].rid
       /\ cpc[c] # "idle" => history[c][i].turn < asked[c].rid
       /\ said[c][history[c][i].turn].text \in {history[c][i].text, <<>>}
  /\ \A i \in DOMAIN pipe[c] :
       pipe[c][i].type = "final" /\ pipe[c][i].finish # "error" =>
         said[c][pipe[c][i].rid].text = pipe[c][i].text

Good(c) == OneTurn(c) /\ Transcript(c)

ChatInv == Types /\ \A c \in Client : Good(c)

-----------------------------------------------------------------------------
(* Texts: what is cut is a text, and at most three bytes are held back. *)

LEMMA CutIsText == ASSUME NEW s \in Texts PROVE Cut(s) \in Texts
BY CutAndRest DEF Texts

LEMMA TakenTypes ==
  ASSUME Types, NEW p \in Piece
  PROVE  /\ Taken(p) \in [raw : Texts, plain : Texts, pending : Texts, n : Nat]
         /\ Len(Taken(p).pending) <= 3
         /\ gen.pending \o p \in Texts
<1> DEFINE pending == gen.pending \o p
           rest == SubSeq(pending, CompletePrefix(pending) + 1, Len(pending))
<1>1. p \in Texts /\ gen \in [raw : Texts, plain : Texts, pending : Texts, n : Nat]
  BY ChatAssumption DEF Types, TypesOfEngine, Texts
<1>2. pending \in Texts /\ gen.raw \o p \in Texts /\ gen.plain \o p \in Texts
  BY <1>1 DEF Texts
<1>3. CompletePrefix(pending) \in 0 .. Len(pending) /\ Len(pending) - CompletePrefix(pending) <= 3
  BY <1>2, Cuts DEF Texts
<1>4. rest \in Texts /\ Len(rest) <= 3
  <2> HIDE DEF pending
  <2> QED
    BY <1>2, <1>3 DEF Texts
<1>5. Taken(p) = [raw |-> gen.raw \o p, plain |-> IF p \in Special THEN gen.plain ELSE gen.plain \o p,
                  pending |-> rest, n |-> gen.n + 1]
  BY DEF Taken
<1> HIDE DEF pending, rest
<1>6. gen.n + 1 \in Nat
  BY <1>1
<1>7. (IF p \in Special THEN gen.plain ELSE gen.plain \o p) \in Texts
  BY <1>1, <1>2
<1>8. Taken(p) \in [raw : Texts, plain : Texts, pending : Texts, n : Nat] /\ Taken(p).pending = rest
  BY <1>2, <1>4, <1>5, <1>6, <1>7
<1> QED
  BY <1>2, <1>4, <1>8 DEF pending

LEMMA Empty == <<>> \in Texts
BY DEF Texts

-----------------------------------------------------------------------------
(* Sends. *)

\* What a send of m to c leaves: at most one more message in c's pipe, m or
\* a reply of that request that cannot be read.
LEMMA SendLeaves ==
  ASSUME Types, NEW c \in Client, NEW m \in Message, SendReply(c, m)
  PROVE  /\ TypesOfSocket'
         /\ \A d \in Client \ {c} : pipe'[d] = pipe[d]
         /\ \/ pipe'[c] = pipe[c]
            \/ \E x \in Message : /\ x = m \/ (x.type = "garbled" /\ x.rid = m.rid)
                                  /\ pipe'[c] = Append(pipe[c], x)
<1>0. /\ MaxFailures \in Nat /\ Hwm \in Nat
      /\ open \in BOOLEAN /\ shutdown \in BOOLEAN /\ failures \in 0 .. MaxFailures /\ torn \subseteq Client
      /\ pipe \in [Client -> Seq(Message)] /\ \A d \in Client : Len(pipe[d]) <= Hwm
  BY ChatAssumption DEF Types, TypesOfSocket
<1>1. CASE SendFails(c)
  <2>1. failures' \in 0 .. MaxFailures
    BY <1>0, <1>1 DEF SendFails
  <2> QED
    BY <1>0, <1>1, <2>1 DEF SendFails, TypesOfSocket
<1>2. CASE Deliver(c, m)
  <2>1. open' \in BOOLEAN /\ shutdown' \in BOOLEAN /\ failures' \in 0 .. MaxFailures
    BY <1>0, <1>2 DEF Deliver
  <2>2. torn' \subseteq Client
    BY <1>0, <1>2 DEF Deliver
  <2>3. CASE cpc[c] # "gone" /\ Len(pipe[c]) < Hwm
    <3> DEFINE x == IF open THEN Garbled(m.rid) ELSE m
    <3>1. pipe' = [pipe EXCEPT ![c] = Append(pipe[c], x)]
      BY <1>2, <2>3 DEF Deliver
    <3>2. x \in Message /\ (x = m \/ (x.type = "garbled" /\ x.rid = m.rid))
      BY Empty DEF Message, Garbled, Finish
    <3> HIDE DEF x
    <3>3. pipe'[c] = Append(pipe[c], x) /\ \A d \in Client \ {c} : pipe'[d] = pipe[d]
      BY <1>0, <3>1
    <3>4. Len(Append(pipe[c], x)) = Len(pipe[c]) + 1 /\ Append(pipe[c], x) \in Seq(Message) /\ Len(pipe[c]) \in Nat
      BY <1>0, <3>2
    <3>5. pipe' \in [Client -> Seq(Message)]
      BY <1>0, <3>1, <3>4
    <3>6. Len(pipe'[c]) <= Hwm
      BY <1>0, <2>3, <3>3, <3>4
    <3> QED
      BY <1>0, <2>1, <2>2, <3>2, <3>3, <3>5, <3>6 DEF TypesOfSocket
  <2>4. CASE ~(cpc[c] # "gone" /\ Len(pipe[c]) < Hwm)
    <3>1. pipe' = pipe
      BY <1>2, <2>4 DEF Deliver
    <3> QED
      BY <1>0, <2>1, <2>2, <3>1 DEF TypesOfSocket
  <2> QED
    BY <2>3, <2>4
<1> QED
  BY <1>1, <1>2 DEF SendReply

\* A client nobody touched.
LEMMA Untouched ==
  ASSUME NEW d \in Client, Good(d),
         inbox'[d] = inbox[d], pipe'[d] = pipe[d], cpc'[d] = cpc[d], asked'[d] = asked[d],
         history'[d] = history[d], said'[d] = said[d],
         Busy(d)' => Busy(d) /\ cur'.req = cur.req
  PROVE  Good(d)'
<1>1. OneTurn(d)'
  BY DEF Good, OneTurn
<1>2. Transcript(d)'
  BY DEF Good, Transcript
<1> QED
  BY <1>1, <1>2 DEF Good

\* A client that is sent one more message of its turn, which is a final only
\* if nothing of the turn is left.
LEMMA Sent ==
  ASSUME Types, NEW c \in Client, Good(c), NEW m \in Message, SendReply(c, m),
         m.rid = asked[c].rid, cpc[c] # "idle",
         \A i \in DOMAIN pipe[c] : pipe[c][i].type # "final",
         UNCHANGED <<cpc, asked, history>>,
         inbox'[c] \in {inbox[c], <<>>},
         Busy(c)' => Busy(c) /\ cur'.req = cur.req,
         m.type = "final" => inbox'[c] = <<>> /\ ~Busy(c)',
         \A i \in DOMAIN history[c] : said'[c][history[c][i].turn] = said[c][history[c][i].turn],
         m.type = "final" /\ m.finish # "error" => said'[c][m.rid].text = m.text
  PROVE  Good(c)'
<1>0. pipe[c] \in Seq(Message) /\ Len(pipe[c]) \in Nat
  BY DEF Types, TypesOfSocket
<1>1. \/ pipe'[c] = pipe[c]
      \/ \E x \in Message : /\ x = m \/ (x.type = "garbled" /\ x.rid = m.rid)
                            /\ pipe'[c] = Append(pipe[c], x)
  BY SendLeaves
<1>2. \A i \in DOMAIN pipe'[c] :
        \/ i \in DOMAIN pipe[c] /\ pipe'[c][i] = pipe[c][i]
        \/ i = Len(pipe'[c]) /\ pipe'[c][i] = m
        \/ i = Len(pipe'[c]) /\ pipe'[c][i].type = "garbled" /\ pipe'[c][i].rid = m.rid
  <2>1. CASE pipe'[c] = pipe[c]
    BY <2>1
  <2>2. ASSUME NEW x \in Message, x = m \/ (x.type = "garbled" /\ x.rid = m.rid), pipe'[c] = Append(pipe[c], x)
        PROVE  \A i \in DOMAIN pipe'[c] :
                 \/ i \in DOMAIN pipe[c] /\ pipe'[c][i] = pipe[c][i]
                 \/ i = Len(pipe'[c]) /\ pipe'[c][i] \in {m, x}
    <3>1. /\ DOMAIN pipe'[c] = 1 .. Len(pipe[c]) + 1 /\ Len(pipe'[c]) = Len(pipe[c]) + 1
          /\ DOMAIN pipe[c] = 1 .. Len(pipe[c])
          /\ pipe'[c][Len(pipe[c]) + 1] = x
          /\ \A i \in 1 .. Len(pipe[c]) : pipe'[c][i] = pipe[c][i]
      BY <1>0, <2>2
    <3> QED
      BY <1>0, <2>2, <3>1
  <2> QED
    BY <1>1, <2>1, <2>2
<1>3. \A i \in DOMAIN pipe'[c] : pipe'[c][i].rid = asked[c].rid
  BY <1>2 DEF Good, OneTurn
<1>4. \A i \in DOMAIN pipe'[c] : pipe'[c][i].type = "final" =>
         i = Len(pipe'[c]) /\ m.type = "final" /\ pipe'[c][i] = m
  BY <1>2
<1>5. inbox'[c] # <<>> => inbox'[c] = inbox[c] /\ inbox[c] # <<>>
  OBVIOUS
<1>6. Len(inbox'[c]) <= 1
  BY DEF Good, OneTurn
<1>7. OneTurn(c)'
  BY <1>3, <1>4, <1>5, <1>6 DEF Good, OneTurn
<1>8. Transcript(c)'
  BY <1>4 DEF Good, Transcript
<1> QED
  BY <1>7, <1>8 DEF Good

-----------------------------------------------------------------------------
\* What a step leaves alone keeps its type.
LEMMA TypesKept ==
  ASSUME Types
  PROVE  /\ UNCHANGED engine => TypesOfEngine'
         /\ UNCHANGED socket => TypesOfSocket'
         /\ UNCHANGED <<inbox, client>> => TypesOfClients'
<1>1. UNCHANGED engine => TypesOfEngine'
  BY DEF Types, TypesOfEngine, engine
<1>2. UNCHANGED socket => TypesOfSocket'
  BY DEF Types, TypesOfSocket, socket
<1>3. UNCHANGED <<inbox, client>> => TypesOfClients'
  BY DEF Types, TypesOfClients, client
<1> QED
  BY <1>1, <1>2, <1>3

\* The request at the head of a client's queue is the client's only one.
LEMMA OnlyRequest ==
  ASSUME ChatInv, NEW c \in Client, inbox[c] # <<>>
  PROVE  /\ Head(inbox[c]) \in Requests /\ Head(inbox[c]).rid = asked[c].rid
         /\ Tail(inbox[c]) = <<>> /\ ~Busy(c) /\ cpc[c] # "idle"
         /\ \A i \in DOMAIN pipe[c] : pipe[c][i].type # "final"
<1>1. inbox[c] \in Seq(Requests)
  BY DEF ChatInv, Types, TypesOfClients
<1>2. Good(c)
  BY DEF ChatInv
<1>3. Len(inbox[c]) \in Nat /\ Len(inbox[c]) # 0 /\ Len(inbox[c]) <= 1
  BY <1>1, <1>2, EmptySeq DEF Good, OneTurn
<1>4. Head(inbox[c]) \in Requests /\ Tail(inbox[c]) \in Seq(Requests) /\ Len(Tail(inbox[c])) = 0
  <2>1. Head(inbox[c]) \in Requests /\ Tail(inbox[c]) \in Seq(Requests) /\ Len(Tail(inbox[c])) = Len(inbox[c]) - 1
    BY <1>1, HeadTailProperties, Zenon
  <2>2. \A n, k : n \in Nat /\ n # 0 /\ n <= 1 /\ k = n - 1 => k = 0
    OBVIOUS
  <2> QED
    BY <1>3, <2>1, <2>2, Zenon
<1>5. Tail(inbox[c]) = <<>>
  BY <1>4, EmptySeq
<1>6. Head(inbox[c]) = inbox[c][1]
  BY <1>1
<1> QED
  BY <1>2, <1>4, <1>5, <1>6 DEF Good, OneTurn

\* It leaves the queue, and nothing else changes for anybody.
LEMMA Taken1 ==
  ASSUME ChatInv, NEW c \in Client, inbox[c] # <<>>, inbox' = [inbox EXCEPT ![c] = Tail(@)], UNCHANGED client
  PROVE  /\ TypesOfClients'
         /\ inbox'[c] = <<>> /\ \A d \in Client \ {c} : inbox'[d] = inbox[d]
<1>1. Tail(inbox[c]) = <<>>
  BY OnlyRequest
<1>2. inbox \in [Client -> Seq(Requests)]
  BY DEF ChatInv, Types, TypesOfClients
<1>3. inbox' = [inbox EXCEPT ![c] = <<>>]
  BY <1>1
<1>4. inbox' \in [Client -> Seq(Requests)]
  BY <1>2, <1>3
<1>5. TypesOfClients'
  BY <1>4 DEF ChatInv, Types, TypesOfClients, client
<1> QED
  BY <1>2, <1>3, <1>5

LEMMA DropOversizedInv == ASSUME ChatInv, NEW c \in Client, DropOversized(c) PROVE ChatInv'
<1>1. inbox[c] # <<>> /\ inbox' = [inbox EXCEPT ![c] = Tail(@)] /\ UNCHANGED <<engine, socket, client>>
  BY DEF DropOversized, Waiting
<1>2. TypesOfClients' /\ inbox'[c] = <<>> /\ \A d \in Client \ {c} : inbox'[d] = inbox[d]
  BY <1>1, Taken1
<1>3. Types'
  BY <1>1, <1>2, TypesKept DEF ChatInv, Types
<1>4. UNCHANGED <<pipe, cpc, asked, history, said, server, cur>>
  BY <1>1 DEF engine, socket, client
<1>5. Busy(c)' = Busy(c) /\ \A d \in Client : Busy(d)' => Busy(d) /\ cur'.req = cur.req
  BY <1>4 DEF Busy
<1>6. Good(c)'
  <2>1. Good(c) /\ ~Busy(c)' /\ Len(<<>>) = 0
    BY <1>1, <1>5, OnlyRequest DEF ChatInv
  <2>2. OneTurn(c)'
    BY <1>2, <1>4, <2>1 DEF Good, OneTurn
  <2>3. Transcript(c)'
    BY <1>4, <2>1 DEF Good, Transcript
  <2> QED
    BY <2>2, <2>3 DEF Good
<1>7. \A d \in Client \ {c} : Good(d)'
  BY <1>2, <1>4, <1>5, Untouched DEF ChatInv
<1> QED
  BY <1>3, <1>6, <1>7 DEF ChatInv

LEMMA RefuseInv == ASSUME ChatInv, NEW c \in Client, Refuse(c) PROVE ChatInv'
<1> DEFINE r == Head(inbox[c])
           m == Final(r.rid, <<>>, "error")
<1>1. /\ inbox[c] # <<>> /\ inbox' = [inbox EXCEPT ![c] = Tail(@)]
      /\ SendReply(c, m) /\ UNCHANGED <<engine, client>> /\ server = "poll"
  BY DEF Refuse, Waiting
<1>2. TypesOfClients' /\ inbox'[c] = <<>> /\ \A d \in Client \ {c} : inbox'[d] = inbox[d]
  BY <1>1, Taken1
<1>3. /\ r \in Requests /\ r.rid = asked[c].rid /\ cpc[c] # "idle"
      /\ \A i \in DOMAIN pipe[c] : pipe[c][i].type # "final"
  BY <1>1, OnlyRequest
<1>4. m \in Message /\ m.rid = asked[c].rid /\ m.finish = "error"
  BY <1>3, Empty DEF Message, Final, Finish, Requests
<1> HIDE DEF m, r
<1>5. Types /\ TypesOfSocket' /\ \A d \in Client \ {c} : pipe'[d] = pipe[d]
  BY <1>1, <1>4, SendLeaves DEF ChatInv
<1>6. Types'
  BY <1>1, <1>2, <1>5, TypesKept DEF Types
<1>7. UNCHANGED <<cpc, asked, history, said, server, cur>>
  BY <1>1 DEF engine, client
<1>8. \A d \in Client : ~Busy(d)'
  BY <1>1, <1>7 DEF Busy, Serving
<1>9. Good(c)'
  BY <1>1, <1>2, <1>3, <1>4, <1>5, <1>7, <1>8, Sent DEF ChatInv
<1>10. \A d \in Client \ {c} : Good(d)'
  BY <1>2, <1>5, <1>7, <1>8, Untouched DEF ChatInv
<1> QED
  BY <1>6, <1>9, <1>10 DEF ChatInv

LEMMA AcceptInv == ASSUME ChatInv, NEW c \in Client, Accept(c) PROVE ChatInv'
<1> DEFINE r == Head(inbox[c])
<1>1. /\ inbox[c] # <<>> /\ inbox' = [inbox EXCEPT ![c] = Tail(@)]
      /\ cur' = [c |-> c, req |-> r, finish |-> "none"] /\ server' = "prefill"
      /\ UNCHANGED <<gen, said, socket, client>>
  BY DEF Accept, Waiting
<1>2. TypesOfClients' /\ inbox'[c] = <<>> /\ \A d \in Client \ {c} : inbox'[d] = inbox[d]
  BY <1>1, Taken1
<1>3. /\ r \in Requests /\ r.rid = asked[c].rid /\ cpc[c] # "idle"
      /\ \A i \in DOMAIN pipe[c] : pipe[c][i].type # "final"
  BY <1>1, OnlyRequest
<1> HIDE DEF r
<1>4. TypesOfEngine'
  BY <1>1, <1>3 DEF ChatInv, Types, TypesOfEngine, Serving, Jobs, Finish
<1>5. Types'
  BY <1>1, <1>2, <1>4, TypesKept DEF ChatInv, Types
<1>6. UNCHANGED <<pipe, cpc, asked, history, said>>
  BY <1>1 DEF socket, client
<1>7. cur'.c = c /\ cur'.req = r
  BY <1>1
<1>8. Good(c)'
  <2>1. Good(c) /\ Len(<<>>) = 0
    BY DEF ChatInv
  <2>2. OneTurn(c)'
    BY <1>2, <1>3, <1>6, <1>7, <2>1 DEF Good, OneTurn
  <2>3. Transcript(c)'
    BY <1>6, <2>1 DEF Good, Transcript
  <2> QED
    BY <2>2, <2>3 DEF Good
<1>9. \A d \in Client \ {c} : ~Busy(d)'
  BY <1>7 DEF Busy
<1>10. \A d \in Client \ {c} : Good(d)'
  BY <1>2, <1>6, <1>9, Untouched DEF ChatInv
<1> QED
  BY <1>5, <1>8, <1>10 DEF ChatInv

-----------------------------------------------------------------------------
(* The decode loop. *)

LEMMA Serves ==
  ASSUME ChatInv, server \in Serving
  PROVE  /\ cur \in Jobs /\ cur.c \in Client /\ Busy(cur.c) /\ cur.req \in Requests
         /\ cur.req.rid = asked[cur.c].rid /\ cpc[cur.c] # "idle" /\ inbox[cur.c] = <<>>
         /\ \A i \in DOMAIN pipe[cur.c] : pipe[cur.c][i].type # "final"
<1>1. cur \in Jobs
  BY DEF ChatInv, Types, TypesOfEngine
<1>2. cur.c \in Client /\ cur.req \in Requests /\ Busy(cur.c)
  BY <1>1 DEF Jobs, Busy
<1>3. Good(cur.c)
  BY <1>2 DEF ChatInv
<1> QED
  BY <1>1, <1>2, <1>3 DEF Good, OneTurn

LEMMA Finishes ==
  ASSUME ChatInv, server \in Serving, NEW how \in Finish, FinishAs(how)
  PROVE  server' = "final" /\ cur' \in Jobs /\ cur'.c = cur.c /\ cur'.req = cur.req
<1>1. cur \in Jobs
  BY Serves
<1> QED
  BY <1>1 DEF FinishAs, Jobs

\* The engine goes on with its request, or ends; nobody else notices.
LEMMA EngineMoves ==
  ASSUME ChatInv, UNCHANGED <<inbox, client, pipe>>, TypesOfEngine', TypesOfSocket', UNCHANGED said,
         \A d \in Client : Busy(d)' => Busy(d) /\ cur'.req = cur.req
  PROVE  ChatInv'
<1>1. Types'
  BY TypesKept DEF ChatInv, Types
<1>2. \A d \in Client : Good(d)'
  BY Untouched DEF ChatInv, client
<1> QED
  BY <1>1, <1>2 DEF ChatInv

LEMMA PrefillInv == ASSUME ChatInv, Prefill PROVE ChatInv'
<1>1. server = "prefill" /\ gen' = NothingYet /\ UNCHANGED <<said, socket, inbox, client>>
  BY DEF Prefill
<1>2. server \in Serving
  BY <1>1 DEF Serving
<1>3. cur \in Jobs
  BY <1>2, Serves
<1>4. server' \in {"decode", "final"} /\ cur' \in Jobs /\ cur'.c = cur.c /\ cur'.req = cur.req
  <2>1. CASE server' = "decode" /\ UNCHANGED cur
    BY <1>3, <2>1
  <2>2. CASE FinishAs("error")
    <3>1. "error" \in Finish
      BY DEF Finish
    <3> QED
      BY <1>2, <2>2, <3>1, Finishes
  <2> QED
    BY <2>1, <2>2 DEF Prefill
<1>5. gen' \in [raw : Texts, plain : Texts, pending : Texts, n : Nat] /\ Len(gen'.pending) <= 3
  BY <1>1, Empty, EmptySeq DEF NothingYet
<1>6. TypesOfEngine'
  BY <1>1, <1>4, <1>5 DEF ChatInv, Types, TypesOfEngine, Serving
<1>7. UNCHANGED pipe /\ TypesOfSocket'
  BY <1>1, TypesKept DEF ChatInv, socket
<1>8. \A d \in Client : Busy(d)' => Busy(d) /\ cur'.req = cur.req
  BY <1>2, <1>4 DEF Busy
<1> QED
  BY <1>1, <1>6, <1>7, <1>8, EngineMoves

LEMMA EndOfGenerationInv == ASSUME ChatInv, EndOfGeneration \/ LengthReached PROVE ChatInv'
<1>1. server = "decode" /\ UNCHANGED <<gen, said, socket, inbox, client>>
  BY DEF EndOfGeneration, LengthReached
<1>2. server \in Serving
  BY <1>1 DEF Serving
<1>3. server' = "final" /\ cur' \in Jobs /\ cur'.c = cur.c /\ cur'.req = cur.req
  <2>1. "stop" \in Finish /\ "length" \in Finish
    BY DEF Finish
  <2>2. FinishAs("stop") \/ FinishAs("length")
    BY DEF EndOfGeneration, LengthReached
  <2> QED
    BY <1>2, <2>1, <2>2, Finishes
<1>4. TypesOfEngine'
  BY <1>1, <1>3 DEF ChatInv, Types, TypesOfEngine, Serving
<1>5. UNCHANGED pipe /\ TypesOfSocket'
  BY <1>1, TypesKept DEF ChatInv, socket
<1>6. \A d \in Client : Busy(d)' => Busy(d) /\ cur'.req = cur.req
  BY <1>2, <1>3 DEF Busy
<1> QED
  BY <1>1, <1>4, <1>5, <1>6, EngineMoves

LEMMA StopInv == ASSUME ChatInv, Stop PROVE ChatInv'
<1>1. server = "poll" /\ server' = "stopped" /\ UNCHANGED <<cur, gen, said, socket, inbox, client>>
  BY DEF Stop
<1>2. TypesOfEngine'
  BY <1>1 DEF ChatInv, Types, TypesOfEngine, Serving
<1>3. UNCHANGED pipe /\ TypesOfSocket'
  BY <1>1, TypesKept DEF ChatInv, socket
<1>4. \A d \in Client : ~Busy(d)'
  BY <1>1 DEF Busy, Serving
<1> QED
  BY <1>1, <1>2, <1>3, <1>4, EngineMoves

LEMMA SignalInv == ASSUME ChatInv, Signal PROVE ChatInv'
<1>1. shutdown' = TRUE /\ UNCHANGED <<engine, pipe, open, failures, torn, inbox, client>>
  BY DEF Signal
<1>2. TypesOfSocket'
  BY <1>1 DEF ChatInv, Types, TypesOfSocket
<1>3. UNCHANGED <<server, cur, said>>
  BY <1>1 DEF engine
<1>4. TypesOfEngine'
  BY <1>1, TypesKept DEF ChatInv
<1>5. \A d \in Client : Busy(d)' => Busy(d) /\ cur'.req = cur.req
  BY <1>3 DEF Busy
<1> QED
  BY <1>1, <1>2, <1>3, <1>4, <1>5, EngineMoves

LEMMA DecodeInv == ASSUME ChatInv, Decode PROVE ChatInv'
<1>1. server = "decode" /\ UNCHANGED <<said, inbox, client>>
  BY DEF Decode
<1>2. server \in Serving
  BY <1>1 DEF Serving
<1>3. PICK p \in Piece :
        /\ gen' = Taken(p)
        /\ \/ SendReply(cur.c, Delta(cur.req.rid, Cut(gen.pending \o p)))
           \/ UNCHANGED socket
  BY DEF Decode
<1> DEFINE m == Delta(cur.req.rid, Cut(gen.pending \o p))
<1>4. server' \in {"decode", "final"} /\ cur' \in Jobs /\ cur'.c = cur.c /\ cur'.req = cur.req
  <2>1. CASE UNCHANGED <<server, cur>>
    BY <1>1, <1>2, <2>1, Serves
  <2>2. CASE FinishAs("length") \/ FinishAs("error")
    <3>1. "error" \in Finish /\ "length" \in Finish
      BY DEF Finish
    <3> QED
      BY <1>2, <2>2, <3>1, Finishes
  <2> QED
    BY <2>1, <2>2 DEF Decode
<1>5. Taken(p) \in [raw : Texts, plain : Texts, pending : Texts, n : Nat] /\ Len(Taken(p).pending) <= 3
      /\ gen.pending \o p \in Texts
  BY TakenTypes DEF ChatInv
<1>6. TypesOfEngine'
  BY <1>1, <1>3, <1>4, <1>5 DEF ChatInv, Types, TypesOfEngine, Serving
<1>7. \A d \in Client : Busy(d)' => Busy(d) /\ cur'.req = cur.req
  BY <1>2, <1>4 DEF Busy
<1>8. CASE UNCHANGED socket
  <2>1. UNCHANGED pipe /\ TypesOfSocket'
    BY <1>8, TypesKept DEF ChatInv, socket
  <2> QED
    BY <1>1, <1>6, <1>7, <2>1, EngineMoves
<1>9. CASE SendReply(cur.c, m)
  <2>0. PICK c \in Client : c = cur.c
    BY <1>2, Serves
  <2>1. /\ c \in Client /\ cur.req \in Requests /\ cur.req.rid = asked[c].rid /\ cpc[c] # "idle"
        /\ \A i \in DOMAIN pipe[c] : pipe[c][i].type # "final"
    BY <1>2, <2>0, Serves
  <2>2. m \in Message /\ m.rid = asked[c].rid /\ m.type = "delta"
    BY <1>5, <2>1, CutIsText DEF Message, Delta, Finish, Requests
  <2> HIDE DEF m
  <2>3. SendReply(c, m)
    BY <1>9, <2>0
  <2>4. TypesOfSocket' /\ \A d \in Client \ {c} : pipe'[d] = pipe[d]
    BY <2>1, <2>2, <2>3, SendLeaves DEF ChatInv
  <2>5. UNCHANGED <<cpc, asked, history, said, inbox>>
    BY <1>1 DEF client
  <2>6. Types'
    BY <1>1, <1>6, <2>4, TypesKept DEF ChatInv, Types
  <2>7. Good(c)'
    BY <1>7, <2>1, <2>2, <2>3, <2>5, Sent DEF ChatInv
  <2>8. \A d \in Client \ {c} : Good(d)'
    BY <1>7, <2>4, <2>5, Untouched DEF ChatInv
  <2> QED
    BY <2>1, <2>6, <2>7, <2>8 DEF ChatInv
<1> QED
  BY <1>3, <1>8, <1>9

LEMMA SendFinalInv == ASSUME ChatInv, SendFinal PROVE ChatInv'
<1> DEFINE m == Final(cur.req.rid, Text, cur.finish)
           s == [text |-> Text, special |-> gen.raw # gen.plain]
<1>0. PICK c \in Client, rid \in 0 .. MaxTurns : c = cur.c /\ rid = cur.req.rid
  BY Serves DEF SendFinal, Serving, Requests
<1>1. /\ server = "final" /\ SendReply(c, m) /\ said' = [said EXCEPT ![c][rid] = s]
      /\ server' = "poll" /\ cur' = None /\ gen' = NothingYet /\ UNCHANGED <<inbox, client>>
  BY <1>0 DEF SendFinal
<1>2. server \in Serving
  BY <1>1 DEF Serving
<1>3. /\ cur \in Jobs /\ c \in Client /\ cur.req \in Requests /\ rid = asked[c].rid /\ cpc[c] # "idle"
      /\ inbox[c] = <<>> /\ \A i \in DOMAIN pipe[c] : pipe[c][i].type # "final"
  BY <1>0, <1>2, Serves
<1>4. Text \in Texts
  <2>1. gen.raw \in Texts /\ gen.plain \in Texts
    BY DEF ChatInv, Types, TypesOfEngine
  <2> QED
    BY <2>1, CutIsText DEF Text
<1>5. m \in Message /\ m.rid = rid /\ m.text = Text /\ s \in Said /\ s.text = Text
  BY <1>0, <1>3, <1>4 DEF Message, Final, Said, Requests, Jobs
<1>6. Good(c)
  BY <1>3 DEF ChatInv
<1>7. rid \in 1 .. MaxTurns
  BY <1>3, <1>6 DEF Good, OneTurn, Requests
<1> HIDE DEF m, s
<1>8. said \in [Client -> [1 .. MaxTurns -> {None} \cup Said]]
  BY DEF ChatInv, Types, TypesOfEngine
<1>9. /\ said' \in [Client -> [1 .. MaxTurns -> {None} \cup Said]]
      /\ \A d \in Client \ {c} : said'[d] = said[d]
      /\ said'[c][rid] = s /\ \A i \in 1 .. MaxTurns : i # rid => said'[c][i] = said[c][i]
  BY <1>1, <1>3, <1>5, <1>7, <1>8
<1>10. TypesOfEngine'
  <2>1. gen' \in [raw : Texts, plain : Texts, pending : Texts, n : Nat] /\ Len(gen'.pending) <= 3
    BY <1>1, Empty, EmptySeq DEF NothingYet
  <2> QED
    BY <1>1, <1>9, <2>1 DEF TypesOfEngine, Serving
<1>11. TypesOfSocket' /\ \A d \in Client \ {c} : pipe'[d] = pipe[d]
  BY <1>1, <1>3, <1>5, SendLeaves DEF ChatInv
<1>12. Types'
  BY <1>1, <1>10, <1>11, TypesKept DEF ChatInv, Types
<1>13. \A d \in Client : ~Busy(d)'
  BY <1>1 DEF Busy, Serving
<1>14. UNCHANGED <<cpc, asked, history, inbox>>
  BY <1>1 DEF client
<1>15. \A i \in DOMAIN history[c] : said'[c][history[c][i].turn] = said[c][history[c][i].turn]
  <2> SUFFICES ASSUME NEW i \in DOMAIN history[c]
               PROVE  said'[c][history[c][i].turn] = said[c][history[c][i].turn]
    OBVIOUS
  <2>1. history[c] \in Seq(Turn)
    BY <1>3 DEF ChatInv, Types, TypesOfClients
  <2>2. history[c][i].turn \in 1 .. MaxTurns
    <3>1. i \in 1 .. Len(history[c])
      BY <2>1, LenProperties, Zenon
    <3>2. history[c][i] \in Turn
      BY <2>1, <3>1, ElementOfSeq, Zenon
    <3> QED
      BY <3>2 DEF Turn
  <2>3. history[c][i].turn # rid
    BY <1>3, <1>6, <1>7, <2>2 DEF Good, Transcript
  <2> QED
    BY <1>9, <2>2, <2>3
<1>16. Good(c)'
  BY <1>1, <1>3, <1>5, <1>6, <1>9, <1>13, <1>14, <1>15, Sent DEF ChatInv
<1>17. \A d \in Client \ {c} : Good(d)'
  BY <1>9, <1>11, <1>13, <1>14, Untouched DEF ChatInv
<1> QED
  BY <1>12, <1>16, <1>17 DEF ChatInv

-----------------------------------------------------------------------------
(* The client. *)

\* A step of one client, which asks for nothing of another's.
LEMMA ClientMoves ==
  ASSUME ChatInv, NEW c \in Client, UNCHANGED engine, TypesOfSocket', TypesOfClients', Good(c)',
         \A d \in Client \ {c} : inbox'[d] = inbox[d] /\ pipe'[d] = pipe[d] /\ cpc'[d] = cpc[d]
                                  /\ asked'[d] = asked[d] /\ history'[d] = history[d]
  PROVE  ChatInv'
<1>1. Types'
  BY TypesKept DEF ChatInv, Types
<1>2. UNCHANGED <<server, cur, said>>
  BY DEF engine
<1>3. \A d \in Client : Busy(d)' => Busy(d) /\ cur'.req = cur.req
  BY <1>2 DEF Busy
<1>4. \A d \in Client \ {c} : Good(d)'
  BY <1>2, <1>3, Untouched DEF ChatInv
<1> QED
  BY <1>1, <1>4 DEF ChatInv

LEMMA SayInv == ASSUME ChatInv, NEW c \in Client, Say(c) PROVE ChatInv'
<1>0. /\ cpc[c] = "idle" /\ asked[c].rid < MaxTurns
      /\ parts' = [parts EXCEPT ![c] = <<>>] /\ cpc' = [cpc EXCEPT ![c] = "waiting"] /\ torn' = torn \ {c}
      /\ UNCHANGED <<engine, pipe, open, shutdown, failures, history>>
  BY DEF Say, NoParts
<1>1. PICK k \in Kind, b \in Budget, s \in BOOLEAN :
        LET r == [rid |-> asked[c].rid + 1, kind |-> k, stream |-> s, budget |-> b,
                  messages |-> 2 * Len(history[c]) + 1]
        IN  asked' = [asked EXCEPT ![c] = r] /\ inbox' = [inbox EXCEPT ![c] = Append(@, r)]
  BY DEF Say
<1> DEFINE r == [rid |-> asked[c].rid + 1, kind |-> k, stream |-> s, budget |-> b,
                 messages |-> 2 * Len(history[c]) + 1]
<1>2. /\ inbox \in [Client -> Seq(Requests)] /\ cpc \in [Client -> {"idle", "waiting", "gone"}]
      /\ asked \in [Client -> Requests] /\ parts \in [Client -> Texts] /\ history \in [Client -> Seq(Turn)]
      /\ MaxTurns \in Nat
  BY ChatAssumption DEF ChatInv, Types, TypesOfClients
<1>3. Good(c) /\ inbox[c] = <<>> /\ pipe[c] = <<>> /\ ~Busy(c)
  BY <1>0 DEF ChatInv, Good, OneTurn
<1>4. asked[c].rid \in 0 .. MaxTurns /\ Len(history[c]) \in Nat
  BY <1>2 DEF Requests
<1>5. r \in Requests /\ r.rid = asked[c].rid + 1
  <2>1. asked[c].rid + 1 \in 0 .. MaxTurns /\ 2 * Len(history[c]) + 1 \in Nat
    BY <1>0, <1>2, <1>4
  <2> QED
    BY <2>1 DEF Requests
<1> HIDE DEF r
<1>6. asked' = [asked EXCEPT ![c] = r] /\ inbox' = [inbox EXCEPT ![c] = Append(<<>>, r)]
  BY <1>1, <1>3 DEF r
<1>7. /\ Append(<<>>, r) \in Seq(Requests) /\ Len(Append(<<>>, r)) = 1 /\ Append(<<>>, r)[1] = r
  BY <1>5
<1>8. TypesOfClients'
  BY <1>0, <1>2, <1>5, <1>6, <1>7, Empty DEF TypesOfClients
<1>9. TypesOfSocket'
  BY <1>0 DEF ChatInv, Types, TypesOfSocket
<1>10. /\ cpc'[c] = "waiting" /\ asked'[c] = r /\ inbox'[c] = Append(<<>>, r) /\ UNCHANGED <<pipe, history>>
       /\ \A d \in Client \ {c} : inbox'[d] = inbox[d] /\ pipe'[d] = pipe[d] /\ cpc'[d] = cpc[d]
                                  /\ asked'[d] = asked[d] /\ history'[d] = history[d]
  BY <1>0, <1>2, <1>6
<1>11. UNCHANGED <<server, cur, said>> /\ ~Busy(c)'
  BY <1>0, <1>3 DEF engine, Busy
<1>12. OneTurn(c)'
  <2>1. pipe'[c] = <<>>
    BY <1>3, <1>10
  <2> QED
    BY <1>4, <1>5, <1>7, <1>10, <1>11, <2>1 DEF OneTurn
<1>13. Transcript(c)'
  <2>1. \A i \in DOMAIN history[c] : history[c][i].turn < r.rid /\ history[c][i].turn <= r.rid
    <3> SUFFICES ASSUME NEW i \in DOMAIN history[c] PROVE history[c][i].turn < r.rid /\ history[c][i].turn <= r.rid
      OBVIOUS
    <3>1. history[c][i].turn <= asked[c].rid
      BY <1>3 DEF Good, Transcript
    <3>2. i \in 1 .. Len(history[c])
      BY <1>2, LenProperties, Zenon
    <3>3. history[c][i] \in Turn
      BY <1>2, <3>2, ElementOfSeq, Zenon
    <3>4. history[c][i].turn \in Nat
      BY <3>3 DEF Turn
    <3> QED
      BY <1>4, <1>5, <3>1, <3>4
  <2>2. pipe'[c] = <<>>
    BY <1>3, <1>10
  <2> QED
    BY <1>3, <1>10, <1>11, <2>1, <2>2 DEF Good, Transcript
<1> QED
  BY <1>0, <1>8, <1>9, <1>10, <1>12, <1>13, ClientMoves DEF Good

LEMMA ClearInv == ASSUME ChatInv, NEW c \in Client, Clear(c) PROVE ChatInv'
<1>1. /\ history' = [history EXCEPT ![c] = <<>>] /\ UNCHANGED <<engine, socket, inbox, cpc, asked, parts>>
  BY DEF Clear
<1>2. UNCHANGED <<server, cur, said, pipe>>
  BY <1>1 DEF engine, socket
<1>3. history'[c] = <<>> /\ \A d \in Client \ {c} : history'[d] = history[d]
  BY <1>1 DEF ChatInv, Types, TypesOfClients
<1>4. TypesOfSocket' /\ TypesOfClients'
  <2>1. <<>> \in Seq(Turn)
    OBVIOUS
  <2> QED
    BY <1>1, <2>1, TypesKept DEF ChatInv, Types, TypesOfClients
<1>5. Busy(c)' = Busy(c)
  BY <1>2 DEF Busy
<1>6. Good(c)'
  BY <1>1, <1>2, <1>3, <1>5 DEF ChatInv, Good, OneTurn, Transcript
<1> QED
  BY <1>1, <1>2, <1>3, <1>4, <1>6, ClientMoves

\* What is left of a pipe once its head is read.
LEMMA PopLeaves ==
  ASSUME ChatInv, NEW c \in Client, HasReply(c), Popped(c)
  PROVE  /\ TypesOfSocket' /\ \A d \in Client \ {c} : pipe'[d] = pipe[d]
         /\ pipe'[c] \in Seq(Message) /\ Head(pipe[c]) = pipe[c][1] /\ 1 \in DOMAIN pipe[c]
         /\ Head(pipe[c]) \in Message
         /\ Len(pipe'[c]) \in Nat /\ Len(pipe[c]) = Len(pipe'[c]) + 1
         /\ \A i \in DOMAIN pipe'[c] : i + 1 \in DOMAIN pipe[c] /\ pipe'[c][i] = pipe[c][i + 1]
<1>0. /\ pipe \in [Client -> Seq(Message)] /\ pipe[c] \in Seq(Message) /\ pipe[c] # <<>>
      /\ \A d \in Client : Len(pipe[d]) <= Hwm
  BY DEF HasReply, ChatInv, Types, TypesOfSocket
<1>1. pipe' = [pipe EXCEPT ![c] = Tail(@)] /\ UNCHANGED <<open, shutdown, failures, torn>>
  BY DEF Popped
<1>2. Len(pipe[c]) \in Nat /\ Hwm \in Nat
  BY <1>0, ChatAssumption
<1>3. /\ Head(pipe[c]) \in Message /\ Tail(pipe[c]) \in Seq(Message) /\ Len(Tail(pipe[c])) = Len(pipe[c]) - 1
      /\ \A i \in 1 .. Len(Tail(pipe[c])) : Tail(pipe[c])[i] = pipe[c][i + 1]
  BY <1>0, HeadTailProperties, Zenon
<1>4. pipe'[c] = Tail(pipe[c]) /\ \A d \in Client \ {c} : pipe'[d] = pipe[d]
  BY <1>0, <1>1
<1>5. DOMAIN pipe[c] = 1 .. Len(pipe[c]) /\ DOMAIN Tail(pipe[c]) = 1 .. Len(Tail(pipe[c])) /\ Len(Tail(pipe[c])) \in Nat
  BY <1>0, <1>3, LenProperties, Zenon
<1>6. Head(pipe[c]) = pipe[c][1]
  BY <1>0
<1> DEFINE n == Len(pipe[c])
           l == Len(Tail(pipe[c]))
<1>7. n = l + 1 /\ l \in Nat /\ n \in Nat /\ l <= Hwm
  <2>1. n <= Hwm /\ l = n - 1 /\ l \in Nat /\ n \in Nat
    BY <1>0, <1>2, <1>3, <1>5
  <2> HIDE DEF n, l
  <2> QED
    BY <1>2, <2>1
<1>8. 1 \in 1 .. n /\ \A i \in 1 .. l : i + 1 \in 1 .. n
  <2> HIDE DEF n, l
  <2> QED
    BY <1>7
<1>9. TypesOfSocket'
  <2>1. pipe' \in [Client -> Seq(Message)]
    BY <1>0, <1>1, <1>3
  <2>2. \A d \in Client : Len(pipe'[d]) <= Hwm
    BY <1>0, <1>4, <1>7, Zenon
  <2> QED
    BY <1>1, <2>1, <2>2 DEF ChatInv, Types, TypesOfSocket
<1> QED
  BY <1>3, <1>4, <1>5, <1>6, <1>7, <1>8, <1>9, Zenon

\* In what is left of the pipe, too, every reply is of the turn and only the
\* last one may be a final.
LEMMA PopKeeps ==
  ASSUME ChatInv, NEW c \in Client, HasReply(c), Popped(c)
  PROVE  /\ \A i \in DOMAIN pipe'[c] : pipe'[c][i].rid = asked[c].rid
         /\ \A i \in DOMAIN pipe'[c] :
              pipe'[c][i].type = "final" => i = Len(pipe'[c]) /\ inbox[c] = <<>> /\ ~Busy(c)
         /\ \A i \in DOMAIN pipe'[c] :
              pipe'[c][i].type = "final" /\ pipe'[c][i].finish # "error" =>
                said[c][pipe'[c][i].rid].text = pipe'[c][i].text
<1>1. Good(c)
  BY DEF ChatInv
<1>2. /\ Len(pipe'[c]) \in Nat /\ Len(pipe[c]) = Len(pipe'[c]) + 1 /\ DOMAIN pipe'[c] = 1 .. Len(pipe'[c])
      /\ \A i \in DOMAIN pipe'[c] : i + 1 \in DOMAIN pipe[c] /\ pipe'[c][i] = pipe[c][i + 1]
  BY PopLeaves, LenProperties, Zenon
<1>3. \A i \in DOMAIN pipe'[c] : pipe'[c][i].rid = asked[c].rid
  BY <1>1, <1>2, Zenon DEF Good, OneTurn
<1>4. \A i \in DOMAIN pipe'[c] :
        pipe'[c][i].type = "final" => i + 1 = Len(pipe[c]) /\ inbox[c] = <<>> /\ ~Busy(c)
  BY <1>1, <1>2, Zenon DEF Good, OneTurn
<1>5. \A i \in DOMAIN pipe'[c] : i + 1 = Len(pipe[c]) => i = Len(pipe'[c])
  <2>1. \A i, n, k : n \in Nat /\ k = n + 1 /\ i \in 1 .. n /\ i + 1 = k => i = n
    OBVIOUS
  <2> QED
    BY <1>2, <2>1, Zenon
<1>6. \A i \in DOMAIN pipe'[c] :
        pipe'[c][i].type = "final" /\ pipe'[c][i].finish # "error" =>
          said[c][pipe'[c][i].rid].text = pipe'[c][i].text
  BY <1>1, <1>2, Zenon DEF Good, Transcript
<1> QED
  BY <1>3, <1>4, <1>5, <1>6, Zenon

LEMMA ReadDeltaInv == ASSUME ChatInv, NEW c \in Client, ReadDelta(c) PROVE ChatInv'
<1>1. /\ HasReply(c) /\ Popped(c) /\ cpc[c] = "waiting" /\ parts' = [parts EXCEPT ![c] = @ \o Head(pipe[c]).text]
      /\ UNCHANGED <<engine, inbox, cpc, asked, history>>
  BY DEF ReadDelta, HasReply
<1>2. Head(pipe[c]) \in Message /\ TypesOfSocket' /\ \A d \in Client \ {c} : pipe'[d] = pipe[d]
  BY <1>1, PopLeaves
<1>3. TypesOfClients'
  <2>1. parts \in [Client -> Texts] /\ Head(pipe[c]).text \in Texts
    BY <1>2 DEF ChatInv, Types, TypesOfClients, Message
  <2>2. parts[c] \o Head(pipe[c]).text \in Texts
    BY <2>1 DEF Texts
  <2>3. parts' \in [Client -> Texts]
    BY <1>1, <2>1, <2>2
  <2> QED
    BY <1>1, <2>3 DEF ChatInv, Types, TypesOfClients
<1>4. UNCHANGED <<server, cur, said>>
  BY <1>1 DEF engine
<1>5. Busy(c)' = Busy(c)
  BY <1>4 DEF Busy
<1>6. OneTurn(c)'
  <2>1. Good(c) /\ cpc'[c] = "waiting" /\ asked'[c] = asked[c] /\ inbox'[c] = inbox[c]
    BY <1>1 DEF ChatInv
  <2>2. Busy(c)' => cur'.req = cur.req
    BY <1>4
  <2>3. /\ asked'[c].rid >= 1 /\ Len(inbox'[c]) <= 1
        /\ inbox'[c] # <<>> => inbox'[c][1].rid = asked'[c].rid /\ ~Busy(c)'
        /\ Busy(c)' => cur'.req.rid = asked'[c].rid
    BY <1>1, <1>5, <2>1, <2>2 DEF Good, OneTurn
  <2>4. /\ \A i \in DOMAIN pipe'[c] : pipe'[c][i].rid = asked'[c].rid
        /\ \A i \in DOMAIN pipe'[c] :
             pipe'[c][i].type = "final" => i = Len(pipe'[c]) /\ inbox'[c] = <<>> /\ ~Busy(c)'
    BY <1>1, <1>5, <2>1, PopKeeps
  <2> QED
    BY <2>1, <2>3, <2>4, Zenon DEF OneTurn
<1>7. Transcript(c)'
  BY <1>1, <1>4, PopKeeps DEF ChatInv, Good, Transcript
<1> QED
  BY <1>1, <1>2, <1>3, <1>6, <1>7, ClientMoves DEF Good

LEMMA ReadFinalInv == ASSUME ChatInv, NEW c \in Client, ReadFinal(c) PROVE ChatInv'
<1> DEFINE m == Head(pipe[c])
           h == [turn |-> asked[c].rid, text |-> Reply(c, m)]
<1>1. /\ HasReply(c) /\ Popped(c) /\ cpc[c] = "waiting" /\ m.type = "final"
      /\ history' = IF m.finish = "error" THEN history ELSE [history EXCEPT ![c] = Append(@, h)]
      /\ cpc' = [cpc EXCEPT ![c] = "idle"] /\ UNCHANGED <<engine, inbox, asked, parts>>
  BY DEF ReadFinal, HasReply
<1>2. /\ m \in Message /\ m = pipe[c][1] /\ 1 \in DOMAIN pipe[c]
      /\ TypesOfSocket' /\ \A d \in Client \ {c} : pipe'[d] = pipe[d]
      /\ pipe'[c] \in Seq(Message) /\ Len(pipe'[c]) \in Nat /\ Len(pipe[c]) = Len(pipe'[c]) + 1
  BY <1>1, PopLeaves
<1>3. Good(c)
  BY DEF ChatInv
<1>4. m.rid = asked[c].rid /\ Len(pipe[c]) = 1 /\ inbox[c] = <<>> /\ ~Busy(c)
      /\ (m.finish # "error" => said[c][m.rid].text = m.text)
  BY <1>1, <1>2, <1>3 DEF Good, OneTurn, Transcript
<1>5. pipe'[c] = <<>>
  <2>1. \A n : n \in Nat /\ 1 = n + 1 => n = 0
    OBVIOUS
  <2>2. Len(pipe'[c]) = 0
    BY <1>2, <1>4, <2>1, Zenon
  <2> QED
    BY <1>2, <2>2, EmptySeq, Zenon
<1>6. /\ cpc \in [Client -> {"idle", "waiting", "gone"}] /\ history \in [Client -> Seq(Turn)]
      /\ parts[c] \in Texts /\ asked[c].rid \in 1 .. MaxTurns /\ history[c] \in Seq(Turn)
  <2>1. asked[c].rid \in 0 .. MaxTurns /\ asked[c].rid >= 1 /\ MaxTurns \in Nat
    BY <1>1, <1>3, ChatAssumption DEF ChatInv, Types, TypesOfClients, Requests, Good, OneTurn
  <2>2. asked[c].rid \in 1 .. MaxTurns
    BY <2>1
  <2> QED
    BY <2>2 DEF ChatInv, Types, TypesOfClients
<1>7. h \in Turn /\ h.turn = asked[c].rid /\ (m.finish # "error" => said[c][h.turn].text \in {h.text, <<>>})
  <2>1. Reply(c, m) \in Texts
    BY <1>2, <1>6 DEF Reply, Message
  <2>2. m.text \in {Reply(c, m), <<>>}
    BY DEF Reply
  <2> QED
    BY <1>4, <1>6, <2>1, <2>2 DEF Turn
<1> HIDE DEF m, h
<1>8. /\ cpc'[c] = "idle" /\ \A d \in Client \ {c} : cpc'[d] = cpc[d] /\ history'[d] = history[d]
      /\ history'[c] = IF m.finish = "error" THEN history[c] ELSE Append(history[c], h)
  BY <1>1, <1>6
<1>9. history' \in [Client -> Seq(Turn)]
  <2>1. Append(history[c], h) \in Seq(Turn)
    BY <1>6, <1>7
  <2> QED
    BY <1>1, <1>6, <2>1
<1>10. TypesOfClients'
  BY <1>1, <1>6, <1>9 DEF ChatInv, Types, TypesOfClients
<1>11. UNCHANGED <<server, cur, said>>
  BY <1>1 DEF engine
<1>12. Busy(c)' = Busy(c)
  BY <1>11 DEF Busy
<1>13. OneTurn(c)'
  BY <1>1, <1>3, <1>4, <1>5, <1>8, <1>12 DEF Good, OneTurn
<1>14. \A i \in DOMAIN history'[c] :
         \/ i \in DOMAIN history[c] /\ history'[c][i] = history[c][i]
         \/ m.finish # "error" /\ i = Len(history[c]) + 1 /\ history'[c][i] = h
  BY <1>6, <1>7, <1>8
<1>15. \A i \in DOMAIN history[c] : history[c][i].turn < asked[c].rid /\ history[c][i].turn <= asked[c].rid
                                    /\ said[c][history[c][i].turn].text \in {history[c][i].text, <<>>}
  BY <1>1, <1>3 DEF Good, Transcript
<1>16. DOMAIN history[c] = 1 .. Len(history[c]) /\ Len(history[c]) \in Nat
  BY <1>6
<1>17. \A i, j \in DOMAIN history'[c] : i < j => history'[c][i].turn < history'[c][j].turn
  <2> SUFFICES ASSUME NEW i \in DOMAIN history'[c], NEW j \in DOMAIN history'[c], i < j
               PROVE  history'[c][i].turn < history'[c][j].turn
    OBVIOUS
  <2>1. CASE j \in DOMAIN history[c] /\ history'[c][j] = history[c][j]
    <3>1. i \in DOMAIN history[c] /\ history'[c][i] = history[c][i]
      BY <1>14, <1>16, <2>1
    <3> QED
      BY <1>3, <2>1, <3>1 DEF Good, Transcript
  <2>2. CASE j = Len(history[c]) + 1 /\ history'[c][j] = h
    <3>1. i \in DOMAIN history[c] /\ history'[c][i] = history[c][i]
      BY <1>14, <1>16, <2>2
    <3> QED
      BY <1>7, <1>15, <2>2, <3>1
  <2> QED
    BY <1>14, <2>1, <2>2
<1>18. \A i \in DOMAIN history'[c] :
         /\ history'[c][i].turn <= asked[c].rid
         /\ said[c][history'[c][i].turn].text \in {history'[c][i].text, <<>>}
  BY <1>6, <1>7, <1>14, <1>15
<1>19. Transcript(c)'
  BY <1>1, <1>5, <1>8, <1>11, <1>17, <1>18 DEF Transcript
<1> QED
  BY <1>1, <1>2, <1>8, <1>10, <1>13, <1>19, ClientMoves DEF Good

LEMMA LeaveInv == ASSUME ChatInv, NEW c \in Client, ReadFails(c) \/ Timeout(c) PROVE ChatInv'
<1>1. /\ cpc[c] = "waiting" /\ cpc' = [cpc EXCEPT ![c] = "gone"] /\ pipe' = [pipe EXCEPT ![c] = <<>>]
      /\ UNCHANGED <<engine, open, shutdown, failures, torn, inbox, asked, parts, history>>
  BY DEF ReadFails, Timeout, HasReply, Leave
<1>2. /\ cpc \in [Client -> {"idle", "waiting", "gone"}] /\ pipe \in [Client -> Seq(Message)]
      /\ \A d \in Client : Len(pipe[d]) <= Hwm
  BY DEF ChatInv, Types, TypesOfClients, TypesOfSocket
<1>3. /\ cpc'[c] = "gone" /\ pipe'[c] = <<>>
      /\ \A d \in Client \ {c} : cpc'[d] = cpc[d] /\ pipe'[d] = pipe[d]
  BY <1>1, <1>2
<1>4. TypesOfClients'
  BY <1>1, <1>2 DEF ChatInv, Types, TypesOfClients
<1>5. TypesOfSocket'
  <2>1. Len(<<>>) = 0 /\ 0 <= Hwm /\ <<>> \in Seq(Message)
    BY ChatAssumption
  <2>2. pipe' \in [Client -> Seq(Message)] /\ \A d \in Client : Len(pipe'[d]) <= Hwm
    BY <1>1, <1>2, <1>3, <2>1
  <2> QED
    BY <1>1, <2>2 DEF ChatInv, Types, TypesOfSocket
<1>6. UNCHANGED <<server, cur, said>>
  BY <1>1 DEF engine
<1>7. Busy(c)' = Busy(c)
  BY <1>6 DEF Busy
<1>8. OneTurn(c)'
  <2>1. Good(c) /\ asked'[c] = asked[c] /\ inbox'[c] = inbox[c]
    BY <1>1 DEF ChatInv
  <2>2. Busy(c)' => cur'.req = cur.req
    BY <1>6
  <2>3. /\ asked'[c].rid >= 1 /\ Len(inbox'[c]) <= 1
        /\ inbox'[c] # <<>> => inbox'[c][1].rid = asked'[c].rid /\ ~Busy(c)'
        /\ Busy(c)' => cur'.req.rid = asked'[c].rid
    BY <1>1, <1>7, <2>1, <2>2 DEF Good, OneTurn
  <2> QED
    BY <1>3, <2>3 DEF OneTurn
<1>9. Transcript(c)'
  BY <1>1, <1>3, <1>6 DEF ChatInv, Good, Transcript
<1> QED
  BY <1>1, <1>3, <1>4, <1>5, <1>8, <1>9, ClientMoves DEF Good

-----------------------------------------------------------------------------
LEMMA InitInv == ASSUME Init PROVE ChatInv
<1>1. <<>> \in Texts /\ <<>> \in Seq(Turn) /\ <<>> \in Seq(Requests) /\ <<>> \in Seq(Message) /\ Len(<<>>) = 0
  BY DEF Texts
<1>2. NoRequest \in Requests /\ NoRequest.rid = 0
  <2>1. 0 \in 0 .. MaxTurns /\ 0 \in Nat
    BY ChatAssumption
  <2> QED
    BY <2>1 DEF NoRequest, Requests
<1>3. TypesOfEngine
  BY <1>1 DEF Init, TypesOfEngine, NothingYet, Serving
<1>4. TypesOfSocket
  <2>1. 0 \in 0 .. MaxFailures /\ 0 <= Hwm
    BY ChatAssumption
  <2>2. pipe \in [Client -> Seq(Message)] /\ \A c \in Client : Len(pipe[c]) = 0
    BY <1>1 DEF Init
  <2> QED
    BY <2>1, <2>2 DEF Init, TypesOfSocket
<1>5. TypesOfClients
  BY <1>1, <1>2 DEF Init, TypesOfClients
<1>6. ASSUME NEW c \in Client PROVE Good(c)
  BY <1>1 DEF Init, Good, OneTurn, Transcript, Busy, Serving
<1> QED
  BY <1>3, <1>4, <1>5, <1>6 DEF ChatInv, Types

LEMMA StepInv == ASSUME ChatInv, [Next]_vars PROVE ChatInv'
<1>1. ASSUME NEW c \in Client, DropOversized(c) \/ Refuse(c) \/ Accept(c) PROVE ChatInv'
  BY <1>1, DropOversizedInv, RefuseInv, AcceptInv
<1>2. ASSUME Prefill \/ Decode \/ EndOfGeneration \/ LengthReached \/ SendFinal \/ Stop PROVE ChatInv'
  BY <1>2, PrefillInv, DecodeInv, EndOfGenerationInv, SendFinalInv, StopInv
<1>3. ASSUME NEW c \in Client, Say(c) \/ Clear(c) \/ Read(c) \/ Timeout(c) PROVE ChatInv'
  BY <1>3, SayInv, ClearInv, ReadDeltaInv, ReadFinalInv, LeaveInv DEF Read
<1>4. ASSUME UNCHANGED vars PROVE ChatInv'
  <2>1. UNCHANGED <<engine, socket, inbox, client>>
    BY <1>4 DEF vars
  <2>2. UNCHANGED <<server, cur, said, pipe, cpc, asked, history, inbox>>
    BY <2>1 DEF engine, socket, client
  <2>3. \A c \in Client : Busy(c)' => Busy(c) /\ cur'.req = cur.req
    BY <2>2 DEF Busy
  <2>4. \A c \in Client : Good(c)'
    BY <2>2, <2>3, Untouched DEF ChatInv
  <2> QED
    BY <2>1, <2>4, TypesKept DEF ChatInv, Types
<1> QED
  BY <1>1, <1>2, <1>3, <1>4, SignalInv DEF Next, ServerStep

LEMMA Invariance == Spec => []ChatInv
<1>1. Init => ChatInv
  BY InitInv
<1>2. ChatInv /\ [Next]_vars => ChatInv'
  BY StepInv
<1> QED
  BY <1>1, <1>2, PTL DEF Spec

(* Every variable keeps its type, no pipe holds more than its mark and no  *)
(* more than three bytes are held back from the stream, whatever is said.  *)
THEOREM TypeCorrect == Spec => []TypeOK
<1>1. ChatInv => TypeOK
  <2> SUFFICES ASSUME ChatInv PROVE TypeOK
    OBVIOUS
  <2>1. cur # None => cur \in [c : Client, req : Requests, finish : {"none", "stop", "length", "error"}]
    BY DEF ChatInv, Types, TypesOfEngine, Jobs, Finish
  <2> QED
    BY <2>1 DEF ChatInv, Types, TypesOfEngine, TypesOfSocket, TypesOfClients, TypeOK
<1> QED
  BY <1>1, Invariance, PTL

(* Though a client never compares request ids, what it reads in a turn is  *)
(* a reply to that turn, for any number of clients and any failed sends.   *)
THEOREM WhoseReplies == Spec => []OwnReplies
<1>1. ChatInv => OwnReplies
  BY DEF ChatInv, Good, OneTurn, OwnReplies
<1> QED
  BY <1>1, Invariance, PTL

(* A client's transcript holds what the model said, turn by turn, however  *)
(* much of the stream was dropped on the way.                              *)
THEOREM TranscriptKept == Spec => []TranscriptIsSaid
<1>1. ChatInv => TranscriptIsSaid
  BY DEF ChatInv, Good, Transcript, TranscriptIsSaid
<1> QED
  BY <1>1, Invariance, PTL

-----------------------------------------------------------------------------
(* Texts, on the way from the tokens to the messages. *)

(* What is streamed and what is kept back are the text so far, and the     *)
(* text without the special tokens is no longer and ends the same way.     *)
Generated ==
  /\ server \notin {"decode", "final"} => gen = NothingYet
  /\ gen.pending = Rest(gen.raw)
  /\ Ends(gen.plain, gen.pending)
  /\ Len(gen.plain) <= Len(gen.raw)

(* Where the model says UTF-8, both texts break off in the same character. *)
GeneratedText ==
  /\ Whole(Cut(gen.raw)) /\ Whole(Cut(gen.plain))
  /\ Rest(gen.plain) = gen.pending

\* A token's piece leaves them so.
LEMMA TakenGoesOn ==
  ASSUME Types, Generated, NEW p \in Piece
  PROVE  /\ Taken(p).pending = Rest(Taken(p).raw)
         /\ Ends(Taken(p).plain, Taken(p).pending)
         /\ Len(Taken(p).plain) <= Len(Taken(p).raw)
         /\ Cut(Taken(p).raw) = Cut(gen.raw) \o Cut(gen.pending \o p)
<1> DEFINE raw == gen.raw
           plain == gen.plain
           pending == gen.pending
           u == pending \o p
<1>1. /\ p \in Seq(Byte) /\ raw \in Seq(Byte) /\ plain \in Seq(Byte) /\ pending \in Seq(Byte)
      /\ u \in Seq(Byte) /\ raw \o p \in Seq(Byte) /\ plain \o p \in Seq(Byte)
  BY ChatAssumption DEF Types, TypesOfEngine, Texts
<1>2. /\ Taken(p).raw = raw \o p /\ Taken(p).pending = Rest(u)
      /\ Taken(p).plain = IF p \in Special THEN plain ELSE plain \o p
  BY DEF Taken, Rest
<1>3. pending = Rest(raw) /\ Ends(plain, pending) /\ Len(plain) <= Len(raw)
  BY DEF Generated
<1> HIDE DEF raw, plain, pending
<1>4. Cut(raw \o p) = Cut(raw) \o Cut(u) /\ Rest(raw \o p) = Rest(u)
  BY <1>1, <1>3, StreamIsCut
<1>5. /\ Len(raw) \in Nat /\ Len(plain) \in Nat /\ Len(p) \in Nat
      /\ Len(raw \o p) = Len(raw) + Len(p) /\ Len(plain \o p) = Len(plain) + Len(p)
  BY <1>1, Joined
<1>6. Len(plain) <= Len(raw \o p) /\ Len(plain \o p) <= Len(raw \o p)
  BY <1>3, <1>5
<1>7. CASE p \notin Special
  <2>1. Ends(plain \o p, u)
    BY <1>1, <1>3, EndsGoOn
  <2>2. Rest(u) \in Seq(Byte) /\ Ends(u, Rest(u))
    BY <1>1, CutAndRest, EndsWithRest
  <2> HIDE DEF u
  <2>3. Ends(plain \o p, Rest(u))
    BY <1>1, <2>1, <2>2, EndsOfEnds
  <2> QED
    BY <1>2, <1>4, <1>6, <1>7, <2>3 DEF u, raw, pending
<1>8. CASE p \in Special
  <2>1. Whole(p)
    BY <1>8, SpecialAssumption
  <2>2. CASE p = <<>>
    <3>1. raw \o p = raw
      BY <1>1, <2>2
    <3> QED
      BY <1>2, <1>3, <1>4, <1>6, <1>8, <3>1 DEF raw, pending
  <2>3. CASE p # <<>>
    <3>1. CompletePrefix(raw \o p) = Len(raw \o p)
      BY <1>1, <2>1, <2>3, WholeEndsStream
    <3>2. Rest(raw \o p) = <<>>
      BY <1>5, <3>1, SubSeqEmpty DEF Rest
    <3>3. Ends(plain, Rest(u))
      BY <1>1, <1>4, <3>2, EndsWithNothing
    <3> QED
      BY <1>2, <1>4, <1>6, <1>8, <3>3 DEF raw, pending
  <2> QED
    BY <2>2, <2>3
<1> QED
  BY <1>7, <1>8

LEMMA TakenIsText ==
  ASSUME Types, Generated, GeneratedText, NEW p \in Piece, WellFormedSoFar(gen.raw \o p)
  PROVE  /\ Whole(Cut(Taken(p).raw)) /\ Whole(Cut(Taken(p).plain))
         /\ Rest(Taken(p).plain) = Taken(p).pending
         /\ Whole(Cut(gen.pending \o p))
<1> DEFINE raw == gen.raw
           plain == gen.plain
           pending == gen.pending
           u == pending \o p
<1>1. /\ p \in Seq(Byte) /\ raw \in Seq(Byte) /\ plain \in Seq(Byte) /\ pending \in Seq(Byte)
      /\ u \in Seq(Byte) /\ raw \o p \in Seq(Byte)
  BY ChatAssumption DEF Types, TypesOfEngine, Texts
<1>2. /\ Taken(p).raw = raw \o p /\ Taken(p).pending = Rest(u)
      /\ Taken(p).plain = IF p \in Special THEN plain ELSE plain \o p
  BY DEF Taken, Rest
<1>3. Whole(Cut(raw)) /\ Whole(Cut(plain)) /\ WellFormedSoFar(raw \o p)
  BY DEF GeneratedText
<1>0. Rest(raw) = pending /\ Rest(plain) = pending
  BY DEF Generated, GeneratedText
<1> HIDE DEF raw, plain, pending
<1>4. Cut(raw \o p) = Cut(raw) \o Cut(u) /\ Rest(raw \o p) = Rest(u)
  <2>1. Cut(raw \o p) = Cut(raw) \o Cut(Rest(raw) \o p) /\ Rest(raw \o p) = Rest(Rest(raw) \o p)
    BY <1>1, StreamIsCut
  <2> QED
    BY <1>0, <2>1
<1>5. Cut(plain \o p) = Cut(plain) \o Cut(u) /\ Rest(plain \o p) = Rest(u)
  <2>1. Cut(plain \o p) = Cut(plain) \o Cut(Rest(plain) \o p) /\ Rest(plain \o p) = Rest(Rest(plain) \o p)
    BY <1>1, StreamIsCut
  <2> QED
    BY <1>0, <2>1
<1>6. Whole(Cut(raw \o p))
  BY <1>1, <1>3, SoFarIsWhole
<1>7. Cut(raw) \in Seq(Byte) /\ Cut(plain) \in Seq(Byte) /\ Cut(u) \in Seq(Byte)
  BY <1>1, CutAndRest
<1>8. Whole(Cut(u))
  BY <1>3, <1>4, <1>6, <1>7, WholeTail
<1>9. CASE p \notin Special
  <2>1. Whole(Cut(plain \o p))
    BY <1>3, <1>5, <1>7, <1>8, WholeJoin
  <2> QED
    BY <1>2, <1>5, <1>6, <1>8, <1>9, <2>1 DEF u, pending
<1>10. CASE p \in Special
  <2>1. Whole(p)
    BY <1>10, SpecialAssumption
  <2>2. Rest(u) = pending
    <3>1. CASE p = <<>>
      <4>1. raw \o p = raw
        BY <1>1, <3>1
      <4> QED
        BY <1>0, <1>4, <4>1
    <3>2. CASE p # <<>>
      <4>1. CompletePrefix(raw \o p) = Len(raw \o p) /\ CompletePrefix(raw) = Len(raw)
        BY <1>1, <1>6, <2>1, <3>2, WholeEndsStream
      <4>2. Rest(raw \o p) = <<>> /\ Rest(raw) = <<>>
        BY <1>1, <4>1, SubSeqEmpty DEF Rest
      <4> QED
        BY <1>0, <1>4, <4>2
    <3> QED
      BY <3>1, <3>2
  <2> QED
    BY <1>0, <1>2, <1>3, <1>6, <1>8, <1>10, <2>2 DEF u, pending
<1> QED
  BY <1>9, <1>10

\* The final is no longer than what was streamed.
LEMMA FinalIsNoLonger ==
  ASSUME Types, Generated
  PROVE  Len(Cut(gen.plain)) <= Len(Cut(gen.raw))
<1> DEFINE raw == gen.raw
           plain == gen.plain
           pending == gen.pending
<1>1. raw \in Seq(Byte) /\ plain \in Seq(Byte) /\ pending \in Seq(Byte)
  BY DEF Types, TypesOfEngine, Texts
<1>2. pending = Rest(raw) /\ Ends(plain, pending) /\ Len(plain) <= Len(raw)
  BY DEF Generated
<1> HIDE DEF raw, plain, pending
<1>3. /\ Len(Cut(raw)) = CompletePrefix(raw) /\ Len(Cut(plain)) = CompletePrefix(plain)
      /\ Len(pending) = Len(raw) - CompletePrefix(raw)
      /\ Len(raw) \in Nat /\ Len(plain) \in Nat
  BY <1>1, <1>2, CutAndRest
<1>4. CompletePrefix(raw) \in 0 .. Len(raw) /\ CompletePrefix(plain) \in 0 .. Len(plain)
  BY <1>1, Cuts
<1>5. CASE pending = <<>>
  <2>1. Len(pending) = 0
    BY <1>5
  <2> QED
    BY <1>2, <1>3, <1>4, <2>1 DEF raw, plain
<1>6. CASE pending # <<>>
  <2>1. CompletePrefix(plain) = Len(plain) - Len(pending)
    BY <1>1, <1>2, <1>6, RestIsBroken, CutOfEnd
  <2> QED
    BY <1>2, <1>3, <1>4, <2>1 DEF raw, plain
<1> QED
  BY <1>5, <1>6

-----------------------------------------------------------------------------
(* What the steps do to the texts. *)

LEMMA GenerationKept ==
  ASSUME Generated, UNCHANGED gen, server' \notin {"decode", "final"} => server \notin {"decode", "final"}
  PROVE  Generated' /\ (GeneratedText => GeneratedText')
BY DEF Generated, GeneratedText

LEMMA NothingGenerated ==
  ASSUME gen' = NothingYet
  PROVE  Generated' /\ GeneratedText'
<1>1. gen'.raw = <<>> /\ gen'.plain = <<>> /\ gen'.pending = <<>>
  BY DEF NothingYet
<1>2. Ends(<<>>, <<>>)
  BY NothingIsWhole, EndsWithNothing
<1> QED
  BY <1>1, <1>2, NothingIsWhole DEF Generated, GeneratedText

LEMMA GeneratedStep ==
  ASSUME ChatInv, Generated, AnyBytes \/ GeneratedText, [Next]_vars
  PROVE  Generated' /\ (AnyBytes \/ GeneratedText')
<1>1. CASE Prefill \/ SendFinal
  <2>1. gen' = NothingYet
    BY <1>1 DEF Prefill, SendFinal
  <2> QED
    BY <2>1, NothingGenerated
<1>2. CASE Decode
  <2>1. PICK p \in Piece : gen' = Taken(p) /\ (AnyBytes \/ WellFormedSoFar(gen.raw \o p))
    BY <1>2 DEF Decode
  <2>2. server' \in {"decode", "final"}
    BY <1>2 DEF Decode, FinishAs
  <2>3. Generated'
    <3>1. Types
      BY DEF ChatInv
    <3>2. /\ Taken(p).pending = Rest(Taken(p).raw) /\ Ends(Taken(p).plain, Taken(p).pending)
          /\ Len(Taken(p).plain) <= Len(Taken(p).raw)
      BY <3>1, TakenGoesOn
    <3> QED
      BY <2>1, <2>2, <3>2 DEF Generated
  <2>4. AnyBytes \/ GeneratedText'
    <3> SUFFICES ASSUME ~AnyBytes PROVE GeneratedText'
      OBVIOUS
    <3>1. Types
      BY DEF ChatInv
    <3>2. /\ Whole(Cut(Taken(p).raw)) /\ Whole(Cut(Taken(p).plain))
          /\ Rest(Taken(p).plain) = Taken(p).pending
      BY <2>1, <3>1, TakenIsText
    <3> QED
      BY <2>1, <3>2 DEF GeneratedText
  <2> QED
    BY <2>3, <2>4
<1>3. CASE EndOfGeneration \/ LengthReached
  <2>1. UNCHANGED gen /\ server' = "final"
    BY <1>3 DEF EndOfGeneration, LengthReached, FinishAs
  <2> QED
    BY <2>1, GenerationKept
<1>4. CASE Stop \/ \E c \in Client : DropOversized(c) \/ Refuse(c) \/ Accept(c)
  <2>1. UNCHANGED gen /\ server = "poll"
    BY <1>4 DEF Stop, DropOversized, Refuse, Accept, Waiting, engine
  <2> QED
    BY <2>1, GenerationKept
<1>5. CASE Signal \/ \E c \in Client : Say(c) \/ Clear(c) \/ Read(c) \/ Timeout(c)
  <2>1. UNCHANGED engine
    BY <1>5 DEF Signal, Say, Clear, Read, ReadDelta, ReadFinal, ReadFails, Timeout, Leave
  <2>2. UNCHANGED <<gen, server>>
    BY <2>1 DEF engine
  <2> QED
    BY <2>2, GenerationKept
<1>6. CASE UNCHANGED vars
  <2>1. UNCHANGED <<gen, server>>
    BY <1>6 DEF vars, engine
  <2> QED
    BY <2>1, GenerationKept
<1> QED
  BY <1>1, <1>2, <1>3, <1>4, <1>5, <1>6 DEF Next, ServerStep

\* A send of m puts it in c's pipe, or something unreadable, or tears c's turn.
LEMMA SendDoes ==
  ASSUME Types, NEW c \in Client, NEW m \in Message, SendReply(c, m)
  PROVE  /\ \A d \in Client \ {c} : pipe'[d] = pipe[d] /\ (d \in torn' <=> d \in torn)
         /\ \/ pipe'[c] = pipe[c] /\ c \in torn'
            \/ pipe'[c] = Append(pipe[c], m) /\ UNCHANGED torn
            \/ pipe'[c] = Append(pipe[c], Garbled(m.rid)) /\ UNCHANGED torn
<1>1. pipe \in [Client -> Seq(Message)]
  BY DEF Types, TypesOfSocket
<1>2. CASE SendFails(c)
  BY <1>2 DEF SendFails
<1>3. CASE Deliver(c, m) /\ cpc[c] # "gone" /\ Len(pipe[c]) < Hwm
  <2>1. pipe' = [pipe EXCEPT ![c] = Append(@, IF open THEN Garbled(m.rid) ELSE m)] /\ UNCHANGED torn
    BY <1>3 DEF Deliver
  <2> QED
    BY <1>1, <2>1
<1>4. CASE Deliver(c, m) /\ ~(cpc[c] # "gone" /\ Len(pipe[c]) < Hwm)
  <2>1. torn' = torn \cup {c} /\ UNCHANGED pipe
    BY <1>4 DEF Deliver
  <2> QED
    BY <2>1
<1> QED
  BY <1>2, <1>3, <1>4 DEF SendReply

LEMMA GarbledIsMessage ==
  ASSUME NEW r \in 0 .. MaxTurns
  PROVE  Garbled(r) \in Message /\ Garbled(r).text = <<>> /\ Garbled(r).type = "garbled"
BY Empty DEF Garbled, Message, Finish

LEMMA TextSent ==
  ASSUME Types, MessagesAreText, NEW c \in Client, NEW m \in Message, Whole(m.text), SendReply(c, m)
  PROVE  MessagesAreText'
<1> SUFFICES ASSUME NEW d \in Client, NEW i \in DOMAIN pipe'[d]
             PROVE  Whole(pipe'[d][i].text)
  BY DEF MessagesAreText
<1>1. CASE pipe'[d] = pipe[d]
  BY <1>1 DEF MessagesAreText
<1>2. ASSUME NEW x \in Message, Whole(x.text), pipe'[d] = Append(pipe[d], x)
      PROVE  Whole(pipe'[d][i].text)
  <2>1. pipe[d] \in Seq(Message)
    BY DEF Types, TypesOfSocket
  <2>2. \/ i \in DOMAIN pipe[d] /\ pipe'[d][i] = pipe[d][i]
        \/ pipe'[d][i] = x
    BY <1>2, <2>1
  <2> QED
    BY <1>2, <2>2 DEF MessagesAreText
<1>3. Garbled(m.rid) \in Message /\ Whole(Garbled(m.rid).text)
  <2>1. m.rid \in 0 .. MaxTurns
    BY DEF Message
  <2> QED
    BY <2>1, GarbledIsMessage, NothingIsWhole
<1>4. pipe'[d] = pipe[d] \/ pipe'[d] = Append(pipe[d], m) \/ pipe'[d] = Append(pipe[d], Garbled(m.rid))
  BY SendDoes
<1> QED
  BY <1>1, <1>2, <1>3, <1>4

\* Nothing new is in any pipe.
LEMMA TextRead ==
  ASSUME MessagesAreText,
         \A d \in Client : \A i \in DOMAIN pipe'[d] : \E j \in DOMAIN pipe[d] : pipe'[d][i] = pipe[d][j]
  PROVE  MessagesAreText'
<1> SUFFICES ASSUME NEW d \in Client, NEW i \in DOMAIN pipe'[d]
             PROVE  Whole(pipe'[d][i].text)
  BY DEF MessagesAreText
<1>1. PICK j \in DOMAIN pipe[d] : pipe'[d][i] = pipe[d][j]
  OBVIOUS
<1> QED
  BY <1>1 DEF MessagesAreText

LEMMA MessagesStep ==
  ASSUME ChatInv, Generated, GeneratedText, MessagesAreText, ~AnyBytes, [Next]_vars
  PROVE  MessagesAreText'
<1>0. Types
  BY DEF ChatInv
<1>1. ASSUME UNCHANGED pipe PROVE MessagesAreText'
  BY <1>1 DEF MessagesAreText
<1>2. CASE Prefill \/ EndOfGeneration \/ LengthReached \/ Stop \/ Signal \/ UNCHANGED vars
  BY <1>1, <1>2 DEF Prefill, EndOfGeneration, LengthReached, Stop, Signal, vars, socket
<1>3. ASSUME NEW c \in Client, DropOversized(c) \/ Accept(c) \/ Say(c) \/ Clear(c) PROVE MessagesAreText'
  BY <1>1, <1>3 DEF DropOversized, Accept, Say, Clear, socket
<1>4. ASSUME NEW c \in Client, Refuse(c) PROVE MessagesAreText'
  <2> DEFINE m == Final(Head(inbox[c]).rid, <<>>, "error")
  <2>1. SendReply(c, m) /\ inbox[c] # <<>>
    BY <1>4 DEF Refuse, Waiting
  <2>2. Head(inbox[c]).rid \in 0 .. MaxTurns
    BY <2>1, OnlyRequest DEF Requests
  <2>3. m \in Message /\ Whole(m.text)
    BY <2>2, Empty, NothingIsWhole DEF Message, Final, Finish
  <2> QED
    BY <1>0, <2>1, <2>3, TextSent
<1>5. CASE Decode
  <2>1. PICK p \in Piece :
          /\ WellFormedSoFar(gen.raw \o p)
          /\ \/ SendReply(cur.c, Delta(cur.req.rid, Cut(gen.pending \o p)))
             \/ UNCHANGED socket
    BY <1>5 DEF Decode
  <2>2. CASE UNCHANGED socket
    BY <1>1, <2>2 DEF socket
  <2>3. CASE SendReply(cur.c, Delta(cur.req.rid, Cut(gen.pending \o p)))
    <3> DEFINE m == Delta(cur.req.rid, Cut(gen.pending \o p))
    <3>1. server \in Serving
      BY <1>5 DEF Decode, Serving
    <3>2. cur.c \in Client /\ cur.req.rid \in 0 .. MaxTurns
      BY <3>1, Serves DEF Requests
    <3>3. Whole(Cut(gen.pending \o p)) /\ Cut(gen.pending \o p) \in Texts
      BY <1>0, <2>1, TakenIsText, TakenTypes, CutIsText
    <3>4. m \in Message /\ m.text = Cut(gen.pending \o p)
      BY <3>2, <3>3 DEF Message, Delta, Finish
    <3> HIDE DEF m
    <3> QED
      BY <1>0, <2>3, <3>2, <3>3, <3>4, TextSent DEF m
  <2> QED
    BY <2>1, <2>2, <2>3
<1>6. CASE SendFinal
  <2> DEFINE m == Final(cur.req.rid, Text, cur.finish)
  <2>1. server \in Serving /\ SendReply(cur.c, m)
    BY <1>6 DEF SendFinal, Serving
  <2>2. cur.c \in Client /\ cur.req.rid \in 0 .. MaxTurns /\ cur.finish \in Finish
    BY <2>1, Serves DEF Requests, Jobs
  <2>3. Whole(Text) /\ Text \in Texts
    <3>1. gen.raw \in Texts /\ gen.plain \in Texts
      BY <1>0 DEF Types, TypesOfEngine
    <3> QED
      BY <3>1, CutIsText DEF Text, GeneratedText
  <2>4. m \in Message /\ m.text = Text
    BY <2>2, <2>3 DEF Message, Final
  <2> HIDE DEF m
  <2> QED
    BY <1>0, <2>1, <2>2, <2>3, <2>4, TextSent
<1>7. ASSUME NEW c \in Client, ReadDelta(c) \/ ReadFinal(c) PROVE MessagesAreText'
  <2>1. HasReply(c) /\ Popped(c)
    BY <1>7 DEF ReadDelta, ReadFinal
  <2>2. /\ \A d \in Client \ {c} : pipe'[d] = pipe[d]
        /\ \A i \in DOMAIN pipe'[c] : i + 1 \in DOMAIN pipe[c] /\ pipe'[c][i] = pipe[c][i + 1]
    BY <2>1, PopLeaves
  <2> QED
    BY <2>2, TextRead
<1>8. ASSUME NEW c \in Client, ReadFails(c) \/ Timeout(c) PROVE MessagesAreText'
  <2>1. pipe' = [pipe EXCEPT ![c] = <<>>]
    BY <1>8 DEF ReadFails, Timeout, Leave
  <2>2. pipe'[c] = <<>> /\ \A d \in Client \ {c} : pipe'[d] = pipe[d]
    BY <1>0, <2>1 DEF Types, TypesOfSocket
  <2> QED
    BY <2>2, TextRead
<1> QED
  BY <1>2, <1>3, <1>4, <1>5, <1>6, <1>7, <1>8 DEF Next, ServerStep, Read

TextInv == ChatInv /\ Generated /\ (AnyBytes \/ (GeneratedText /\ MessagesAreText))

LEMMA TextInvariance == Spec => []TextInv
<1>1. Init => TextInv
  <2> SUFFICES ASSUME Init PROVE TextInv
    OBVIOUS
  <2>1. gen = NothingYet /\ pipe = [c \in Client |-> <<>>]
    BY DEF Init
  <2>2. gen.raw = <<>> /\ gen.plain = <<>> /\ gen.pending = <<>> /\ Ends(<<>>, <<>>)
    BY <2>1, NothingIsWhole, EndsWithNothing DEF NothingYet
  <2>3. Generated /\ GeneratedText
    BY <2>1, <2>2, NothingIsWhole DEF Generated, GeneratedText
  <2>4. MessagesAreText
    BY <2>1 DEF MessagesAreText
  <2> QED
    BY <2>3, <2>4, InitInv DEF TextInv
<1>2. TextInv /\ [Next]_vars => TextInv'
  <2> SUFFICES ASSUME TextInv, [Next]_vars PROVE TextInv'
    OBVIOUS
  <2>1. ChatInv'
    BY StepInv DEF TextInv
  <2>2. Generated' /\ (AnyBytes \/ GeneratedText')
    BY GeneratedStep DEF TextInv
  <2>3. AnyBytes \/ MessagesAreText'
    BY MessagesStep DEF TextInv
  <2> QED
    BY <2>1, <2>2, <2>3 DEF TextInv
<1> QED
  BY <1>1, <1>2, PTL DEF Spec

(* When the model says UTF-8, every message is UTF-8 a client can parse,   *)
(* for any vocabulary whose special tokens are text: wherever the pieces,  *)
(* a length limit or an error break a character.                           *)
THEOREM MessagesParse == ~AnyBytes /\ Spec => []MessagesAreText
<1> SUFFICES ASSUME ~AnyBytes PROVE Spec => []MessagesAreText
  OBVIOUS
<1>1. TextInv => MessagesAreText
  BY DEF TextInv
<1> QED
  BY <1>1, TextInvariance, PTL

-----------------------------------------------------------------------------
(* The stream, from the first delta to the final. *)

(* Reading the deltas of q, on top of a, gives t: f holds what has been    *)
(* read after each message.                                                *)
StreamsTo(a, q, t) ==
  \E f \in [0 .. Len(q) -> Texts] :
    /\ f[0] = a /\ f[Len(q)] = t
    /\ \A i \in 1 .. Len(q) : f[i] = IF q[i].type = "delta" THEN f[i - 1] \o q[i].text ELSE f[i - 1]

LEMMA StreamsNothing ==
  ASSUME NEW a \in Texts
  PROVE  StreamsTo(a, <<>>, a)
<1> DEFINE f == [i \in 0 .. 0 |-> a]
<1>1. f \in [0 .. Len(<<>>) -> Texts] /\ f[0] = a /\ f[Len(<<>>)] = a
  OBVIOUS
<1>2. \A i \in 1 .. Len(<<>>) : FALSE
  OBVIOUS
<1> QED
  BY <1>1, <1>2 DEF StreamsTo

LEMMA StreamsAlong ==
  ASSUME NEW q \in Seq(Message), NEW x \in Message, NEW a, NEW t \in Texts, StreamsTo(a, q, t)
  PROVE  StreamsTo(a, Append(q, x), IF x.type = "delta" THEN t \o x.text ELSE t)
<1> DEFINE n == Len(q)
           r == Append(q, x)
           u == IF x.type = "delta" THEN t \o x.text ELSE t
<1>1. PICK f \in [0 .. n -> Texts] :
        /\ f[0] = a /\ f[n] = t
        /\ \A i \in 1 .. n : f[i] = IF q[i].type = "delta" THEN f[i - 1] \o q[i].text ELSE f[i - 1]
  BY DEF StreamsTo
<1>2. n \in Nat /\ Len(r) = n + 1 /\ r[n + 1] = x /\ \A i \in 1 .. n : r[i] = q[i]
  OBVIOUS
<1>3. u \in Texts
  <2>1. x.text \in Texts
    BY DEF Message
  <2>2. t \o x.text \in Texts
    BY <2>1 DEF Texts
  <2> QED
    BY <2>2
<1> DEFINE g == [i \in 0 .. n + 1 |-> IF i = n + 1 THEN u ELSE f[i]]
<1> HIDE DEF n, r, u
<1>4. g \in [0 .. n + 1 -> Texts] /\ g[n + 1] = u /\ \A i \in 0 .. n : g[i] = f[i]
  BY <1>1, <1>2, <1>3
<1> HIDE DEF g
<1>5. g[0] = a /\ g[n] = t
  BY <1>1, <1>2, <1>4
<1>6. ASSUME NEW i \in 1 .. n + 1
      PROVE  g[i] = IF r[i].type = "delta" THEN g[i - 1] \o r[i].text ELSE g[i - 1]
  <2>1. CASE i = n + 1
    <3>1. i - 1 = n /\ r[i] = x /\ g[i - 1] = t /\ g[i] = u
      BY <1>2, <1>4, <1>5, <2>1
    <3> QED
      BY <3>1 DEF u
  <2>2. CASE i \in 1 .. n
    <3>1. i - 1 \in 0 .. n /\ i \in 0 .. n
      BY <1>2, <2>2
    <3>2. g[i] = f[i] /\ g[i - 1] = f[i - 1] /\ r[i] = q[i]
      BY <1>2, <1>4, <2>2, <3>1
    <3> QED
      BY <1>1, <2>2, <3>2
  <2> QED
    BY <1>2, <2>1, <2>2
<1> QED
  BY <1>2, <1>4, <1>5, <1>6 DEF StreamsTo, r, u

LEMMA StreamsOn ==
  ASSUME NEW q \in Seq(Message), q # <<>>, NEW a \in Texts, NEW t, StreamsTo(a, q, t), Head(q).type = "delta"
  PROVE  StreamsTo(a \o Head(q).text, Tail(q), t)
<1> DEFINE n == Len(q)
           r == Tail(q)
           l == Len(r)
<1>1. PICK f \in [0 .. n -> Texts] :
        /\ f[0] = a /\ f[n] = t
        /\ \A i \in 1 .. n : f[i] = IF q[i].type = "delta" THEN f[i - 1] \o q[i].text ELSE f[i - 1]
  BY DEF StreamsTo
<1>2. n \in Nat /\ n # 0 /\ l = n - 1 /\ Head(q) = q[1] /\ \A i \in 1 .. l : r[i] = q[i + 1]
  <2>1. n \in Nat /\ n # 0 /\ Head(q) = q[1]
    BY EmptySeq
  <2>2. l = n - 1 /\ \A i \in 1 .. l : r[i] = q[i + 1]
    BY HeadTailProperties, Zenon
  <2> QED
    BY <2>1, <2>2
<1> HIDE DEF n, r, l
<1>3. l \in Nat /\ n = l + 1
  BY <1>2
<1> DEFINE g == [i \in 0 .. l |-> f[i + 1]]
<1>4. \A i \in 0 .. l : i + 1 \in 0 .. n
  BY <1>3
<1>5. g \in [0 .. l -> Texts] /\ \A i \in 0 .. l : g[i] = f[i + 1]
  BY <1>1, <1>4
<1> HIDE DEF g
<1>6. g[0] = a \o Head(q).text /\ g[l] = t
  <2>1. 1 \in 1 .. n /\ 1 - 1 = 0 /\ 0 \in 0 .. l /\ l \in 0 .. l /\ 0 + 1 = 1
    BY <1>3
  <2>2. f[1] = a \o q[1].text
    BY <1>1, <1>2, <2>1
  <2> QED
    BY <1>1, <1>2, <1>3, <1>5, <2>1, <2>2
<1>7. ASSUME NEW i \in 1 .. l
      PROVE  g[i] = IF r[i].type = "delta" THEN g[i - 1] \o r[i].text ELSE g[i - 1]
  <2>1. i \in 0 .. l /\ i - 1 \in 0 .. l /\ (i - 1) + 1 = i /\ i + 1 \in 1 .. n /\ (i + 1) - 1 = i
    BY <1>3
  <2>2. g[i] = f[i + 1] /\ g[i - 1] = f[i] /\ r[i] = q[i + 1]
    BY <1>2, <1>5, <2>1
  <2>3. f[i + 1] = IF q[i + 1].type = "delta" THEN f[i] \o q[i + 1].text ELSE f[i]
    BY <1>1, <2>1
  <2> QED
    BY <2>2, <2>3
<1> QED
  BY <1>5, <1>6, <1>7 DEF StreamsTo, l, r

\* Where only the final is left to read, all of the stream has been.
LEMMA StreamsOut ==
  ASSUME NEW q, Len(q) = 1, q[1].type = "final", NEW a, NEW t, StreamsTo(a, q, t)
  PROVE  t = a
<1>1. PICK f \in [0 .. 1 -> Texts] :
        /\ f[0] = a /\ f[1] = t
        /\ \A i \in 1 .. 1 : f[i] = IF q[i].type = "delta" THEN f[i - 1] \o q[i].text ELSE f[i - 1]
  BY DEF StreamsTo
<1>2. f[1] = f[1 - 1]
  BY <1>1
<1> QED
  BY <1>1, <1>2

(* The turn streams, and nothing of it was lost. *)
Complete(c) ==
  /\ asked[c].stream /\ c \notin torn /\ cpc[c] = "waiting"
  /\ \A i \in DOMAIN pipe[c] : pipe[c][i].type # "garbled"

\* The final m agrees with the stream t: s is what was said, by request.
Agrees(s, m, t) ==
  s[m.rid] # None =>
    Len(t) >= Len(m.text) /\ (~s[m.rid].special => t = m.text)

(* What a client has read and what is in its pipe are, while it is served, *)
(* the text so far; before that, nothing; and after it, what the final     *)
(* says.                                                                   *)
StreamGood(c) ==
  Complete(c) =>
    /\ Busy(c) => StreamsTo(parts[c], pipe[c], Cut(gen.raw))
    /\ inbox[c] # <<>> => StreamsTo(parts[c], pipe[c], <<>>)
    /\ \A i \in DOMAIN pipe[c] : pipe[c][i].type = "final" =>
         \E t \in Texts : StreamsTo(parts[c], pipe[c], t) /\ Agrees(said[c], pipe[c][i], t)

OwnRequest(c) ==
  /\ Busy(c) => cur.req = asked[c]
  /\ inbox[c] # <<>> => inbox[c][1] = asked[c]

StreamInv == TextInv /\ \A c \in Client : OwnRequest(c) /\ StreamGood(c)

LEMMA RequestKept ==
  ASSUME NEW d \in Client, OwnRequest(d), asked'[d] = asked[d], inbox'[d] \in {inbox[d], <<>>},
         Busy(d)' => Busy(d) /\ cur'.req = cur.req
  PROVE  OwnRequest(d)'
BY DEF OwnRequest

LEMMA RequestStep ==
  ASSUME ChatInv, [Next]_vars, NEW d \in Client, OwnRequest(d)
  PROVE  OwnRequest(d)'
<1>1. ASSUME NEW c \in Client, DropOversized(c) \/ Refuse(c) PROVE OwnRequest(d)'
  <2>1. inbox[c] # <<>> /\ inbox' = [inbox EXCEPT ![c] = Tail(@)] /\ UNCHANGED <<engine, client>>
    BY <1>1 DEF DropOversized, Refuse, Waiting
  <2>2. inbox'[d] \in {inbox[d], <<>>}
    BY <2>1, Taken1
  <2>3. UNCHANGED <<server, cur, asked>>
    BY <2>1 DEF engine, client
  <2> QED
    BY <2>2, <2>3, RequestKept DEF Busy
<1>2. ASSUME NEW c \in Client, Accept(c) PROVE OwnRequest(d)'
  <2>1. /\ inbox[c] # <<>> /\ inbox' = [inbox EXCEPT ![c] = Tail(@)] /\ UNCHANGED client
        /\ cur' = [c |-> c, req |-> Head(inbox[c]), finish |-> "none"]
    BY <1>2 DEF Accept, Waiting
  <2>2. inbox'[c] = <<>> /\ inbox'[d] \in {inbox[d], <<>>}
    BY <2>1, Taken1
  <2>3. asked'[d] = asked[d]
    BY <2>1 DEF client
  <2>4. CASE d = c
    <3>1. inbox[c] \in Seq(Requests)
      BY DEF ChatInv, Types, TypesOfClients
    <3>2. Head(inbox[c]) = inbox[c][1]
      BY <3>1
    <3>3. cur'.req = asked[d]
      BY <2>1, <2>4, <3>2 DEF OwnRequest
    <3> QED
      BY <2>2, <2>3, <2>4, <3>3 DEF OwnRequest
  <2>5. CASE d # c
    <3>1. ~Busy(d)'
      BY <2>1, <2>5 DEF Busy
    <3> QED
      BY <2>2, <2>3, <3>1, RequestKept
  <2> QED
    BY <2>4, <2>5
<1>3. CASE Prefill \/ Decode \/ EndOfGeneration \/ LengthReached
  <2>1. server \in Serving /\ UNCHANGED <<inbox, client>>
    BY <1>3 DEF Prefill, Decode, EndOfGeneration, LengthReached, Serving
  <2>2. UNCHANGED cur \/ \E how \in Finish : FinishAs(how)
    BY <1>3 DEF Prefill, Decode, EndOfGeneration, LengthReached, Finish
  <2>3. cur'.c = cur.c /\ cur'.req = cur.req
    BY <2>1, <2>2, Finishes
  <2>4. Busy(d)' => Busy(d) /\ cur'.req = cur.req
    BY <2>1, <2>3 DEF Busy
  <2> QED
    BY <2>1, <2>4, RequestKept DEF client
<1>4. CASE SendFinal \/ Stop
  <2>1. UNCHANGED <<inbox, client>> /\ server' \notin Serving
    BY <1>4 DEF SendFinal, Stop, Serving
  <2> QED
    BY <2>1, RequestKept DEF client, Busy
<1>5. ASSUME NEW c \in Client, Say(c) PROVE OwnRequest(d)'
  <2>0. cpc[c] = "idle" /\ UNCHANGED engine
    BY <1>5 DEF Say
  <2>1. PICK r : asked' = [asked EXCEPT ![c] = r] /\ inbox' = [inbox EXCEPT ![c] = Append(@, r)]
    BY <1>5 DEF Say
  <2>2. UNCHANGED <<server, cur>>
    BY <2>0 DEF engine
  <2>3. inbox \in [Client -> Seq(Requests)] /\ asked \in [Client -> Requests]
    BY DEF ChatInv, Types, TypesOfClients
  <2>4. CASE d = c
    <3>1. inbox[c] = <<>> /\ ~Busy(c)
      BY <2>0 DEF ChatInv, Good, OneTurn
    <3>2. inbox'[c] = Append(<<>>, r) /\ asked'[c] = r
      BY <2>1, <2>3, <3>1
    <3>3. Append(<<>>, r)[1] = r
      OBVIOUS
    <3>4. ~Busy(c)'
      BY <2>2, <3>1 DEF Busy
    <3> QED
      BY <2>4, <3>2, <3>3, <3>4 DEF OwnRequest
  <2>5. CASE d # c
    <3>1. inbox'[d] = inbox[d] /\ asked'[d] = asked[d]
      BY <2>1, <2>3, <2>5
    <3> QED
      BY <2>2, <3>1, RequestKept DEF Busy
  <2> QED
    BY <2>4, <2>5
<1>6. CASE Signal \/ \E c \in Client : Clear(c) \/ Read(c) \/ Timeout(c)
  <2>1. UNCHANGED <<engine, inbox, asked>>
    BY <1>6 DEF Signal, client, Clear, Read, ReadDelta, ReadFinal, ReadFails, Timeout, Leave
  <2> QED
    BY <2>1, RequestKept DEF engine, Busy
<1>7. CASE UNCHANGED vars
  <2>1. UNCHANGED <<server, cur, inbox, asked>>
    BY <1>7 DEF vars, engine, client
  <2> QED
    BY <2>1, RequestKept DEF Busy
<1> QED
  BY <1>1, <1>2, <1>3, <1>4, <1>5, <1>6, <1>7 DEF Next, ServerStep

-----------------------------------------------------------------------------
\* Nothing of d's turn was sent or read.
LEMMA StreamKept ==
  ASSUME NEW d \in Client, StreamGood(d),
         asked'[d] = asked[d], pipe'[d] = pipe[d], parts'[d] = parts[d], said'[d] = said[d],
         d \notin torn' => d \notin torn, cpc'[d] = "waiting" => cpc[d] = "waiting",
         inbox'[d] \in {inbox[d], <<>>},
         Busy(d)' => Busy(d) /\ Cut(gen'.raw) = Cut(gen.raw)
  PROVE  StreamGood(d)'
<1> SUFFICES ASSUME Complete(d)'
             PROVE  /\ Busy(d)' => StreamsTo(parts'[d], pipe'[d], Cut(gen'.raw))
                    /\ inbox'[d] # <<>> => StreamsTo(parts'[d], pipe'[d], <<>>)
                    /\ \A i \in DOMAIN pipe'[d] : pipe'[d][i].type = "final" =>
                         \E t \in Texts : StreamsTo(parts'[d], pipe'[d], t) /\ Agrees(said'[d], pipe'[d][i], t)
  BY DEF StreamGood
<1>1. Complete(d)
  BY DEF Complete
<1> QED
  BY <1>1 DEF StreamGood

\* What c was sent, if nothing of the turn was lost: what the stream so far
\* was, is, with the message, the stream that is to be.
LEMMA StreamSent ==
  ASSUME Types, NEW c \in Client, NEW m \in Message, SendReply(c, m),
         UNCHANGED <<cpc, asked, parts>>, Complete(c)'
  PROVE  /\ Complete(c) /\ pipe'[c] = Append(pipe[c], m)
         /\ \A t \in Texts : StreamsTo(parts[c], pipe[c], t) =>
              StreamsTo(parts'[c], pipe'[c], IF m.type = "delta" THEN t \o m.text ELSE t)
<1>1. pipe[c] \in Seq(Message)
  BY DEF Types, TypesOfSocket
<1>2. c \notin torn' /\ \A i \in DOMAIN pipe'[c] : pipe'[c][i].type # "garbled"
  BY DEF Complete
<1>3. m.rid \in 0 .. MaxTurns
  BY DEF Message
<1>4. pipe'[c] # Append(pipe[c], Garbled(m.rid))
  <2> DEFINE x == Garbled(m.rid)
  <2>1. x \in Message /\ x.type = "garbled"
    BY <1>3, GarbledIsMessage
  <2> HIDE DEF x
  <2>2. Len(pipe[c]) + 1 \in DOMAIN Append(pipe[c], x) /\ Append(pipe[c], x)[Len(pipe[c]) + 1] = x
    BY <1>1, <2>1
  <2> QED
    BY <1>2, <2>1, <2>2 DEF x
<1>5. pipe'[c] = Append(pipe[c], m) /\ c \notin torn
  BY <1>2, <1>4, SendDoes
<1>6. \A i \in DOMAIN pipe[c] : i \in DOMAIN pipe'[c] /\ pipe'[c][i] = pipe[c][i]
  BY <1>1, <1>5
<1>7. Complete(c)
  BY <1>2, <1>5, <1>6 DEF Complete
<1> QED
  BY <1>1, <1>5, <1>7, StreamsAlong

\* The final of c's turn, when t is what was streamed of it.
LEMMA FinalStreams ==
  ASSUME Types, NEW c \in Client, NEW m \in Message, m.type = "final", NEW t \in Texts, SendReply(c, m),
         UNCHANGED <<cpc, asked, parts>>, inbox'[c] = <<>>, ~Busy(c)',
         \A i \in DOMAIN pipe[c] : pipe[c][i].type # "final",
         Complete(c) => StreamsTo(parts[c], pipe[c], t),
         Agrees(said'[c], m, t)
  PROVE  StreamGood(c)'
<1> SUFFICES ASSUME Complete(c)'
             PROVE  \A i \in DOMAIN pipe'[c] : pipe'[c][i].type = "final" =>
                      \E u \in Texts : StreamsTo(parts'[c], pipe'[c], u) /\ Agrees(said'[c], pipe'[c][i], u)
  BY DEF StreamGood
<1>1. Complete(c) /\ pipe'[c] = Append(pipe[c], m) /\ StreamsTo(parts'[c], pipe'[c], t)
  <2>1. /\ Complete(c) /\ pipe'[c] = Append(pipe[c], m)
        /\ \A u \in Texts : StreamsTo(parts[c], pipe[c], u) =>
             StreamsTo(parts'[c], pipe'[c], IF m.type = "delta" THEN u \o m.text ELSE u)
    BY StreamSent
  <2> QED
    BY <2>1
<1>2. \A i \in DOMAIN pipe'[c] : pipe'[c][i].type = "final" => pipe'[c][i] = m
  <2>1. pipe[c] \in Seq(Message)
    BY DEF Types, TypesOfSocket
  <2>2. \A i \in DOMAIN pipe'[c] : pipe'[c][i] = m \/ (i \in DOMAIN pipe[c] /\ pipe'[c][i] = pipe[c][i])
    BY <1>1, <2>1
  <2> QED
    BY <2>2
<1> QED
  BY <1>1, <1>2

LEMMA RefuseStreams ==
  ASSUME ChatInv, NEW c \in Client, Refuse(c), NEW d \in Client, StreamGood(d)
  PROVE  StreamGood(d)'
<1> DEFINE m == Final(Head(inbox[c]).rid, <<>>, "error")
<1>1. /\ inbox[c] # <<>> /\ inbox' = [inbox EXCEPT ![c] = Tail(@)]
      /\ SendReply(c, m) /\ UNCHANGED <<engine, client>> /\ server = "poll"
  BY DEF Refuse, Waiting
<1>2. UNCHANGED <<server, cur, gen, said, cpc, asked, parts>>
  BY <1>1 DEF engine, client
<1>3. ~Busy(d)'
  BY <1>1, <1>2 DEF Busy, Serving
<1>4. /\ Head(inbox[c]).rid \in 0 .. MaxTurns /\ \A i \in DOMAIN pipe[c] : pipe[c][i].type # "final"
  BY <1>1, OnlyRequest DEF Requests
<1>5. m \in Message /\ m.type = "final" /\ m.text = <<>>
  BY <1>4, Empty DEF Message, Final, Finish
<1>6. Types /\ inbox'[c] = <<>> /\ \A e \in Client \ {c} : inbox'[e] = inbox[e]
  BY <1>1, Taken1 DEF ChatInv
<1> HIDE DEF m
<1>7. CASE d # c
  <2>1. pipe'[d] = pipe[d] /\ (d \in torn' <=> d \in torn)
    BY <1>1, <1>5, <1>6, <1>7, SendDoes
  <2> QED
    BY <1>2, <1>3, <1>6, <1>7, <2>1, StreamKept
<1>8. CASE d = c
  <2>1. Complete(c) => StreamsTo(parts[c], pipe[c], <<>>)
    BY <1>1, <1>8 DEF StreamGood
  <2>2. Agrees(said'[c], m, <<>>)
    BY <1>5 DEF Agrees
  <2>3. UNCHANGED <<cpc, asked, parts>> /\ ~Busy(c)'
    BY <1>2, <1>3, <1>8
  <2>4. StreamGood(c)'
    BY <1>1, <1>4, <1>5, <1>6, <2>1, <2>2, <2>3, Empty, FinalStreams
  <2> QED
    BY <1>8, <2>4
<1> QED
  BY <1>7, <1>8

\* Nobody's turn is sent or read, or generated for.
LEMMA NobodyStreams ==
  ASSUME NEW d \in Client, StreamGood(d), UNCHANGED <<said, asked, parts, pipe, torn, cpc>>,
         inbox'[d] \in {inbox[d], <<>>}, Busy(d)' => Busy(d) /\ Cut(gen'.raw) = Cut(gen.raw)
  PROVE  StreamGood(d)'
BY StreamKept

LEMMA QuietStreams ==
  ASSUME ChatInv, Generated, NEW d \in Client, StreamGood(d),
         \/ Prefill \/ EndOfGeneration \/ LengthReached \/ Stop \/ Signal \/ UNCHANGED vars
         \/ \E c \in Client : DropOversized(c) \/ Clear(c)
  PROVE  StreamGood(d)'
<1>1. CASE Prefill
  <2>1. server = "prefill" /\ gen' = NothingYet /\ UNCHANGED <<said, socket, inbox, client>>
    BY <1>1 DEF Prefill
  <2>2. gen' = gen
    BY <2>1 DEF Generated
  <2>3. "prefill" \in Serving /\ "error" \in Finish
    BY DEF Serving, Finish
  <2>4. cur'.c = cur.c
    BY <1>1, <2>1, <2>3, Finishes DEF Prefill
  <2>5. Busy(d)' => Busy(d)
    BY <2>1, <2>3, <2>4 DEF Busy
  <2> QED
    BY <2>1, <2>2, <2>5, NobodyStreams DEF socket, client
<1>2. CASE EndOfGeneration \/ LengthReached
  <2>1. server = "decode" /\ UNCHANGED <<gen, said, socket, inbox, client>>
    BY <1>2 DEF EndOfGeneration, LengthReached
  <2>2. "decode" \in Serving /\ "stop" \in Finish /\ "length" \in Finish
    BY DEF Serving, Finish
  <2>3. cur'.c = cur.c
    BY <1>2, <2>1, <2>2, Finishes DEF EndOfGeneration, LengthReached
  <2>4. Busy(d)' => Busy(d)
    BY <2>1, <2>2, <2>3 DEF Busy
  <2> QED
    BY <2>1, <2>4, NobodyStreams DEF socket, client
<1>3. CASE Stop
  <2>1. server' = "stopped" /\ UNCHANGED <<cur, gen, said, socket, inbox, client>>
    BY <1>3 DEF Stop
  <2>2. ~Busy(d)'
    BY <2>1 DEF Busy, Serving
  <2> QED
    BY <2>1, <2>2, NobodyStreams DEF socket, client
<1>4. CASE Signal \/ UNCHANGED vars \/ \E c \in Client : Clear(c)
  <2>1. UNCHANGED <<server, cur, gen, said, asked, parts, pipe, torn, cpc, inbox>>
    BY <1>4 DEF Signal, Clear, vars, engine, socket, client
  <2> QED
    BY <2>1, NobodyStreams DEF Busy
<1>5. ASSUME NEW c \in Client, DropOversized(c) PROVE StreamGood(d)'
  <2>1. inbox[c] # <<>> /\ inbox' = [inbox EXCEPT ![c] = Tail(@)] /\ UNCHANGED <<engine, socket, client>>
    BY <1>5 DEF DropOversized, Waiting
  <2>2. UNCHANGED <<server, cur, gen, said, asked, parts, pipe, torn, cpc>>
    BY <2>1 DEF engine, socket, client
  <2>3. inbox'[d] \in {inbox[d], <<>>}
    BY <2>1, <2>2, Taken1
  <2> QED
    BY <2>2, <2>3, NobodyStreams DEF Busy
<1> QED
  BY <1>1, <1>2, <1>3, <1>4, <1>5

LEMMA AcceptStreams ==
  ASSUME ChatInv, Generated, NEW c \in Client, Accept(c), NEW d \in Client, StreamGood(d)
  PROVE  StreamGood(d)'
<1>1. /\ inbox[c] # <<>> /\ inbox' = [inbox EXCEPT ![c] = Tail(@)] /\ cur'.c = c
      /\ server = "poll" /\ UNCHANGED <<gen, said, socket, client>>
  BY DEF Accept, Waiting
<1>2. UNCHANGED <<gen, said, asked, parts, pipe, torn, cpc>>
  BY <1>1 DEF socket, client
<1>3. inbox'[c] = <<>> /\ inbox'[d] \in {inbox[d], <<>>}
  BY <1>1, Taken1
<1>4. CASE d # c
  <2>1. ~Busy(d)'
    BY <1>1, <1>4 DEF Busy
  <2> QED
    BY <1>2, <1>3, <2>1, NobodyStreams
<1>5. CASE d = c
  <2>1. \A i \in DOMAIN pipe[c] : pipe[c][i].type # "final"
    BY <1>1, OnlyRequest
  <2>2. Cut(gen'.raw) = <<>>
    <3>1. gen'.raw = <<>>
      BY <1>1 DEF Generated, NothingYet
    <3> QED
      BY <3>1, NothingIsWhole
  <2>3. Complete(c)' => StreamsTo(parts'[c], pipe'[c], <<>>)
    BY <1>1, <1>2, <1>5 DEF StreamGood, Complete
  <2> QED
    BY <1>2, <1>3, <1>5, <2>1, <2>2, <2>3 DEF StreamGood
<1> QED
  BY <1>4, <1>5

LEMMA DecodeStreams ==
  ASSUME ChatInv, Generated, Decode, NEW d \in Client, StreamGood(d), OwnRequest(d)
  PROVE  StreamGood(d)'
<1>1. server = "decode" /\ UNCHANGED <<said, inbox, client>>
  BY DEF Decode
<1>2. PICK p \in Piece :
        /\ gen' = Taken(p)
        /\ IF cur.req.stream /\ Cut(gen.pending \o p) # <<>>
             THEN SendReply(cur.c, Delta(cur.req.rid, Cut(gen.pending \o p)))
             ELSE UNCHANGED socket
  BY DEF Decode
<1>3. server \in Serving
  BY <1>1 DEF Serving
<1>4. PICK c \in Client : c = cur.c
  BY <1>3, Serves
<1>5. cur'.c = c
  <2>1. "error" \in Finish /\ "length" \in Finish
    BY DEF Finish
  <2> QED
    BY <1>3, <1>4, <2>1, Finishes DEF Decode
<1>6. Types /\ UNCHANGED <<cpc, asked, parts>>
  BY <1>1 DEF ChatInv, client
<1>7. /\ Cut(gen'.raw) = Cut(gen.raw) \o Cut(gen.pending \o p)
      /\ Cut(gen.pending \o p) \in Texts /\ Cut(gen.raw) \in Texts
  <2>1. gen.raw \in Texts
    BY <1>6 DEF Types, TypesOfEngine
  <2> QED
    BY <1>2, <1>6, <2>1, TakenGoesOn, TakenTypes, CutIsText
<1> DEFINE ready == Cut(gen.pending \o p)
           m == Delta(cur.req.rid, ready)
<1>8. m \in Message /\ m.type = "delta" /\ m.text = ready
  <2>1. cur.req.rid \in 0 .. MaxTurns
    BY <1>3, Serves DEF Requests
  <2> QED
    BY <1>7, <2>1 DEF Message, Delta, Finish
<1> HIDE DEF ready, m
<1>9. \/ SendReply(c, m) /\ cur.req.stream /\ ready # <<>>
      \/ UNCHANGED socket /\ ~(cur.req.stream /\ ready # <<>>)
  BY <1>2, <1>4 DEF ready, m
<1>10. CASE d # c
  <2>1. ~Busy(d)'
    BY <1>5, <1>10 DEF Busy
  <2>2. pipe'[d] = pipe[d] /\ (d \in torn' <=> d \in torn)
    BY <1>6, <1>8, <1>9, <1>10, SendDoes DEF socket
  <2> QED
    BY <1>1, <1>6, <2>1, <2>2, StreamKept
<1>11. CASE d = c /\ UNCHANGED socket /\ ~(cur.req.stream /\ ready # <<>>)
  <2>1. Busy(c) /\ cur.req = asked[c]
    BY <1>3, <1>4, <1>11 DEF Busy, OwnRequest
  <2>2. CASE ~cur.req.stream
    BY <1>6, <1>11, <2>1, <2>2 DEF StreamGood, Complete
  <2>3. CASE ready = <<>>
    <3>1. Cut(gen'.raw) = Cut(gen.raw)
      BY <1>7, <2>3 DEF ready, Texts
    <3> QED
      BY <1>1, <1>6, <1>11, <2>1, <3>1, StreamKept DEF socket
  <2> QED
    BY <1>11, <2>2, <2>3
<1>12. CASE d = c /\ SendReply(c, m)
  <2> SUFFICES ASSUME Complete(c)' PROVE StreamGood(c)'
    BY <1>12 DEF StreamGood
  <2>1. inbox[c] = <<>> /\ Busy(c) /\ \A i \in DOMAIN pipe[c] : pipe[c][i].type # "final"
    BY <1>3, <1>4, Serves DEF Busy
  <2>2. Complete(c) /\ pipe'[c] = Append(pipe[c], m)
        /\ \A t \in Texts : StreamsTo(parts[c], pipe[c], t) =>
             StreamsTo(parts'[c], pipe'[c], IF m.type = "delta" THEN t \o m.text ELSE t)
    BY <1>6, <1>8, <1>12, StreamSent
  <2>3. StreamsTo(parts[c], pipe[c], Cut(gen.raw))
    BY <1>12, <2>1, <2>2 DEF StreamGood
  <2>4. StreamsTo(parts'[c], pipe'[c], Cut(gen'.raw))
    BY <1>7, <1>8, <2>2, <2>3 DEF ready
  <2>5. \A i \in DOMAIN pipe'[c] : pipe'[c][i].type # "final"
    <3>1. pipe[c] \in Seq(Message)
      BY <1>6 DEF Types, TypesOfSocket
    <3>2. \A i \in DOMAIN pipe'[c] : pipe'[c][i] = m \/ (i \in DOMAIN pipe[c] /\ pipe'[c][i] = pipe[c][i])
      BY <1>8, <2>2, <3>1
    <3> QED
      BY <1>8, <2>1, <3>2
  <2>6. inbox'[c] = <<>>
    BY <1>1, <2>1
  <2> QED
    BY <2>4, <2>5, <2>6 DEF StreamGood
<1> QED
  BY <1>9, <1>10, <1>11, <1>12

\* The final tells what was streamed.
LEMMA SendFinalStreams ==
  ASSUME ChatInv, Generated, SendFinal, NEW d \in Client, StreamGood(d)
  PROVE  StreamGood(d)'
<1> DEFINE m == Final(cur.req.rid, Text, cur.finish)
           s == [text |-> Text, special |-> gen.raw # gen.plain]
<1>0. PICK c \in Client, rid \in 0 .. MaxTurns : c = cur.c /\ rid = cur.req.rid
  BY Serves DEF SendFinal, Serving, Requests
<1>1. /\ server = "final" /\ SendReply(c, m) /\ said' = [said EXCEPT ![c][rid] = s]
      /\ server' = "poll" /\ UNCHANGED <<inbox, client>>
  BY <1>0 DEF SendFinal
<1>2. server \in Serving
  BY <1>1 DEF Serving
<1>3. /\ cur \in Jobs /\ rid = asked[c].rid /\ cpc[c] # "idle" /\ Busy(c)
      /\ inbox[c] = <<>> /\ \A i \in DOMAIN pipe[c] : pipe[c][i].type # "final"
  BY <1>0, <1>2, Serves
<1>4. Types /\ UNCHANGED <<cpc, asked, parts>>
  BY <1>1 DEF ChatInv, client
<1>5. /\ gen.raw \in Texts /\ gen.plain \in Texts /\ Cut(gen.raw) \in Texts /\ Cut(gen.plain) \in Texts
      /\ Text \in {Cut(gen.raw), Cut(gen.plain)}
  BY <1>4, CutIsText DEF Types, TypesOfEngine, Text
<1>6. m \in Message /\ m.type = "final" /\ m.rid = rid /\ m.text = Text
  BY <1>0, <1>3, <1>5 DEF Message, Final, Jobs
<1>7. s.special = (gen.raw # gen.plain)
  OBVIOUS
<1> HIDE DEF m, s
<1>8. ~Busy(d)'
  BY <1>1 DEF Busy, Serving
<1>9. said \in [Client -> [1 .. MaxTurns -> {None} \cup Said]]
  BY <1>4 DEF Types, TypesOfEngine
<1>10. CASE d # c
  <2>1. said'[d] = said[d]
    BY <1>1, <1>9, <1>10
  <2>2. pipe'[d] = pipe[d] /\ (d \in torn' <=> d \in torn)
    BY <1>1, <1>4, <1>6, <1>10, SendDoes
  <2> QED
    BY <1>1, <1>4, <1>8, <2>1, <2>2, StreamKept
<1>11. CASE d = c
  <2>1. said'[c][rid] = s
    <3>1. asked[c].rid >= 1 /\ asked[c].rid \in 0 .. MaxTurns /\ MaxTurns \in Nat
      BY <1>3, <1>4, ChatAssumption DEF ChatInv, Good, OneTurn, Types, TypesOfClients, Requests
    <3>2. rid \in 1 .. MaxTurns
      BY <1>3, <3>1
    <3> QED
      BY <1>1, <1>9, <3>2
  <2>2. Len(Cut(gen.raw)) >= Len(Text)
    <3>1. Len(Cut(gen.plain)) <= Len(Cut(gen.raw)) /\ Len(Cut(gen.plain)) \in Nat /\ Len(Cut(gen.raw)) \in Nat
      BY <1>4, <1>5, FinalIsNoLonger DEF Texts
    <3> QED
      BY <1>5, <3>1
  <2>3. ~s.special => Cut(gen.raw) = Text
    BY <1>5, <1>7
  <2>4. Agrees(said'[c], m, Cut(gen.raw))
    BY <1>6, <2>1, <2>2, <2>3 DEF Agrees
  <2>5. Complete(c) => StreamsTo(parts[c], pipe[c], Cut(gen.raw))
    BY <1>3, <1>11 DEF StreamGood
  <2>6. inbox'[c] = <<>> /\ ~Busy(c)'
    BY <1>1, <1>3, <1>8, <1>11
  <2>7. StreamGood(c)'
    BY <1>1, <1>3, <1>4, <1>5, <1>6, <2>4, <2>5, <2>6, FinalStreams
  <2> QED
    BY <1>11, <2>7
<1> QED
  BY <1>10, <1>11

-----------------------------------------------------------------------------
\* A new turn: nothing has been streamed.
LEMMA SayStreams ==
  ASSUME ChatInv, NEW c \in Client, Say(c), NEW d \in Client, StreamGood(d)
  PROVE  StreamGood(d)'
<1>1. /\ cpc[c] = "idle" /\ parts' = [parts EXCEPT ![c] = <<>>] /\ cpc' = [cpc EXCEPT ![c] = "waiting"]
      /\ torn' = torn \ {c} /\ UNCHANGED <<engine, pipe>>
  BY DEF Say, NoParts
<1>2. PICK r : asked' = [asked EXCEPT ![c] = r] /\ inbox' = [inbox EXCEPT ![c] = Append(@, r)]
  BY DEF Say
<1>3. /\ inbox \in [Client -> Seq(Requests)] /\ cpc \in [Client -> {"idle", "waiting", "gone"}]
      /\ asked \in [Client -> Requests] /\ parts \in [Client -> Texts]
  BY DEF ChatInv, Types, TypesOfClients
<1>4. UNCHANGED <<server, cur, gen, said>>
  BY <1>1 DEF engine
<1>5. CASE d # c
  <2>1. /\ asked'[d] = asked[d] /\ inbox'[d] = inbox[d] /\ parts'[d] = parts[d] /\ cpc'[d] = cpc[d]
        /\ pipe'[d] = pipe[d] /\ said'[d] = said[d] /\ (d \in torn' <=> d \in torn)
    BY <1>1, <1>2, <1>3, <1>4, <1>5
  <2> QED
    BY <1>4, <2>1, StreamKept DEF Busy
<1>6. CASE d = c
  <2>1. pipe[c] = <<>> /\ ~Busy(c)
    BY <1>1 DEF ChatInv, Good, OneTurn
  <2>2. parts'[c] = <<>> /\ pipe'[c] = <<>> /\ ~Busy(c)'
    BY <1>1, <1>3, <1>4, <2>1 DEF Busy
  <2>3. StreamsTo(parts'[c], pipe'[c], <<>>)
    BY <2>2, Empty, StreamsNothing
  <2>4. \A i \in DOMAIN pipe'[c] : FALSE
    BY <2>2
  <2> QED
    BY <1>6, <2>2, <2>3, <2>4 DEF StreamGood
<1> QED
  BY <1>5, <1>6

LEMMA ReadDeltaStreams ==
  ASSUME ChatInv, NEW c \in Client, ReadDelta(c), NEW d \in Client, StreamGood(d)
  PROVE  StreamGood(d)'
<1>1. /\ HasReply(c) /\ Popped(c) /\ Head(pipe[c]).type = "delta"
      /\ parts' = [parts EXCEPT ![c] = @ \o Head(pipe[c]).text]
      /\ UNCHANGED <<engine, inbox, cpc, asked>>
  BY DEF ReadDelta
<1>2. UNCHANGED <<server, cur, gen, said, torn>>
  BY <1>1 DEF engine, Popped
<1>3. parts \in [Client -> Texts] /\ pipe \in [Client -> Seq(Message)]
  BY DEF ChatInv, Types, TypesOfClients, TypesOfSocket
<1>4. /\ \A e \in Client \ {c} : pipe'[e] = pipe[e]
      /\ Head(pipe[c]) = pipe[c][1] /\ 1 \in DOMAIN pipe[c] /\ Head(pipe[c]) \in Message
      /\ \A i \in DOMAIN pipe'[c] : i + 1 \in DOMAIN pipe[c] /\ pipe'[c][i] = pipe[c][i + 1]
  BY <1>1, PopLeaves
<1>5. CASE d # c
  <2>1. parts'[d] = parts[d] /\ pipe'[d] = pipe[d]
    BY <1>1, <1>3, <1>4, <1>5
  <2> QED
    BY <1>1, <1>2, <2>1, StreamKept DEF Busy
<1>6. CASE d = c
  <2> SUFFICES ASSUME Complete(c)' PROVE StreamGood(c)'
    BY <1>6 DEF StreamGood
  <2>1. pipe[c] \in Seq(Message) /\ pipe[c] # <<>> /\ pipe'[c] = Tail(pipe[c])
    BY <1>1, <1>3 DEF HasReply, Popped
  <2>2. parts[c] \in Texts /\ parts'[c] = parts[c] \o Head(pipe[c]).text
    BY <1>1, <1>3
  <2>3. Complete(c)
    <3>1. asked[c].stream /\ c \notin torn /\ cpc[c] = "waiting"
      BY <1>1, <1>2 DEF Complete
    <3>2. \A i \in DOMAIN pipe[c] : pipe[c][i].type # "garbled"
      <4> SUFFICES ASSUME NEW i \in DOMAIN pipe[c] PROVE pipe[c][i].type # "garbled"
        OBVIOUS
      <4>1. CASE i = 1
        BY <1>1, <1>4, <4>1
      <4>2. CASE i # 1
        <5>1. i \in 1 .. Len(pipe[c]) /\ Len(pipe[c]) \in Nat /\ Len(Tail(pipe[c])) = Len(pipe[c]) - 1
          BY <2>1, LenProperties, HeadTailProperties, Zenon
        <5>2. i - 1 \in 1 .. Len(Tail(pipe[c])) /\ (i - 1) + 1 = i
          BY <4>2, <5>1
        <5>3. i - 1 \in DOMAIN pipe'[c]
          BY <2>1, <5>2
        <5> QED
          BY <1>4, <5>2, <5>3 DEF Complete
      <4> QED
        BY <4>1, <4>2
    <3> QED
      BY <3>1, <3>2 DEF Complete
  <2>4. \A t : StreamsTo(parts[c], pipe[c], t) => StreamsTo(parts'[c], pipe'[c], t)
    BY <1>1, <2>1, <2>2, StreamsOn
  <2>5. Busy(c)' => StreamsTo(parts'[c], pipe'[c], Cut(gen'.raw))
    BY <1>2, <1>6, <2>3, <2>4 DEF StreamGood, Busy
  <2>6. inbox'[c] # <<>> => StreamsTo(parts'[c], pipe'[c], <<>>)
    BY <1>1, <1>6, <2>3, <2>4 DEF StreamGood
  <2>7. ASSUME NEW i \in DOMAIN pipe'[c], pipe'[c][i].type = "final"
        PROVE  \E t \in Texts : StreamsTo(parts'[c], pipe'[c], t) /\ Agrees(said'[c], pipe'[c][i], t)
    <3>1. i + 1 \in DOMAIN pipe[c] /\ pipe[c][i + 1] = pipe'[c][i]
      BY <1>4
    <3>2. PICK t \in Texts : StreamsTo(parts[c], pipe[c], t) /\ Agrees(said[c], pipe'[c][i], t)
      BY <1>6, <2>3, <2>7, <3>1 DEF StreamGood
    <3> QED
      BY <1>2, <2>4, <3>2
  <2> QED
    BY <2>5, <2>6, <2>7 DEF StreamGood
<1> QED
  BY <1>5, <1>6

\* The turn is over.
LEMMA TurnIsOver ==
  ASSUME ChatInv, NEW c \in Client, ReadFinal(c) \/ ReadFails(c) \/ Timeout(c), NEW d \in Client, StreamGood(d)
  PROVE  StreamGood(d)'
<1>1. /\ \E how \in {"idle", "gone"} : cpc' = [cpc EXCEPT ![c] = how]
      /\ \E q : pipe' = [pipe EXCEPT ![c] = q]
      /\ UNCHANGED <<engine, inbox, asked, parts, torn>>
  BY DEF ReadFinal, Popped, ReadFails, Timeout, Leave
<1>2. UNCHANGED <<server, cur, gen, said>>
  BY <1>1 DEF engine
<1>3. cpc \in [Client -> {"idle", "waiting", "gone"}] /\ pipe \in [Client -> Seq(Message)]
  BY DEF ChatInv, Types, TypesOfClients, TypesOfSocket
<1>4. CASE d # c
  <2>1. cpc'[d] = cpc[d] /\ pipe'[d] = pipe[d]
    BY <1>1, <1>3, <1>4
  <2> QED
    BY <1>1, <1>2, <2>1, StreamKept DEF Busy
<1>5. CASE d = c
  <2>1. cpc'[c] \in {"idle", "gone"}
    BY <1>1, <1>3
  <2> QED
    BY <1>5, <2>1 DEF StreamGood, Complete
<1> QED
  BY <1>4, <1>5

-----------------------------------------------------------------------------
LEMMA StreamStep ==
  ASSUME ChatInv, Generated, [Next]_vars, NEW d \in Client, OwnRequest(d), StreamGood(d)
  PROVE  StreamGood(d)'
<1>1. CASE Prefill \/ EndOfGeneration \/ LengthReached \/ Stop \/ Signal \/ UNCHANGED vars
  BY <1>1, QuietStreams
<1>2. ASSUME NEW c \in Client, DropOversized(c) \/ Clear(c) PROVE StreamGood(d)'
  BY <1>2, QuietStreams
<1>3. ASSUME NEW c \in Client, Refuse(c) \/ Accept(c) PROVE StreamGood(d)'
  BY <1>3, RefuseStreams, AcceptStreams
<1>4. CASE Decode \/ SendFinal
  BY <1>4, DecodeStreams, SendFinalStreams
<1>5. ASSUME NEW c \in Client, Say(c) \/ Read(c) \/ Timeout(c) PROVE StreamGood(d)'
  BY <1>5, SayStreams, ReadDeltaStreams, TurnIsOver DEF Read
<1> QED
  BY <1>1, <1>2, <1>3, <1>4, <1>5 DEF Next, ServerStep

LEMMA StreamInvariance == Spec => []StreamInv
<1> DEFINE OnStream == \A c \in Client : OwnRequest(c) /\ StreamGood(c)
<1>1. Init => OnStream
  BY DEF Init, OwnRequest, StreamGood, Complete, Busy, Serving
<1>2. TextInv /\ OnStream /\ [Next]_vars => OnStream'
  <2> SUFFICES ASSUME TextInv, OnStream, [Next]_vars, NEW d \in Client
               PROVE  OwnRequest(d)' /\ StreamGood(d)'
    OBVIOUS
  <2>1. ChatInv /\ Generated /\ OwnRequest(d) /\ StreamGood(d)
    BY DEF TextInv
  <2> QED
    BY <2>1, RequestStep, StreamStep
<1>3. StreamInv <=> TextInv /\ OnStream
  BY DEF StreamInv
<1> HIDE DEF OnStream
<1> QED
  BY <1>1, <1>2, <1>3, TextInvariance, PTL DEF Spec

(* A client that reads a final of a streamed turn, of which no message was *)
(* dropped, has read what the final says, and more only where the model    *)
(* said special tokens: for any pieces and limits, UTF-8 or not.           *)
THEOREM StreamedIsTheText == Spec => []StreamedIsText
<1>1. StreamInv => StreamedIsText
  <2> SUFFICES ASSUME StreamInv, NEW c \in Client,
                      HasReply(c), Head(pipe[c]).type = "final", asked[c].stream, c \notin torn,
                      said[c][Head(pipe[c]).rid] # None
               PROVE  /\ Len(parts[c]) >= Len(Head(pipe[c]).text)
                      /\ ~said[c][Head(pipe[c]).rid].special => parts[c] = Head(pipe[c]).text
    BY DEF StreamedIsText
  <2>1. ChatInv /\ Good(c) /\ StreamGood(c)
    BY DEF StreamInv, TextInv, ChatInv
  <2>2. pipe[c] \in Seq(Message) /\ pipe[c] # <<>> /\ cpc[c] = "waiting"
    BY <2>1 DEF HasReply, ChatInv, Types, TypesOfSocket
  <2>3. Head(pipe[c]) = pipe[c][1] /\ 1 \in DOMAIN pipe[c] /\ DOMAIN pipe[c] = 1 .. Len(pipe[c])
    <3>1. Len(pipe[c]) \in Nat /\ Len(pipe[c]) # 0
      BY <2>2, EmptySeq
    <3> QED
      BY <2>2, <3>1
  <2>4. Len(pipe[c]) = 1 /\ pipe[c][1].type = "final"
    BY <2>1, <2>3 DEF Good, OneTurn
  <2>5. Complete(c)
    <3>1. \A i \in DOMAIN pipe[c] : i = 1
      BY <2>3, <2>4
    <3> QED
      BY <2>2, <2>4, <3>1 DEF Complete
  <2>6. PICK t \in Texts : StreamsTo(parts[c], pipe[c], t) /\ Agrees(said[c], pipe[c][1], t)
    BY <2>1, <2>3, <2>4, <2>5 DEF StreamGood
  <2>7. t = parts[c]
    BY <2>4, <2>6, StreamsOut
  <2> QED
    BY <2>3, <2>6, <2>7 DEF Agrees
<1> QED
  BY <1>1, StreamInvariance, PTL
=============================================================================
