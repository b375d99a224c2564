------------------------------ MODULE VlmServer ------------------------------
(***************************************************************************)
(* Chat over vlm-server (src/src/serving/vlm-server.cpp and                *)
(* src/src/vlm/engine.cpp): a ROUTER socket and one request at a time,     *)
(* whose reply is a stream of deltas and then a final; and the clients     *)
(* (src/examples/chat/vlm_chat_client.py), each a DEALER socket with one   *)
(* turn at a time and a receive timeout that ends the program.             *)
(*                                                                         *)
(* A text is a sequence of byte classes (Utf8).                            *)
(***************************************************************************)
EXTENDS Naturals, Sequences, Utf8

CONSTANTS
  Client,
  Kind,         \* what a request may be: "chat", "bad" or "oversized"
  Piece,        \* what a token reads as
  Special,      \* the pieces that are special tokens: streamed, not in the text
  AnyBytes,     \* whether the model may say what is no UTF-8
  Budget,       \* the token counts a request may ask for, capped by n_ctx
  MaxMessages,  \* kMaxMessages
  Hwm,          \* what a client's pipe holds before the ROUTER drops
  MaxTurns,     \* bound on a client's turns
  MaxFailures,  \* bound on sends that throw
  None

VARIABLES
  server,    \* where the server is
  shutdown,  \* g_shutdown
  cur,       \* the request being served and how it finished
  gen,       \* what engine.chat has generated
  open,      \* a multipart reply was left unfinished
  failures,
  inbox,     \* each client's requests on their way
  pipe,      \* each client's replies on their way
  cpc, asked, parts, history,  \* the client: where it is, its request, what was streamed, the transcript
  said,      \* auxiliary: the finals, by client and request id
  torn       \* auxiliary: the clients whose turn lost a reply

socket  == <<pipe, open, shutdown, failures, torn>>
engine  == <<server, cur, gen, said>>
client  == <<cpc, asked, parts, history>>
vars    == <<engine, socket, inbox, client>>

Delta(rid, text)         == [type |-> "delta", rid |-> rid, text |-> text, finish |-> "none"]
Final(rid, text, finish) == [type |-> "final", rid |-> rid, text |-> text, finish |-> finish]
Garbled(rid)             == [type |-> "garbled", rid |-> rid, text |-> <<>>, finish |-> "none"]

NoRequest == [rid |-> 0, kind |-> "chat", stream |-> FALSE, budget |-> 0, messages |-> 0]
NothingYet == [raw |-> <<>>, plain |-> <<>>, pending |-> <<>>, n |-> 0]

ASSUME ChatAssumption ==
  /\ Kind \subseteq {"chat", "bad", "oversized"}
  /\ Special \subseteq Piece /\ Piece \subseteq Seq(Byte)
  /\ AnyBytes \in BOOLEAN
  /\ Budget \subseteq Nat
  /\ {MaxMessages, Hwm, MaxTurns, MaxFailures} \subseteq Nat

\* A vocabulary names its special tokens in text.
ASSUME SpecialAssumption == \A p \in Special : Whole(p)

Init ==
  /\ server = "poll"
  /\ shutdown = FALSE
  /\ cur = None
  /\ gen = NothingYet
  /\ open = FALSE
  /\ failures = 0
  /\ inbox = [c \in Client |-> <<>>]
  /\ pipe = [c \in Client |-> <<>>]
  /\ cpc = [c \in Client |-> "idle"]
  /\ asked = [c \in Client |-> NoRequest]
  /\ parts = [c \in Client |-> <<>>]
  /\ history = [c \in Client |-> <<>>]
  /\ torn = {}
  /\ said = [c \in Client |-> [r \in 1 .. MaxTurns |-> None]]

-----------------------------------------------------------------------------
(* The ROUTER socket *)

\* The frames of the reply go out; behind an unfinished multipart they are
\* part of it. A full pipe, or a peer that left, drops them.
Deliver(c, m) ==
  /\ IF cpc[c] # "gone" /\ Len(pipe[c]) < Hwm
       THEN /\ pipe' = [pipe EXCEPT ![c] = Append(@, IF open THEN Garbled(m.rid) ELSE m)]
            /\ UNCHANGED torn
       ELSE torn' = torn \cup {c} /\ UNCHANGED pipe
  /\ open' = FALSE
  /\ UNCHANGED <<shutdown, failures>>

\* A send throws, perhaps after the envelope went out.
SendFails(c) ==
  /\ failures < MaxFailures
  /\ torn' = torn \cup {c}
  /\ failures' = failures + 1
  /\ shutdown' = TRUE
  /\ open' \in {open, TRUE}
  /\ UNCHANGED pipe

SendReply(c, m) == Deliver(c, m) \/ SendFails(c)

-----------------------------------------------------------------------------
(* The server *)

Waiting(c) == server = "poll" /\ ~shutdown /\ inbox[c] # <<>>

Refused(r) == r.kind = "bad" \/ r.messages > MaxMessages

\* An envelope over the limits is drained and dropped without a reply.
DropOversized(c) ==
  /\ Waiting(c) /\ Head(inbox[c]).kind = "oversized"
  /\ inbox' = [inbox EXCEPT ![c] = Tail(@)]
  /\ UNCHANGED <<engine, socket, client>>

\* A broken variant: the request is served after it was refused.
RefuseAndServe(c) ==
  LET r == Head(inbox[c]) IN
  /\ Waiting(c) /\ r.kind # "oversized" /\ Refused(r)
  /\ inbox' = [inbox EXCEPT ![c] = Tail(@)]
  /\ SendReply(c, Final(r.rid, <<>>, "error"))
  /\ cur' = [c |-> c, req |-> r, finish |-> "none"]
  /\ server' = "prefill"
  /\ UNCHANGED <<gen, said, client>>

\* A broken variant: no reply.
RefuseSilently(c) ==
  LET r == Head(inbox[c]) IN
  /\ Waiting(c) /\ r.kind # "oversized" /\ Refused(r)
  /\ inbox' = [inbox EXCEPT ![c] = Tail(@)]
  /\ UNCHANGED <<engine, socket, client>>

\* Too many messages, too much text or an image that does not decode: one final.
Refuse(c) ==
  LET r == Head(inbox[c]) IN
  /\ Waiting(c) /\ r.kind # "oversized" /\ Refused(r)
  /\ inbox' = [inbox EXCEPT ![c] = Tail(@)]
  /\ SendReply(c, Final(r.rid, <<>>, "error"))
  /\ UNCHANGED <<engine, client>>

Accept(c) ==
  LET r == Head(inbox[c]) IN
  /\ Waiting(c) /\ r.kind # "oversized" /\ ~Refused(r)
  /\ inbox' = [inbox EXCEPT ![c] = Tail(@)]
  /\ cur' = [c |-> c, req |-> r, finish |-> "none"]
  /\ server' = "prefill"
  /\ UNCHANGED <<gen, said, socket, client>>

FinishAs(how) ==
  /\ cur' = [cur EXCEPT !.finish = how]
  /\ server' = "final"

\* engine.chat up to the first token; its errors return an empty text.
Prefill ==
  /\ server = "prefill"
  /\ gen' = NothingYet
  /\ \/ server' = "decode" /\ UNCHANGED cur
     \/ FinishAs("error")
  /\ UNCHANGED <<said, socket, inbox, client>>

\* A broken variant: what was streamed stays pending.
TakenAgain(p) ==
  [raw     |-> gen.raw \o p,
   plain   |-> IF p \in Special THEN gen.plain ELSE gen.plain \o p,
   pending |-> gen.pending \o p,
   n       |-> gen.n + 1]

\* The next token's piece, kept back while it ends within a character. The
\* final is detokenised anew from all tokens (engine.cpp:290): its text is taken
\* to be that of the pieces put together (plain), as it is with a vocabulary
\* that neither drops a leading space nor cleans spaces up.
Taken(p) ==
  LET pending == gen.pending \o p IN
  [raw     |-> gen.raw \o p,
   plain   |-> IF p \in Special THEN gen.plain ELSE gen.plain \o p,
   pending |-> SubSeq(pending, CompletePrefix(pending) + 1, Len(pending)),
   n       |-> gen.n + 1]

\* One turn of the decode loop: sample, stream, decode. The context may be full,
\* or llama_decode may fail. The callback never asks to stop.
Decode ==
  /\ server = "decode" /\ gen.n < cur.req.budget
  /\ \E p \in Piece :
       LET ready == Cut(gen.pending \o p) IN
       /\ AnyBytes \/ WellFormedSoFar(gen.raw \o p)
       /\ gen' = Taken(p)
       /\ IF cur.req.stream /\ ready # <<>>
            THEN SendReply(cur.c, Delta(cur.req.rid, ready))
            ELSE UNCHANGED socket
  /\ \/ UNCHANGED <<server, cur>>
     \/ FinishAs("length")
     \/ FinishAs("error")
  /\ UNCHANGED <<said, inbox, client>>

EndOfGeneration ==
  /\ server = "decode" /\ gen.n < cur.req.budget
  /\ FinishAs("stop")
  /\ UNCHANGED <<gen, said, socket, inbox, client>>

LengthReached ==
  /\ server = "decode" /\ gen.n = cur.req.budget
  /\ FinishAs("length")
  /\ UNCHANGED <<gen, said, socket, inbox, client>>

\* A broken variant: the text is not cut to whole characters.
UncutText == IF cur.finish = "error" THEN gen.raw ELSE gen.plain

\* The text of the final: the generated tokens without the special ones, or
\* the pieces so far.
Text == IF cur.finish = "error" THEN Cut(gen.raw) ELSE Cut(gen.plain)

SendFinal ==
  /\ server = "final"
  /\ SendReply(cur.c, Final(cur.req.rid, Text, cur.finish))
  /\ said' = [said EXCEPT ![cur.c][cur.req.rid] =
                [text |-> Text, special |-> gen.raw # gen.plain]]
  /\ server' = "poll"
  /\ cur' = None
  /\ gen' = NothingYet
  /\ UNCHANGED <<inbox, client>>

\* A broken variant: the queue is to be empty first.
StopOnceDrained ==
  /\ server = "poll" /\ shutdown /\ \A c \in Client : inbox[c] = <<>>
  /\ server' = "stopped"
  /\ UNCHANGED <<cur, gen, said, socket, inbox, client>>

Stop ==
  /\ server = "poll" /\ shutdown
  /\ server' = "stopped"
  /\ UNCHANGED <<cur, gen, said, socket, inbox, client>>

\* SIGINT or SIGTERM, noticed between requests.
Signal ==
  /\ server # "stopped" /\ ~shutdown
  /\ shutdown' = TRUE
  /\ UNCHANGED <<engine, pipe, open, failures, torn, inbox, client>>

-----------------------------------------------------------------------------
(* The client *)

\* A broken variant: what was streamed in the turn before stays.
KeepParts(c) == UNCHANGED parts

NoParts(c) == parts' = [parts EXCEPT ![c] = <<>>]

\* A turn: the transcript and the line, or (once) a single prompt.
Say(c) ==
  /\ cpc[c] = "idle" /\ asked[c].rid < MaxTurns
  /\ \E k \in Kind, b \in Budget, s \in BOOLEAN :
       LET r == [rid |-> asked[c].rid + 1, kind |-> k, stream |-> s, budget |-> b,
                 messages |-> 2 * Len(history[c]) + 1]
       IN /\ asked' = [asked EXCEPT ![c] = r]
          /\ inbox' = [inbox EXCEPT ![c] = Append(@, r)]
  /\ NoParts(c)
  /\ cpc' = [cpc EXCEPT ![c] = "waiting"]
  /\ torn' = torn \ {c}
  /\ UNCHANGED <<engine, pipe, open, shutdown, failures, history>>

\* /clear.
Clear(c) ==
  /\ cpc[c] = "idle" /\ history[c] # <<>>
  /\ history' = [history EXCEPT ![c] = <<>>]
  /\ UNCHANGED <<engine, socket, inbox, cpc, asked, parts>>

HasReply(c) == cpc[c] = "waiting" /\ pipe[c] # <<>>
Readable(m) == m.type # "garbled" /\ Whole(m.text)
Popped(c) == pipe' = [pipe EXCEPT ![c] = Tail(@)] /\ UNCHANGED <<open, shutdown, failures, torn>>

ReadDelta(c) ==
  /\ HasReply(c) /\ Readable(Head(pipe[c])) /\ Head(pipe[c]).type = "delta"
  /\ parts' = [parts EXCEPT ![c] = @ \o Head(pipe[c]).text]
  /\ Popped(c)
  /\ UNCHANGED <<engine, inbox, cpc, asked, history>>

\* A broken variant: what was streamed goes into the transcript.
StreamedReply(c, m) == IF parts[c] = <<>> THEN m.text ELSE parts[c]

\* The reply that goes into the transcript: final.text or streamed.
Reply(c, m) == IF m.text = <<>> THEN parts[c] ELSE m.text

ReadFinal(c) ==
  LET m == Head(pipe[c]) IN
  /\ HasReply(c) /\ Readable(m) /\ m.type = "final"
  /\ history' = IF m.finish = "error" THEN history
                  ELSE [history EXCEPT ![c] = Append(@, [turn |-> asked[c].rid, text |-> Reply(c, m)])]
  /\ cpc' = [cpc EXCEPT ![c] = "idle"]
  /\ Popped(c)
  /\ UNCHANGED <<engine, inbox, asked, parts>>

Leave(c) ==
  /\ cpc' = [cpc EXCEPT ![c] = "gone"]
  /\ pipe' = [pipe EXCEPT ![c] = <<>>]
  /\ UNCHANGED <<engine, open, shutdown, failures, torn, inbox, asked, parts, history>>

\* ParseFromString throws: the bytes are no StreamMessage, or a string in it is
\* no UTF-8. Nobody catches it.
ReadFails(c) == HasReply(c) /\ ~Readable(Head(pipe[c])) /\ Leave(c)

\* RCVTIMEO: main reports it and ends.
Timeout(c) == cpc[c] = "waiting" /\ pipe[c] = <<>> /\ Leave(c)

-----------------------------------------------------------------------------
ServerStep == \/ \E c \in Client : DropOversized(c) \/ Refuse(c) \/ Accept(c)
              \/ Prefill \/ Decode \/ EndOfGeneration \/ LengthReached \/ SendFinal \/ Stop
Read(c) == ReadDelta(c) \/ ReadFinal(c) \/ ReadFails(c)

Next == \/ ServerStep \/ Signal
        \/ \E c \in Client : Say(c) \/ Clear(c) \/ Read(c) \/ Timeout(c)

Spec == Init /\ [][Next]_vars

\* The server runs, a waiting client reads, and libzmq takes from every peer.
Served(c) == DropOversized(c) \/ Refuse(c) \/ Accept(c)
FairSpec == /\ Spec /\ WF_vars(ServerStep)
            /\ \A c \in Client : WF_vars(Read(c)) /\ SF_vars(Served(c))

-----------------------------------------------------------------------------
Texts == Seq(Byte)
Requests == [rid : 0 .. MaxTurns, kind : Kind \cup {"chat"}, stream : BOOLEAN, budget : Budget \cup {0}, messages : Nat]

TypeOK ==
  /\ server \in {"poll", "prefill", "decode", "final", "stopped"}
  /\ shutdown \in BOOLEAN /\ open \in BOOLEAN /\ failures \in 0 .. MaxFailures
  /\ cur # None => cur \in [c : Client, req : Requests, finish : {"none", "stop", "length", "error"}]
  /\ gen \in [raw : Texts, plain : Texts, pending : Texts, n : Nat]
  /\ Len(gen.pending) <= 3
  /\ inbox \in [Client -> Seq(Requests)]
  /\ \A c \in Client : Len(pipe[c]) <= Hwm
  /\ cpc \in [Client -> {"idle", "waiting", "gone"}]
  /\ asked \in [Client -> Requests]
  /\ torn \subseteq Client
  /\ parts \in [Client -> Texts]

(* The client never looks at a reply's request id. All the same whatever   *)
(* it reads in a turn is a reply to that turn, and nothing is left when    *)
(* the turn is over: one final, and no delta after it.                     *)
OwnReplies ==
  \A c \in Client :
    /\ \A i \in DOMAIN pipe[c] : pipe[c][i].rid = asked[c].rid
    /\ cpc[c] = "idle" => pipe[c] = <<>>

(* When the model says UTF-8, every message is UTF-8 a client can parse,   *)
(* wherever tokens, a length limit or an error cut the text.               *)
MessagesAreText == \A c \in Client : \A i \in DOMAIN pipe[c] : Whole(pipe[c][i].text)

(* What was streamed is the text of the final: where the pipe dropped      *)
(* nothing, the deltas add up to it, or to more by the special tokens.     *)
StreamedIsText ==
  \A c \in Client :
    LET m == Head(pipe[c]) IN
    HasReply(c) /\ m.type = "final" /\ asked[c].stream /\ c \notin torn /\ said[c][m.rid] # None =>
      /\ Len(parts[c]) >= Len(m.text)
      /\ ~said[c][m.rid].special => parts[c] = m.text

(* A transcript holds the turns that were answered, in order, each with    *)
(* the text the model gave, even where a full pipe tore the stream.        *)
TranscriptIsSaid ==
  \A c \in Client :
    /\ \A i, j \in DOMAIN history[c] : i < j => history[c][i].turn < history[c][j].turn
    /\ \A i \in DOMAIN history[c] :
         LET h == history[c][i] IN said[c][h.turn].text \in {h.text, <<>>}

(* vlm-server.cpp: after a failed send it will "shut down cleanly", since  *)
(* an open frame "would corrupt the next reply": no reply is corrupted.    *)
NoReplyIsCorrupt == \A c \in Client : \A i \in DOMAIN pipe[c] : pipe[c][i].type # "garbled"

(* A signal ends the server once the request at hand is done. *)
SignalEndsIt == shutdown ~> server = "stopped"

(* As long as no signal comes, a turn is answered, and not by a timeout.   *)
TurnsAreAnswered ==
  \A c \in Client : cpc[c] = "waiting" ~> cpc[c] # "waiting" \/ shutdown \/ asked[c].kind = "oversized"
=============================================================================
