---------------------------- MODULE PolicyClient ----------------------------
(***************************************************************************)
(* What a policy client promises whoever drives the robot                  *)
(* (eval/client/vla_cpp_client.py, get_action and reset): each action is a *)
(* row of the chunk predicted from the observation of the call that found  *)
(* the queue empty, in order, each row once, and never from an episode     *)
(* that is over. A call may fail; it then leaves nothing behind.           *)
(***************************************************************************)
EXTENDS Naturals, Sequences

CONSTANTS
  Client,
  Steps    \* n_action_steps

VARIABLES
  episode,   \* the episode of each client
  asking,    \* the observation a call in progress predicts from, or NoObs
  queue,     \* the rows left to give
  acted,     \* the last row given
  asked      \* how many observations were predicted from, by all clients

policyVars == <<episode, asking, queue, acted, asked>>

NoObs == [episode |-> 0, nr |-> 0]

Chunk(o) == [i \in 1 .. Steps |-> [of |-> o, row |-> i]]

Init ==
  /\ episode = [c \in Client |-> 0]
  /\ asking  = [c \in Client |-> NoObs]
  /\ queue   = [c \in Client |-> <<>>]
  /\ acted   = [c \in Client |-> [of |-> NoObs, row |-> 0]]
  /\ asked   = 0

Ask(c) ==
  /\ asking[c] = NoObs /\ queue[c] = <<>>
  /\ asked' = asked + 1
  /\ asking' = [asking EXCEPT ![c] = [episode |-> episode[c], nr |-> asked + 1]]
  /\ UNCHANGED <<episode, queue, acted>>

\* The first row of a sequence is given and the others are kept.
Give(c, rows) ==
  /\ acted' = [acted EXCEPT ![c] = Head(rows)]
  /\ queue' = [queue EXCEPT ![c] = Tail(rows)]

Answered(c) ==
  /\ asking[c] # NoObs
  /\ Give(c, Chunk(asking[c]))
  /\ asking' = [asking EXCEPT ![c] = NoObs]
  /\ UNCHANGED <<episode, asked>>

Failed(c) ==
  /\ asking[c] # NoObs
  /\ asking' = [asking EXCEPT ![c] = NoObs]
  /\ UNCHANGED <<episode, queue, acted, asked>>

Act(c) ==
  /\ asking[c] = NoObs /\ queue[c] # <<>>
  /\ Give(c, queue[c])
  /\ UNCHANGED <<episode, asking, asked>>

Reset(c) ==
  /\ asking[c] = NoObs
  /\ episode' = [episode EXCEPT ![c] = @ + 1]
  /\ queue' = [queue EXCEPT ![c] = <<>>]
  /\ UNCHANGED <<asking, acted, asked>>

Next == \E c \in Client : Ask(c) \/ Answered(c) \/ Failed(c) \/ Act(c) \/ Reset(c)

Spec == Init /\ [][Next]_policyVars
=============================================================================
