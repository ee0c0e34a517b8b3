---------------------------- MODULE RequestReply ----------------------------
(***************************************************************************)
(* What the request service promises a client that stays connected: one    *)
(* request at a time, never more than one reply to a request, and no reply *)
(* to a request that is no longer pending.                                 *)
(***************************************************************************)
EXTENDS Naturals

CONSTANTS Clients, MaxFrames

VARIABLES asked,    \* requests taken up so far
          pending,  \* the request each client waits for; 0 none
          replies   \* how often each request was replied to

vars == <<asked, pending, replies>>

Init ==
  /\ asked = 0
  /\ pending = [c \in Clients |-> 0]
  /\ replies = [r \in 1..MaxFrames |-> 0]

(* A free client's request is taken up.                                    *)
Ask(c) ==
  /\ pending[c] = 0
  /\ asked' = asked + 1
  /\ pending' = [pending EXCEPT ![c] = asked + 1]
  /\ UNCHANGED replies

(* The pending request gets its only reply and the client is free again.   *)
Answer(c) ==
  /\ pending[c] # 0
  /\ replies[pending[c]] = 0
  /\ replies' = [replies EXCEPT ![pending[c]] = 1]
  /\ pending' = [pending EXCEPT ![c] = 0]
  /\ UNCHANGED asked

(* A frame nobody can decode, or a lost client: the request is dropped.    *)
Drop(c) ==
  /\ pending[c] # 0
  /\ pending' = [pending EXCEPT ![c] = 0]
  /\ UNCHANGED <<asked, replies>>

Next == \E c \in Clients : Ask(c) \/ Answer(c) \/ Drop(c)

Spec == Init /\ [][Next]_vars
=============================================================================
