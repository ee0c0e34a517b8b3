---------------------------- MODULE BlockingCall ----------------------------
(***************************************************************************)
(* What a caller of libmodbus may rely on, which has one call at a time    *)
(* and nothing on the line to tell replies by: a call ends once, under a   *)
(* result of its own.  As long as a call can be trusted, an answer is the  *)
(* slave's answer to this request, and one that does not fit it is a sign  *)
(* of a disturbed line.                                                    *)
(*                                                                         *)
(* Only a call that fails can take the trust from those that follow.       *)
(***************************************************************************)
CONSTANT Requests

VARIABLES
  calling, request,
  result,        \* of the call, "none" until it ends
  own,           \* the answer taken is the answer to this request
  trusted,       \* no call before this one can disturb it
  disturbed      \* the line was disturbed

vars == <<calling, request, result, own, trusted, disturbed>>

Answers == {"ok", "exception", "refused"}

Init ==
  /\ calling = FALSE /\ request \in Requests
  /\ result = "ok" /\ own = TRUE
  /\ trusted = TRUE /\ disturbed = FALSE

Take(c) ==
  /\ ~calling
  /\ request' = c /\ own' = TRUE
  /\ trusted' \in BOOLEAN
  /\ trusted /\ result \in Answers => trusted'
  /\ disturbed' \in {disturbed, FALSE}

Begin(c) == Take(c) /\ calling' = TRUE /\ result' = "none"

(* The request says what no slave may be asked.                            *)
Refuse(c) == Take(c) /\ UNCHANGED calling /\ result' = "refused"

End(r) ==
  /\ calling
  /\ calling' = FALSE
  /\ result' = r
  /\ own' \in BOOLEAN
  /\ trusted /\ r \in {"ok", "exception"} => own'
  /\ trusted /\ ~disturbed => r # "mismatch"
  /\ UNCHANGED <<request, trusted, disturbed>>

Disturb ==
  /\ disturbed' = TRUE
  /\ UNCHANGED <<calling, request, result, own, trusted>>

Next ==
  \/ \E c \in Requests : Begin(c) \/ Refuse(c)
  \/ \E r \in {"ok", "exception", "mismatch", "failed"} : End(r)
  \/ Disturb

Spec == Init /\ [][Next]_vars
=============================================================================
