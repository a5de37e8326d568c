---------------------------- MODULE SaslRoundTrip ----------------------------
(***************************************************************************)
(* What a one-step SASL mechanism promises (spec.md 4.1, 4.2): a          *)
(* conversation is one round trip.  The client sends one request; the     *)
(* server's one answer accepts it when it is done without an error code   *)
(* and refuses it otherwise, or the transport fails and the conversation  *)
(* is refused without an answer.  Nothing changes after the verdict.      *)
(* This is the view OIDCAuthenticator takes of a conversation: one step   *)
(* whose result is whether the server accepts the token.                  *)
(***************************************************************************)
EXTENDS Naturals

CONSTANTS
    Replies,   \* the server's possible answers
    NoReply    \* no answer received

VARIABLES
    phase,     \* "idle", "sent" (the request is in flight) or "done"
    requests,  \* the requests sent
    reply,     \* the server's answer, NoReply until it arrives
    verdict    \* "none", "accepted" or "refused"

vars == <<phase, requests, reply, verdict>>

Init ==
    /\ phase = "idle"
    /\ requests = 0
    /\ reply = NoReply
    /\ verdict = "none"

(* The client sends its one request.                                      *)
Send ==
    /\ phase = "idle"
    /\ phase' = "sent"
    /\ requests' = requests + 1
    /\ UNCHANGED <<reply, verdict>>

(* The server answers; the answer alone decides the verdict.              *)
Answer ==
    /\ phase = "sent"
    /\ \E r \in Replies :
         /\ reply' = r
         /\ verdict' = IF r.done /\ r.code = 0 THEN "accepted" ELSE "refused"
    /\ phase' = "done"
    /\ UNCHANGED requests

(* The transport fails: refused, with no answer.                          *)
Lose ==
    /\ phase = "sent"
    /\ phase' = "done"
    /\ verdict' = "refused"
    /\ UNCHANGED <<requests, reply>>

Next == Send \/ Answer \/ Lose

Spec == Init /\ [][Next]_vars

=============================================================================
