-------------------------- MODULE SaslConversation --------------------------
(***************************************************************************)
(* One SASL conversation of ConductSaslConversation (spec.md 4.1; the      *)
(* engine itself is not in this repository) driven by the mechanism       *)
(* clients of this repository: plainSaslClient (plain.go) and oidcOneStep *)
(* (oidc.go).  The server is the environment: each reply is any member of *)
(* Replies, or a transport error.                                          *)
(*                                                                         *)
(* Both clients are one-step: Start produces the only payload, Completed  *)
(* is always true and Next rejects any challenge.  Payloads are sequences *)
(* of characters; a PLAIN credential is a username and a password, an     *)
(* OIDC one is an access token, each a sequence of characters.            *)
(***************************************************************************)
EXTENDS Naturals, Sequences

CONSTANTS
    Usernames,   \* PLAIN usernames (sequences of characters)
    Passwords,   \* PLAIN passwords
    AccessTokens \* OIDC access tokens

(* The byte "\x00"; every other character is a one-character string.     *)
NUL == "<NUL>"

ASSUME CredAssumption ==
    /\ Usernames \subseteq Seq(STRING)
    /\ Passwords \subseteq Seq(STRING)
    /\ AccessTokens \subseteq Seq(STRING)

(* The mechanism clients: Auth of PlainAuthenticator builds a            *)
(* plainSaslClient from the credential, doAuthMachine (and Auth on the   *)
(* cached path) an oidcOneStep around the token.                          *)
Clients ==
    [kind : {"PLAIN"}, username : Usernames, password : Passwords]
    \cup [kind : {"MONGODB-OIDC"}, accessToken : AccessTokens]

(* plainSaslClient.Start: "\x00" + username + "\x00" + password.  A     *)
(* mutant leaves out the leading NUL (the empty authorization id).        *)
PlainStartNoAuthzid(cl) ==
    [mechanism |-> "PLAIN",
     payload |-> cl.username \o <<NUL>> \o cl.password]

PlainStart(cl) ==
    [mechanism |-> "PLAIN",
     payload |-> <<NUL>> \o cl.username \o <<NUL>> \o cl.password]

(* jwtStepRequest and oidcOneStep.Start: the document {jwt: token},       *)
(* abstracted to its one field.                                           *)
JwtStepRequest(token) == [jwt |-> token]

OIDCStart(cl) ==
    [mechanism |-> "MONGODB-OIDC", payload |-> JwtStepRequest(cl.accessToken)]

ClientStart(cl) == IF cl.kind = "PLAIN" THEN PlainStart(cl) ELSE OIDCStart(cl)

(* plainSaslClient.Next and oidcOneStep.Next: any server challenge is an  *)
(* error.  A mutant answers PLAIN's challenge with an empty payload.      *)
PlainNextAccepting(cl, challenge) == [err |-> FALSE, payload |-> <<>>]

PlainNext(cl, challenge) == [err |-> TRUE, payload |-> <<>>]

OIDCNext(cl, challenge) == [err |-> TRUE, payload |-> <<>>]

ClientNext(cl, challenge) ==
    IF cl.kind = "PLAIN" THEN PlainNext(cl, challenge)
                         ELSE OIDCNext(cl, challenge)

(* Completed of both clients is constantly true.                          *)
PlainCompleted(cl) == TRUE

OIDCCompleted(cl) == TRUE

ClientCompleted(cl) ==
    IF cl.kind = "PLAIN" THEN PlainCompleted(cl) ELSE OIDCCompleted(cl)

(* A server reply: the done flag, the error code (0 or 18, "auth          *)
(* failed"), the conversation id and the payload.                         *)
ConvIds == {1, 2}
NoConvId == 0
Replies == [done : BOOLEAN, code : {0, 18}, conversationId : ConvIds,
            payload : {<<>>}]

-----------------------------------------------------------------------------
VARIABLES
    client,   \* the mechanism client of this conversation
    pc,       \* "start", "await" (a request in flight), "done", "reauth"
    sent,     \* the commands sent: saslStart, then saslContinue ones
    convId,   \* the conversation id of the saslStart reply
    replies,  \* the server replies received
    result    \* "pending", "ok" or the error the conversation returned

vars == <<client, pc, sent, convId, replies, result>>

Results == {"pending", "ok", "io_error", "server_error", "protocol_error",
            "client_error", "reauth_unsupported"}

TypeOK ==
    /\ client \in Clients
    /\ pc \in {"start", "await", "done"}
    /\ sent \in Seq([cmd : {"saslStart", "saslContinue"}, mechanism : STRING,
                     db : STRING, conversationId : ConvIds \cup {NoConvId},
                     payload : {ClientStart(cl).payload : cl \in Clients}
                               \cup {<<>>}])
    /\ convId \in ConvIds \cup {NoConvId}
    /\ replies \in Seq(Replies)
    /\ result \in Results

Init ==
    /\ client \in Clients
    /\ pc = "start"
    /\ sent = <<>>
    /\ convId = NoConvId
    /\ replies = <<>>
    /\ result = "pending"

(* ConductSaslConversation(ctx, cfg, "$external", client): the saslStart  *)
(* command carries the mechanism and the first payload.                   *)
StartCommand(cl) ==
    [cmd |-> "saslStart", mechanism |-> ClientStart(cl).mechanism,
     db |-> "$external", conversationId |-> NoConvId,
     payload |-> ClientStart(cl).payload]

Start ==
    /\ pc = "start"
    /\ sent' = <<StartCommand(client)>>
    /\ pc' = "await"
    /\ UNCHANGED <<client, convId, replies, result>>

(* The command fails in transport: the error is returned unchanged.       *)
TransportError ==
    /\ pc = "await"
    /\ pc' = "done"
    /\ result' = "io_error"
    /\ UNCHANGED <<client, sent, convId, replies>>

(* How a reply ends the conversation, in the order the engine checks:    *)
(* an error code, a conversation id other than the established one, done  *)
(* with the client completed (success) or expecting more (protocol        *)
(* desync), an error from the client's Next.                              *)
Outcome(r, cid, nx) ==
    IF r.code # 0 THEN "server_error"
    ELSE IF r.conversationId # cid THEN "protocol_error"
    ELSE IF r.done /\ ClientCompleted(client) THEN "ok"
    ELSE IF r.done THEN "protocol_error"
    ELSE "client_error"

(* A reply arrives.  An error code fails the conversation; a conversation *)
(* id other than the one of the saslStart reply is a protocol error; done *)
(* with the client completed succeeds; done with the client expecting     *)
(* more is a protocol error; otherwise the client's Next answers the       *)
(* challenge and a saslContinue with the conversation id is sent.         *)
Reply ==
    /\ pc = "await"
    /\ \E r \in Replies :
         LET cid == IF convId = NoConvId THEN r.conversationId ELSE convId
             nx  == ClientNext(client, r.payload)
         IN
         /\ replies' = Append(replies, r)
         /\ convId' = cid
         /\ IF r.code # 0 \/ r.conversationId # cid \/ r.done \/ nx.err
            THEN /\ result' = Outcome(r, cid, nx)
                 /\ pc' = "done"
                 /\ UNCHANGED sent
            ELSE /\ sent' = Append(sent, [cmd |-> "saslContinue",
                                         mechanism |-> client.kind,
                                         db |-> "$external",
                                         conversationId |-> cid,
                                         payload |-> nx.payload])
                 /\ UNCHANGED <<result, pc>>
    /\ UNCHANGED client

(* PlainAuthenticator.Reauth on an authenticated connection refuses       *)
(* without sending anything.                                              *)
PlainReauth ==
    /\ pc = "done"
    /\ result = "ok"
    /\ client.kind = "PLAIN"
    /\ result' = "reauth_unsupported"
    /\ UNCHANGED <<client, pc, sent, convId, replies>>

Next == Start \/ TransportError \/ Reply \/ PlainReauth

Spec == Init /\ [][Next]_vars

-----------------------------------------------------------------------------
(***************************************************************************)
(* Properties.                                                             *)
(***************************************************************************)

(* One-step mechanisms (spec.md 4.2, 8.1): whatever the server replies,   *)
(* the conversation sends exactly one command, the saslStart, and it      *)
(* succeeds only when the server's one reply is done without an error.    *)
OneStepExchange ==
    /\ Len(sent) <= 1
    /\ result \in {"ok", "reauth_unsupported"} =>
         /\ Len(replies) = 1
         /\ replies[1].done
         /\ replies[1].code = 0

(* A sequence of characters without a NUL byte.                          *)
NulFree(s) == \A j \in 1..Len(s) : s[j] # NUL

(* The positions of the NUL bytes of a payload.                           *)
Nuls(p) == {j \in 1..Len(p) : p[j] = NUL}

(* Split at its two NUL bytes, p is an empty authorization id, u and w.   *)
SplitsInto(p, u, w) ==
    \E a, b \in Nuls(p) :
        /\ a < b
        /\ Nuls(p) = {a, b}
        /\ SubSeq(p, 1, a - 1) = <<>>
        /\ SubSeq(p, a + 1, b - 1) = u
        /\ SubSeq(p, b + 1, Len(p)) = w

(* The server can take the PLAIN payload apart: split at the NUL bytes,   *)
(* the saslStart payload is the empty authorization id, the username and  *)
(* the password (RFC 4616 message = [authzid] NUL authcid NUL passwd).    *)
(* plainSaslClient.Start does not reject a NUL inside the username or     *)
(* the password, which would split differently, so the property is about *)
(* credentials without one.                                               *)
PlainCredentialRecoverable ==
    \A i \in 1..Len(sent) :
        (/\ sent[i].mechanism = "PLAIN" /\ sent[i].cmd = "saslStart"
         /\ NulFree(client.username) /\ NulFree(client.password)) =>
            SplitsInto(sent[i].payload, client.username, client.password)

(* The server tells PLAIN credentials apart (RFC 4616 forbids NUL in the *)
(* authentication id and the password): the saslStart payload a PLAIN     *)
(* conversation sends is sent by no other PLAIN client.                    *)
(* plainSaslClient.Start concatenates whatever it is given, so a NUL      *)
(* moved from the end of the username to the front of the password gives  *)
(* the same bytes.                                                        *)
PlainPayloadIdentifiesClient ==
    \A i \in 1..Len(sent), cl \in Clients :
        (/\ sent[i].mechanism = "PLAIN" /\ cl.kind = "PLAIN"
         /\ sent[i].payload = PlainStart(cl).payload) => cl = client

-----------------------------------------------------------------------------
(***************************************************************************)
(* Refinement: a conversation with a one-step client is the round trip of *)
(* SaslRoundTrip.  The phase follows pc, the requests are the commands    *)
(* sent, the answer is the first reply, and the verdict is "accepted"     *)
(* exactly when the conversation succeeded (PLAIN's refused Reauth sends  *)
(* nothing and leaves the authenticated connection as it was).            *)
(***************************************************************************)
NoReply == [done |-> FALSE, code |-> 0, conversationId |-> NoConvId,
            payload |-> <<>>]

Phase == IF pc = "start" THEN "idle" ELSE IF pc = "await" THEN "sent" ELSE "done"

Verdict ==
    IF pc # "done" THEN "none"
    ELSE IF result \in {"ok", "reauth_unsupported"} THEN "accepted"
    ELSE "refused"

RT == INSTANCE SaslRoundTrip
        WITH phase <- Phase, requests <- Len(sent),
             reply <- IF replies = <<>> THEN NoReply ELSE replies[1],
             verdict <- Verdict

(* Whatever the server replies, a PLAIN or MONGODB-OIDC conversation is   *)
(* one request and one answer, succeeds exactly when that answer is done  *)
(* with code 0, and does nothing after its verdict: the one-round-trip    *)
(* abstraction OIDCAuthenticator makes of ConductSaslConversation.         *)
SaslRoundTripRefined == RT!Spec

-----------------------------------------------------------------------------
(* The inductive invariant of SaslConversationProofs: the saslStart built *)
(* from the client is the only command ever sent, at most one reply is    *)
(* received, and a success (before or after PLAIN's refused Reauth) rests *)
(* on that one reply.                                                     *)
ConvInv ==
    /\ client \in Clients
    /\ pc \in {"start", "await", "done"}
    /\ replies \in Seq(Replies)
    /\ pc = "start" => sent = <<>> /\ replies = <<>>
    /\ pc # "start" => sent = <<StartCommand(client)>>
    /\ pc = "await" => replies = <<>>
    /\ pc = "done" => Len(replies) <= 1
    /\ result \in {"ok", "reauth_unsupported"} =>
         /\ pc = "done"
         /\ Len(replies) = 1
         /\ replies[1].done = TRUE
         /\ replies[1].code = 0
    /\ pc # "done" => result = "pending" /\ convId = NoConvId

=============================================================================
