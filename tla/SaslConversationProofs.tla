----------------------- MODULE SaslConversationProofs -----------------------
(***************************************************************************)
(* For every set of credentials and whatever the server replies: the      *)
(* one-step clients of this repository make a conversation of one round   *)
(* trip.                                                                  *)
(***************************************************************************)
EXTENDS SaslConversation, SequenceTheorems, TLAPS

(* Next of both clients refuses every challenge.                          *)
LEMMA NextRefuses == \A cl \in Clients, ch \in {<<>>} : ClientNext(cl, ch).err
  BY DEF ClientNext, PlainNext, OIDCNext

(* ConvInv holds initially.                                               *)
LEMMA InitConvInv == Init => ConvInv
  BY DEF Init, ConvInv

(* Every step preserves ConvInv.                                          *)
LEMMA NextConvInv == ConvInv /\ [Next]_vars => ConvInv'
  <1> SUFFICES ASSUME ConvInv, [Next]_vars PROVE ConvInv'
    OBVIOUS
  <1>1. CASE Start
    BY <1>1 DEF Start, ConvInv
  <1>2. CASE TransportError
    BY <1>2 DEF TransportError, ConvInv
  <1>3. CASE Reply
    <2>1. PICK r \in Replies :
            LET cid == IF convId = NoConvId THEN r.conversationId ELSE convId
                nx  == ClientNext(client, r.payload)
            IN  /\ replies' = Append(replies, r)
                /\ convId' = cid
                /\ IF r.code # 0 \/ r.conversationId # cid \/ r.done \/ nx.err
                   THEN /\ result' = Outcome(r, cid, nx)
                        /\ pc' = "done"
                        /\ UNCHANGED sent
                   ELSE /\ sent' = Append(sent, [cmd |-> "saslContinue",
                                                mechanism |-> client.kind,
                                                db |-> "$external",
                                                conversationId |-> cid,
                                                payload |-> nx.payload])
                        /\ UNCHANGED <<result, pc>>
      BY <1>3 DEF Reply
    <2> DEFINE cid == IF convId = NoConvId THEN r.conversationId ELSE convId
    <2>2. ClientNext(client, r.payload).err
      BY NextRefuses DEF ConvInv, Replies
    <2>3. /\ result' = Outcome(r, cid, ClientNext(client, r.payload))
          /\ pc' = "done" /\ sent' = sent /\ replies' = <<r>>
      BY <1>3, <2>1, <2>2 DEF Reply, ConvInv
    <2>4. result' \in {"ok", "reauth_unsupported"} => r.done = TRUE /\ r.code = 0
      BY <2>3 DEF Outcome
    <2>5. QED
      BY <1>3, <2>3, <2>4 DEF Reply, ConvInv, Replies
  <1>4. CASE PlainReauth
    BY <1>4 DEF PlainReauth, ConvInv
  <1>5. CASE UNCHANGED vars
    BY <1>5 DEF vars, ConvInv
  <1>6. QED
    BY <1>1, <1>2, <1>3, <1>4, <1>5 DEF Next

(* ConvInv is an invariant of the specification.                          *)
THEOREM ConvInvHolds == Spec => []ConvInv
  BY InitConvInv, NextConvInv, PTL DEF Spec

(* A one-step conversation (PLAIN or MONGODB-OIDC) sends only its         *)
(* saslStart and succeeds only on a done reply without an error code.     *)
THEOREM OneStepExchangeHolds == Spec => []OneStepExchange
  <1>1. ConvInv => OneStepExchange
    <2> SUFFICES ASSUME ConvInv PROVE OneStepExchange
      OBVIOUS
    <2>1. Len(sent) <= 1
      <3>1. CASE pc = "start"
        <4>1. sent = <<>>
          BY <3>1 DEF ConvInv
        <4>2. QED
          BY <4>1
      <3>2. CASE pc # "start"
        <4>1. pc \in {"await", "done"}
          BY <3>2 DEF ConvInv
        <4>2. Len(sent) = 1
          BY <4>1 DEF ConvInv
        <4>3. QED
          BY <4>2
      <3>3. QED
        BY <3>1, <3>2
    <2>2. result \in {"ok", "reauth_unsupported"} =>
            Len(replies) = 1 /\ replies[1].done /\ replies[1].code = 0
      BY Zenon DEF ConvInv
    <2>3. QED
      BY <2>1, <2>2 DEF OneStepExchange
  <1>2. QED
    BY <1>1, ConvInvHolds, PTL

(* The characters of a payload: a NUL byte or any other string.  The     *)
(* provers do not know that the literal NUL is a string, so payloads are  *)
(* reasoned about as sequences over this set.                             *)
Chars == STRING \cup {NUL}

(* The layout of the payload of plainSaslClient.Start: a NUL, the        *)
(* username, a NUL, the password.                                         *)
LEMMA PlainPayloadShape ==
  ASSUME NEW u \in Seq(STRING), NEW w \in Seq(STRING)
  PROVE  LET p == <<NUL>> \o u \o <<NUL>> \o w IN
         /\ Len(p) \in Nat
         /\ Len(p) = Len(u) + Len(w) + 2
         /\ p[1] = NUL
         /\ \A j \in 2..Len(u) + 1 : p[j] = u[j - 1]
         /\ p[Len(u) + 2] = NUL
         /\ \A j \in Len(u) + 3..Len(p) : p[j] = w[j - Len(u) - 2]
  <1> DEFINE s1 == <<NUL>> \o u
             s2 == s1 \o <<NUL>>
             p  == s2 \o w
  <1>1. /\ <<NUL>> \in Seq(Chars)
        /\ u \in Seq(Chars)
        /\ w \in Seq(Chars)
    BY SeqMonotonic DEF Chars
  <1>2. /\ s1 \in Seq(Chars) /\ Len(s1) = 1 + Len(u)
        /\ \A i \in 1..1 + Len(u) : s1[i] = IF i <= 1 THEN NUL ELSE u[i - 1]
    BY <1>1, ConcatProperties
  <1>3. /\ s2 \in Seq(Chars) /\ Len(s2) = Len(u) + 2
        /\ \A i \in 1..Len(u) + 2 :
              s2[i] = IF i <= Len(u) + 1 THEN s1[i] ELSE NUL
    BY <1>1, <1>2, ConcatProperties
  <1>4. /\ Len(p) = Len(u) + 2 + Len(w)
        /\ \A i \in 1..Len(u) + 2 + Len(w) :
              p[i] = IF i <= Len(u) + 2 THEN s2[i] ELSE w[i - Len(u) - 2]
    BY <1>1, <1>3, ConcatProperties
  <1>5. Len(p) \in Nat
    BY <1>4, LenProperties
  <1>6. QED
    BY <1>2, <1>3, <1>4, <1>5

(* Credentials without a NUL byte are recovered from that payload by      *)
(* splitting it at its NUL bytes.                                         *)
LEMMA PlainPayloadSplits ==
  ASSUME NEW u \in Seq(STRING), NEW w \in Seq(STRING), NulFree(u), NulFree(w)
  PROVE  SplitsInto(<<NUL>> \o u \o <<NUL>> \o w, u, w)
  <1> DEFINE p == <<NUL>> \o u \o <<NUL>> \o w
  <1>1. /\ Len(p) = Len(u) + Len(w) + 2
        /\ p[1] = NUL
        /\ \A j \in 2..Len(u) + 1 : p[j] = u[j - 1]
        /\ p[Len(u) + 2] = NUL
        /\ \A j \in Len(u) + 3..Len(p) : p[j] = w[j - Len(u) - 2]
    BY PlainPayloadShape
  <1>2. \A j \in 2..Len(u) + 1 : p[j] # NUL
    <2> SUFFICES ASSUME NEW j \in 2..Len(u) + 1 PROVE p[j] # NUL
      OBVIOUS
    <2>1. j - 1 \in 1..Len(u)
      OBVIOUS
    <2>2. u[j - 1] # NUL
      BY <2>1 DEF NulFree
    <2>3. QED
      BY <1>1, <2>2
  <1>3. \A j \in Len(u) + 3..Len(p) : p[j] # NUL
    <2> SUFFICES ASSUME NEW j \in Len(u) + 3..Len(p) PROVE p[j] # NUL
      OBVIOUS
    <2>1. j - Len(u) - 2 \in 1..Len(w)
      BY <1>1
    <2>2. w[j - Len(u) - 2] # NUL
      BY <2>1 DEF NulFree
    <2>3. QED
      BY <1>1, <2>2
  <1>4. Nuls(p) = {1, Len(u) + 2}
    BY <1>1, <1>2, <1>3 DEF Nuls
  <1>5. /\ SubSeq(p, 1, 0) = <<>>
        /\ SubSeq(p, 2, Len(u) + 1) = u
        /\ SubSeq(p, Len(u) + 3, Len(p)) = w
    BY <1>1
  <1>6. 1 \in Nuls(p) /\ Len(u) + 2 \in Nuls(p) /\ 1 < Len(u) + 2
    BY <1>4
  <1>7. QED
    <2> SUFFICES \E a, b \in Nuls(p) :
                   /\ a < b
                   /\ Nuls(p) = {a, b}
                   /\ SubSeq(p, 1, a - 1) = <<>>
                   /\ SubSeq(p, a + 1, b - 1) = u
                   /\ SubSeq(p, b + 1, Len(p)) = w
      BY DEF SplitsInto
    <2> USE <1>6
    <2> WITNESS 1 \in Nuls(p), Len(u) + 2 \in Nuls(p)
    <2> QED
      BY <1>4, <1>5, <1>6

(* A payload splits into at most one pair of username and password.     *)
LEMMA SplitUnique ==
  ASSUME NEW p, NEW u1, NEW w1, NEW u2, NEW w2, Len(p) \in Nat,
         SplitsInto(p, u1, w1), SplitsInto(p, u2, w2)
  PROVE  u1 = u2 /\ w1 = w2
  <1>1. PICK a1, b1 \in Nuls(p) :
          /\ a1 < b1 /\ Nuls(p) = {a1, b1}
          /\ SubSeq(p, a1 + 1, b1 - 1) = u1
          /\ SubSeq(p, b1 + 1, Len(p)) = w1
    BY DEF SplitsInto
  <1>2. PICK a2, b2 \in Nuls(p) :
          /\ a2 < b2 /\ Nuls(p) = {a2, b2}
          /\ SubSeq(p, a2 + 1, b2 - 1) = u2
          /\ SubSeq(p, b2 + 1, Len(p)) = w2
    BY DEF SplitsInto
  <1>3. {a1, b1, a2, b2} \subseteq Nat
    BY <1>1, <1>2 DEF Nuls
  <1>4. /\ a1 \in {a2, b2} /\ b1 \in {a2, b2}
        /\ a2 \in {a1, b1} /\ b2 \in {a1, b1}
    BY <1>1, <1>2
  <1>5. a1 < b1 /\ a2 < b2
    BY <1>1, <1>2
  <1>6. a1 = a2 /\ b1 = b2
    BY <1>3, <1>4, <1>5
  <1>7. QED
    BY <1>1, <1>2, <1>6

(* Two PLAIN clients whose credentials hold no NUL byte and whose         *)
(* saslStart payloads are equal are the same client: for such credentials *)
(* the payload of plainSaslClient.Start identifies the credential.        *)
THEOREM PlainPayloadInjective ==
  ASSUME NEW c1 \in Clients, NEW c2 \in Clients,
         c1.kind = "PLAIN", c2.kind = "PLAIN",
         NulFree(c1.username), NulFree(c1.password),
         NulFree(c2.username), NulFree(c2.password),
         PlainStart(c1).payload = PlainStart(c2).payload
  PROVE  c1 = c2
  <1>1. /\ c1 \in [kind : {"PLAIN"}, username : Usernames, password : Passwords]
        /\ c2 \in [kind : {"PLAIN"}, username : Usernames, password : Passwords]
    BY DEF Clients
  <1>2. /\ c1.username \in Seq(STRING) /\ c1.password \in Seq(STRING)
        /\ c2.username \in Seq(STRING) /\ c2.password \in Seq(STRING)
    BY <1>1, CredAssumption
  <1>3. SplitsInto(PlainStart(c1).payload, c1.username, c1.password)
    BY <1>2, PlainPayloadSplits DEF PlainStart
  <1>4. SplitsInto(PlainStart(c1).payload, c2.username, c2.password)
    BY <1>2, PlainPayloadSplits DEF PlainStart
  <1>5. Len(PlainStart(c1).payload) \in Nat
    <2>1. Len(<<NUL>> \o c1.username \o <<NUL>> \o c1.password) \in Nat
      BY <1>2, PlainPayloadShape
    <2>2. QED
      BY <2>1 DEF PlainStart
  <1>6. c1.username = c2.username /\ c1.password = c2.password
    BY <1>3, <1>4, <1>5, SplitUnique
  <1>7. QED
    BY <1>1, <1>6

(* The PLAIN saslStart splits back into the client's username and         *)
(* password whenever they hold no NUL byte, for every set of credentials. *)
THEOREM PlainCredentialRecoverableHolds == Spec => []PlainCredentialRecoverable
  <1>1. ConvInv => PlainCredentialRecoverable
    <2> SUFFICES ASSUME ConvInv, NEW i \in 1..Len(sent),
                        sent[i].mechanism = "PLAIN", sent[i].cmd = "saslStart",
                        NulFree(client.username), NulFree(client.password)
                 PROVE  SplitsInto(sent[i].payload, client.username,
                                   client.password)
      BY DEF PlainCredentialRecoverable
    <2>1. sent = <<StartCommand(client)>> /\ i = 1
      BY DEF ConvInv
    <2>2. client.kind = "PLAIN"
      BY <2>1 DEF StartCommand, ClientStart, OIDCStart
    <2>3. client \in [kind : {"PLAIN"}, username : Usernames,
                      password : Passwords]
      BY <2>2 DEF ConvInv, Clients
    <2>4. client.username \in Seq(STRING) /\ client.password \in Seq(STRING)
      BY <2>3, CredAssumption
    <2>5. sent[i].payload =
            <<NUL>> \o client.username \o <<NUL>> \o client.password
      BY <2>1, <2>2 DEF StartCommand, ClientStart, PlainStart
    <2>6. QED
      BY <2>4, <2>5, PlainPayloadSplits
  <1>2. QED
    BY <1>1, ConvInvHolds, PTL
(* The initial conversation is the initial round trip.                   *)
LEMMA InitRefinesRoundTrip == Init => RT!Init
  BY DEF Init, RT!Init, Phase, Verdict

(* Under ConvInv every step of the conversation is a step of the round    *)
(* trip or leaves it unchanged.                                           *)
LEMMA NextRefinesRoundTrip == ConvInv /\ [Next]_vars => [RT!Next]_RT!vars
  <1> SUFFICES ASSUME ConvInv, [Next]_vars PROVE [RT!Next]_RT!vars
    OBVIOUS
  <1>1. CASE Start
    <2>1. /\ pc = "start" /\ pc' = "await"
          /\ sent = <<>> /\ sent' = <<StartCommand(client)>>
          /\ replies = <<>> /\ replies' = <<>>
          /\ result' = result
      BY <1>1 DEF Start, ConvInv
    <2>2. RT!Send
      BY <2>1 DEF RT!Send, Phase, Verdict
    <2>3. QED
      BY <2>2 DEF RT!Next
  <1>2. CASE TransportError
    <2>1. /\ pc = "await" /\ pc' = "done" /\ result' = "io_error"
          /\ sent' = sent /\ replies = <<>> /\ replies' = <<>>
      BY <1>2 DEF TransportError, ConvInv
    <2>2. RT!Lose
      BY <2>1 DEF RT!Lose, Phase, Verdict
    <2>3. QED
      BY <2>2 DEF RT!Next
  <1>3. CASE Reply
    <2>1. PICK r \in Replies :
            LET cid == IF convId = NoConvId THEN r.conversationId ELSE convId
                nx  == ClientNext(client, r.payload)
            IN  /\ replies' = Append(replies, r)
                /\ convId' = cid
                /\ IF r.code # 0 \/ r.conversationId # cid \/ r.done \/ nx.err
                   THEN /\ result' = Outcome(r, cid, nx)
                        /\ pc' = "done"
                        /\ UNCHANGED sent
                   ELSE /\ sent' = Append(sent, [cmd |-> "saslContinue",
                                                mechanism |-> client.kind,
                                                db |-> "$external",
                                                conversationId |-> cid,
                                                payload |-> nx.payload])
                        /\ UNCHANGED <<result, pc>>
      BY <1>3 DEF Reply
    <2>2. /\ pc = "await" /\ convId = NoConvId /\ replies = <<>>
          /\ client \in Clients
      BY <1>3 DEF Reply, ConvInv
    <2>3. ClientNext(client, r.payload).err
      BY <2>2, NextRefuses DEF Replies
    <2>4. /\ result' = Outcome(r, r.conversationId, ClientNext(client, r.payload))
          /\ pc' = "done" /\ sent' = sent /\ replies' = <<r>>
      BY <2>1, <2>2, <2>3
    <2>5. ClientCompleted(client)
      BY DEF ClientCompleted, PlainCompleted, OIDCCompleted
    <2>6. result' \in {"ok", "reauth_unsupported"} <=> (r.done /\ r.code = 0)
      BY <2>4, <2>5 DEF Outcome
    <2>7. RT!Answer
      BY <2>2, <2>4, <2>6 DEF RT!Answer, Phase, Verdict
    <2>8. QED
      BY <2>7 DEF RT!Next
  <1>4. CASE PlainReauth
    <2>1. /\ pc = "done" /\ pc' = "done" /\ result = "ok"
          /\ result' = "reauth_unsupported"
          /\ sent' = sent /\ replies' = replies
      BY <1>4 DEF PlainReauth
    <2>2. UNCHANGED RT!vars
      BY <2>1 DEF RT!vars, Phase, Verdict
    <2>3. QED
      BY <2>2
  <1>5. CASE UNCHANGED vars
    BY <1>5 DEF vars, RT!vars, Phase, Verdict
  <1>6. QED
    BY <1>1, <1>2, <1>3, <1>4, <1>5 DEF Next

(* A conversation with a one-step client implements SaslRoundTrip, for    *)
(* every set of credentials and whatever the server replies.              *)
THEOREM RoundTripRefinement == Spec => SaslRoundTripRefined
  BY InitConvInv, NextConvInv, InitRefinesRoundTrip, NextRefinesRoundTrip,
     PTL DEF Spec, SaslRoundTripRefined, RT!Spec
=============================================================================
