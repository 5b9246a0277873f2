----------------------------- MODULE ConnProofs -----------------------------
(***************************************************************************)
(* Proofs about Conn: type correctness, the two buffer invariants, and the *)
(* implementation of ResponseStream, for every set of bodies and every     *)
(* number of requests.                                                     *)
(***************************************************************************)
EXTENDS Conn, FiniteSets, FiniteSetTheorems, SequenceTheorems, TLAPS

\* The position just below the oldest buffered response.
Base == lastPos - Len(serverResponses)

Busy == holder # NoHolder

\* The response the client needs next.
Due == [pos |-> clientPos + 1, data |-> log[clientPos + 1]]

\* Every response number is used once, and for a request of its own.
CountInv ==
    /\ IsFiniteSet(inflight)
    /\ Cardinality(inflight) + (IF Busy THEN 1 ELSE 0) + lastPos <= sent
    /\ \A r \in inflight : r.id <= sent
    /\ Busy => holder.req.id <= sent

\* The buffer is the tail of the log, with consecutive positions.
BufferInv ==
    /\ lastPos = Len(log)
    /\ Base >= 0
    /\ \A i \in 1..Len(serverResponses) :
         /\ serverResponses[i].pos = Base + i
         /\ serverResponses[i].data = log[Base + i]

\* The client's position is inside the buffer, and it has seen the log up to it.
ClientInv ==
    /\ Base <= clientPos
    /\ clientPos <= lastPos
    /\ clientPos > 0 => Base < clientPos
    /\ Len(seen) = clientPos
    /\ \A i \in 1..clientPos : seen[i] = log[i]

\* No request is ahead of the client; the awaited one is level with it.
RequestInv ==
    /\ \A r \in inflight : /\ r.pos <= clientPos
                           /\ r.id = awaiting => r.pos = clientPos
    /\ Busy => /\ holder.req.pos <= clientPos
               /\ holder.req.id = awaiting => holder.req.pos = clientPos

\* A request without a position is the only one there ever was.
FirstInv ==
    /\ \A r \in inflight : r.pos = 0 => lastPos = 0 /\ ~Busy /\ inflight = {r}
    /\ Busy /\ holder.req.pos = 0 => lastPos = 0 /\ inflight = {}

\* The last request processed produced the newest response of the log.
LastInv ==
    /\ lastClientRequest.pos = 0 \/ lastClientRequest.pos < lastPos
    /\ lastPos > 0 => lastClientRequest.body = log[lastPos]

\* What the running handler remembers of the buffer.
HolderInv ==
    Busy => /\ holder.req.id = awaiting
                 => holder.next = IF clientPos < lastPos THEN Due ELSE NoResponse
            /\ clientPos < lastPos => log[lastPos] # holder.req.body

ReplyInv ==
    reply # NoReply /\ reply.kind = "response"
        => clientPos < lastPos /\ reply.response = Due

IInv == /\ TypeOK /\ CountInv /\ BufferInv /\ ClientInv
        /\ RequestInv /\ FirstInv /\ LastInv /\ HolderInv /\ ReplyInv

-----------------------------------------------------------------------------
(* The loops over the buffer, in closed form.                              *)

\* The purge loop deletes the responses below pos: with consecutive positions
\* their number is a difference.
LEMMA AckedBelowValue ==
    ASSUME TypeOK, BufferInv, NEW pos \in 0..lastPos
    PROVE  AckedBelow(pos) = IF pos > Base THEN pos - 1 - Base ELSE 0
<1> DEFINE n == Len(serverResponses)
           P(d) == /\ d = 0 \/ serverResponses[d].pos < pos
                   /\ \A i \in (d + 1)..n : serverResponses[i].pos >= pos
           v == IF pos > Base THEN pos - 1 - Base ELSE 0
<1>1. n \in Nat /\ lastPos \in Nat /\ pos \in Nat /\ Base \in Int /\ Base >= 0
      /\ n = lastPos - Base
  BY DEF TypeOK, BufferInv, Base
<1>2. \A i \in 1..n : serverResponses[i].pos = Base + i
  BY DEF BufferInv
<1>3. v \in 0..n /\ P(v)
  BY <1>1, <1>2
<1>4. AckedBelow(pos) \in 0..n /\ P(AckedBelow(pos))
  <2> HIDE DEF v
  <2> QED BY <1>3 DEF AckedBelow
<1>5. ASSUME NEW d \in 0..n, P(d) PROVE d = v
  <2>1. d > 0 => Base + d < pos
    BY <1>1, <1>2, <1>5
  <2>2. d < v => Base + v >= pos
    BY <1>1, <1>2, <1>3, <1>5
  <2> QED BY <1>1, <2>1, <2>2
<1> QED BY <1>4, <1>5

\* The same for the index at which the purge loop breaks.
LEMMA FirstUnACKedValue ==
    ASSUME TypeOK, BufferInv, NEW pos \in 0..lastPos
    PROVE  FirstUnACKed(pos) = IF pos > Base THEN pos - Base + 1 ELSE 1
<1> DEFINE n == Len(serverResponses)
           P(i) == /\ \A j \in 1..(i - 1) : serverResponses[j].pos <= pos
                   /\ i <= n => serverResponses[i].pos > pos
           v == IF pos > Base THEN pos - Base + 1 ELSE 1
<1>1. n \in Nat /\ lastPos \in Nat /\ pos \in Nat /\ Base \in Int /\ Base >= 0
      /\ n = lastPos - Base
  BY DEF TypeOK, BufferInv, Base
<1>2. \A i \in 1..n : serverResponses[i].pos = Base + i
  BY DEF BufferInv
<1>3. v \in 1..(n + 1) /\ P(v)
  BY <1>1, <1>2
<1>4. FirstUnACKed(pos) \in 1..(n + 1) /\ P(FirstUnACKed(pos))
  <2> HIDE DEF v
  <2> QED BY <1>3, ZenonT(30) DEF FirstUnACKed
<1>5. ASSUME NEW i \in 1..(n + 1), P(i) PROVE i = v
  <2>1. i <= n => Base + i > pos
    BY <1>1, <1>2, <1>5
  <2>2. i > v => Base + v <= pos
    BY <1>1, <1>2, <1>3, <1>5
  <2> QED BY <1>1, <2>1, <2>2
<1> QED BY <1>4, <1>5

\* What OnIncomingRequest finds for a position: nothing when the client has
\* acknowledged everything, else a buffered response, and the very next one
\* when the position has not been purged.
LEMMA NextUnACKedValue ==
    ASSUME TypeOK, BufferInv, ClientInv, NEW pos \in 0..lastPos
    PROVE  /\ pos = lastPos => nextUnACKedResponse(pos) = NoResponse
           /\ pos < lastPos => /\ nextUnACKedResponse(pos) \in Response
                               /\ nextUnACKedResponse(pos) # NoResponse
           /\ pos < lastPos /\ pos >= Base
                 => nextUnACKedResponse(pos) = [pos |-> pos + 1, data |-> log[pos + 1]]
<1> DEFINE n == Len(serverResponses)
           f == FirstUnACKed(pos)
<1>1. n \in Nat /\ lastPos \in Nat /\ clientPos \in Nat /\ pos \in Nat
      /\ Base \in Int /\ Base >= 0 /\ n = lastPos - Base
  BY DEF TypeOK, BufferInv, Base
<1>2. f = IF pos > Base THEN pos - Base + 1 ELSE 1
  BY FirstUnACKedValue
<1>3. pos = lastPos => nextUnACKedResponse(pos) = NoResponse
  <2> HAVE pos = lastPos
  <2>1. f = n + 1
    BY <1>1, <1>2 DEF ClientInv
  <2> QED BY <1>1, <2>1 DEF nextUnACKedResponse
<1>4. ASSUME pos < lastPos
      PROVE  f \in 1..n /\ nextUnACKedResponse(pos) = serverResponses[f]
  BY <1>1, <1>2, <1>4 DEF nextUnACKedResponse, ClientInv
<1>5. ASSUME pos < lastPos
      PROVE  nextUnACKedResponse(pos) \in Response /\ nextUnACKedResponse(pos) # NoResponse
  <2>1. serverResponses[f] \in Response
    BY <1>4, <1>5 DEF TypeOK
  <2> QED BY <1>4, <1>5, <2>1 DEF Response, NoResponse
<1>6. ASSUME pos < lastPos, pos >= Base
      PROVE  nextUnACKedResponse(pos) = [pos |-> pos + 1, data |-> log[pos + 1]]
  <2>1. Base + f = pos + 1
    BY <1>1, <1>2, <1>6
  <2>2. serverResponses[f].pos = pos + 1 /\ serverResponses[f].data = log[pos + 1]
    BY <1>4, <1>6, <2>1 DEF BufferInv
  <2>3. serverResponses[f] = [pos |-> pos + 1, data |-> log[pos + 1]]
    BY <1>4, <1>5, <1>6, <2>2 DEF Response
  <2> QED BY <1>4, <1>6, <2>3
<1> QED BY <1>3, <1>5, <1>6

-----------------------------------------------------------------------------
(* The inductive invariant.                                                *)

\* TypeOK in three parts, for the leaves of the proofs below.
HolderTypeOK ==
    holder \in {NoHolder} \cup [busy : {TRUE}, req : Request,
                                 next : Response \cup {NoResponse}]

ReplyTypeOK ==
    reply \in {NoReply} \cup [kind : {"nil", "expired", "error"}]
               \cup [kind : {"response"}, response : Response]

RestTypeOK ==
    /\ lastClientRequest \in [pos : 0..MaxRequests, body : Body \cup {NoBody}]
    /\ serverResponses \in Seq(Response)
    /\ lastPos \in 0..sent
    /\ inflight \subseteq Request
    /\ clientPos \in 0..MaxRequests
    /\ awaiting \in 0..sent
    /\ sent \in 0..MaxRequests
    /\ log \in Seq(Body)
    /\ seen \in Seq(Body)

\* TypeOK in three parts, because each action disturbs only one or two of them.
LEMMA TypeParts == TypeOK <=> HolderTypeOK /\ ReplyTypeOK /\ RestTypeOK
BY ZenonT(30) DEF TypeOK, HolderTypeOK, ReplyTypeOK, RestTypeOK

\* The same for the next state.
LEMMA TypePartsPrime == TypeOK' <=> HolderTypeOK' /\ ReplyTypeOK' /\ RestTypeOK'
BY TypeParts, PTL

\* A running handler has a request and what it found in the buffer.
LEMMA HolderType ==
    ASSUME TypeOK, Busy
    PROVE  /\ holder.req \in Request
           /\ holder.next \in Response \cup {NoResponse}
BY ZenonT(30) DEF TypeOK, Busy

\* A new Conn, before its first request, satisfies the inductive invariant.
LEMMA InitIInv == Init => IInv
<1> SUFFICES ASSUME Init PROVE IInv
  OBVIOUS
<1> USE ConnAssumption DEF Init
<1>1. TypeOK
  BY DEF TypeOK
<1>2. CountInv
  BY FS_EmptySet DEF CountInv, Busy
<1>3. BufferInv /\ ClientInv
  BY DEF BufferInv, ClientInv, Base
<1>4. RequestInv /\ FirstInv /\ LastInv /\ HolderInv /\ ReplyInv
  BY DEF RequestInv, FirstInv, LastInv, HolderInv, ReplyInv, Busy, NoReply
<1> QED BY <1>1, <1>2, <1>3, <1>4 DEF IInv

\* Sending a request keeps the invariant: the new request carries the position
\* the client received last.
LEMMA ClientSendsIInv ==
    ASSUME IInv, NEW b \in Body, ClientSends(b) PROVE IInv'
<1> DEFINE new == [id |-> sent + 1, pos |-> clientPos, body |-> b]
<1> USE ConnAssumption DEF IInv
<1>0. sent \in Nat /\ sent < MaxRequests /\ clientPos \in 0..MaxRequests
      /\ inflight' = inflight \cup {new} /\ sent' = sent + 1 /\ awaiting' = sent + 1
      /\ UNCHANGED <<connVars, clientPos, reply, log, seen>>
      /\ awaiting = 0 /\ (sent = 0 \/ clientPos > 0)
  BY DEF ClientSends, TypeOK
<1>1. new \in Request /\ new \notin inflight
  BY <1>0 DEF CountInv, Request
<1>2. TypeOK'
  <2>1. HolderTypeOK' /\ ReplyTypeOK'
    BY <1>0, TypeParts, ZenonT(30) DEF HolderTypeOK, ReplyTypeOK, Request, Response,
       NoResponse, NoHolder, NoReply, connVars
  <2>2. RestTypeOK'
    BY <1>0, <1>1, TypeParts DEF RestTypeOK, Request, Response, connVars
  <2> QED BY <2>1, <2>2, TypePartsPrime
<1>3. CountInv'
  <2>1. IsFiniteSet(inflight') /\ Cardinality(inflight') = Cardinality(inflight) + 1
    BY <1>0, <1>1, FS_AddElement DEF CountInv
  <2>2. Cardinality(inflight) \in Nat /\ lastPos \in Nat
    BY FS_CardinalityType DEF CountInv, TypeOK
  <2>3. Busy' <=> Busy
    BY <1>0 DEF Busy, connVars
  <2>4. \A r \in inflight' : r.id <= sent'
    BY <1>0 DEF CountInv, TypeOK, Request
  <2>5. Busy' => holder'.req.id <= sent'
    BY <1>0, <2>3, HolderType DEF CountInv, Request, connVars
  <2> QED BY <1>0, <2>1, <2>2, <2>3, <2>4, <2>5 DEF CountInv, connVars
<1>4. BufferInv' /\ ClientInv' /\ LastInv' /\ ReplyInv'
  BY <1>0 DEF BufferInv, ClientInv, LastInv, ReplyInv, Due, Base, connVars
<1>5. RequestInv'
  BY <1>0 DEF RequestInv, CountInv, TypeOK, Request, Busy, connVars
<1>6. FirstInv'
  <2>1. \A r \in inflight : r.pos # 0 \/ lastPos = 0
    BY DEF FirstInv
  <2>2. CASE sent = 0
    <3>1. inflight = {} /\ ~Busy /\ lastPos = 0
      BY <2>2, FS_CardinalityType, FS_EmptySet DEF CountInv, TypeOK, Request
    <3> QED BY <1>0, <3>1 DEF FirstInv, Busy, connVars
  <2>3. CASE clientPos > 0
    <3>1. lastPos > 0
      BY <2>3, <1>0 DEF ClientInv, TypeOK
    <3>2. \A r \in inflight' : r.pos # 0
      BY <1>0, <2>3, <3>1, <2>1
    <3> QED BY <1>0, <2>3, <3>1, <3>2 DEF FirstInv, Busy, connVars
  <2> QED BY <1>0, <2>2, <2>3
<1>7. HolderInv'
  <2>1. Busy => holder.req.id # sent + 1
    BY <1>0, HolderType DEF CountInv, Request
  <2> QED BY <1>0, <2>1 DEF HolderInv, Busy, connVars, Due
<1> QED BY <1>2, <1>3, <1>4, <1>5, <1>6, <1>7 DEF IInv

\* The client stops waiting, for want of patience or because of an error.
LEMMA NotAwaitingIInv ==
    ASSUME IInv, awaiting' = 0, reply' = NoReply,
           UNCHANGED <<connVars, clientPos, sent, seen, inflight, log>>
    PROVE  IInv'
<1> USE DEF IInv
<1>0. awaiting' = 0 /\ reply' = NoReply
      /\ UNCHANGED <<connVars, clientPos, sent, seen, inflight, log>>
  OBVIOUS
<1>1. TypeOK'
  <2>1. HolderTypeOK' /\ ReplyTypeOK'
    BY <1>0, TypeParts, ZenonT(30) DEF HolderTypeOK, ReplyTypeOK, Request, Response,
       NoResponse, NoHolder, NoReply, connVars
  <2>2. RestTypeOK'
    BY <1>0, TypeParts DEF RestTypeOK, Request, Response, connVars
  <2> QED BY <2>1, <2>2, TypePartsPrime
<1>2. CountInv' /\ BufferInv' /\ ClientInv' /\ FirstInv' /\ LastInv' /\ ReplyInv'
  BY <1>0 DEF CountInv, BufferInv, ClientInv, FirstInv, LastInv, ReplyInv, Base,
     Busy, connVars
<1>3. RequestInv'
  <2>1. \A r \in inflight : r.id # 0
    BY DEF TypeOK, Request
  <2>2. Busy => holder.req.id # 0
    BY HolderType DEF Request
  <2> QED BY <1>0, <2>1, <2>2 DEF RequestInv, Busy, NoHolder, connVars
<1>4. HolderInv'
  BY <1>0, HolderType DEF HolderInv, Request, Busy, NoHolder, connVars
<1> QED BY <1>1, <1>2, <1>3, <1>4 DEF IInv

\* Receiving an answer keeps the invariant: the response the client moves to is
\* one the Conn still buffers.
LEMMA ClientReceivesIInv == ASSUME IInv, ClientReceives PROVE IInv'
<1> USE DEF IInv
<1>0. reply # NoReply /\ awaiting' = 0 /\ reply' = NoReply
      /\ UNCHANGED <<connVars, sent, inflight, log>>
  BY DEF ClientReceives
<1>1. CASE reply.kind = "response"
  <2>1. clientPos < lastPos /\ reply.response = Due
    BY <1>0, <1>1 DEF ReplyInv
  <2>2. clientPos' = clientPos + 1 /\ seen' = Append(seen, log[clientPos + 1])
    BY <1>1, <2>1 DEF ClientReceives, Due
  <2>3. lastPos \in Nat /\ clientPos \in Nat /\ Len(log) = lastPos
        /\ log \in Seq(Body) /\ seen \in Seq(Body) /\ Base \in Int
    BY DEF TypeOK, BufferInv, Base
  <2>4. log[clientPos + 1] \in Body
    BY <2>1, <2>3
  <2>5. TypeOK'
    <3>1. HolderTypeOK' /\ ReplyTypeOK'
      BY <1>0, TypeParts, ZenonT(30) DEF HolderTypeOK, ReplyTypeOK, Request, Response,
         NoResponse, NoHolder, NoReply, connVars
    <3>2. RestTypeOK'
      <4>1. seen' \in Seq(Body)
        BY <2>2, <2>3, <2>4, AppendProperties
      <4>2. clientPos' \in 0..MaxRequests
        BY <2>1, <2>2, <2>3, ConnAssumption DEF TypeOK
      <4> QED BY <1>0, <4>1, <4>2, TypeParts
              DEF RestTypeOK, Request, Response, connVars
    <3> QED BY <3>1, <3>2, TypePartsPrime
  <2>6. CountInv' /\ BufferInv' /\ FirstInv' /\ LastInv'
    BY <1>0 DEF CountInv, BufferInv, FirstInv, LastInv, Base, Busy, NoHolder, connVars
  <2>7. ClientInv'
    <3>1. Len(seen') = clientPos' /\ \A i \in 1..clientPos' : seen'[i] = log[i]
      BY <2>2, <2>3, <2>4 DEF ClientInv
    <3>2. Base' = Base
      BY <1>0 DEF Base, connVars
    <3> QED BY <1>0, <2>1, <2>2, <2>3, <3>1, <3>2 DEF ClientInv, connVars
  <2>8. RequestInv'
    <3>1. \A r \in inflight : r.id # 0 /\ r.pos \in Nat
      BY DEF TypeOK, Request
    <3>2. Busy => holder.req.id # 0 /\ holder.req.pos \in Nat
      BY HolderType DEF Request
    <3> QED BY <1>0, <2>2, <2>3, <3>1, <3>2 DEF RequestInv, Busy, NoHolder, connVars
  <2>9. HolderInv'
    <3>1. Busy => holder.req.id # 0
      BY HolderType DEF Request
    <3> QED BY <1>0, <2>2, <2>3, <3>1 DEF HolderInv, Busy, NoHolder, connVars
  <2>10. ReplyInv'
    BY <1>0 DEF ReplyInv, NoReply
  <2> QED BY <2>5, <2>6, <2>7, <2>8, <2>9, <2>10 DEF IInv
<1>2. CASE reply.kind # "response"
  <2>1. UNCHANGED <<connVars, clientPos, sent, seen, inflight, log>>
    BY <1>0, <1>2 DEF ClientReceives
  <2> HIDE DEF IInv
  <2> QED BY <1>0, <2>1, NotAwaitingIInv
<1> QED BY <1>1, <1>2

\* Purging what a request that is not ahead of the client has acknowledged
\* keeps the buffer a tail of the log that contains the client's position.
LEMMA PurgeInv ==
    ASSUME TypeOK, BufferInv, ClientInv, NEW pos \in 0..clientPos,
           serverResponses' = SubSeq(serverResponses, AckedBelow(pos) + 1,
                                     Len(serverResponses)),
           UNCHANGED <<lastPos, log, clientPos, seen>>
    PROVE  serverResponses' \in Seq(Response) /\ BufferInv' /\ ClientInv'
<1> DEFINE n == Len(serverResponses)
           d == AckedBelow(pos)
<1>1. n \in Nat /\ lastPos \in Nat /\ clientPos \in Nat /\ pos \in Nat
      /\ Base \in Int /\ Base >= 0 /\ n = lastPos - Base
      /\ clientPos <= lastPos /\ Base <= clientPos
      /\ (clientPos > 0 => Base < clientPos)
  BY DEF TypeOK, BufferInv, ClientInv, Base
<1>2. d = IF pos > Base THEN pos - 1 - Base ELSE 0
  BY <1>1, AckedBelowValue
<1>3. d \in 0..n
  BY <1>1, <1>2
<1>4. /\ serverResponses' \in Seq(Response)
      /\ Len(serverResponses') = n - d
      /\ \A i \in 1..(n - d) : serverResponses'[i] = serverResponses[d + i]
  <2>1. \A i \in (d + 1)..n : serverResponses[i] \in Response
    BY <1>1, <1>3, SMTT(30) DEF TypeOK
  <2>2. d + 1 \in Int /\ n \in Int
    BY <1>1, <1>3
  <2>3. /\ serverResponses' \in Seq(Response)
        /\ Len(serverResponses') = IF d + 1 <= n THEN n - (d + 1) + 1 ELSE 0
        /\ \A i \in 1..(n - (d + 1) + 1) :
              serverResponses'[i] = serverResponses[(d + 1) + i - 1]
    BY <2>1, <2>2, SubSeqProperties
  <2> QED BY <1>1, <1>3, <2>3, SMTT(30)
<1>5. Base' = Base + d
  BY <1>1, <1>3, <1>4, SMTT(30) DEF Base
<1>6. BufferInv'
  <2>1. ASSUME NEW i \in 1..Len(serverResponses')
        PROVE  /\ serverResponses'[i].pos = Base' + i
               /\ serverResponses'[i].data = log'[Base' + i]
    <3>1. i \in 1..(n - d)
      BY <1>4
    <3>2. d + i \in 1..n
      <4> HIDE DEF d, n
      <4> QED BY <1>1, <1>3, <3>1
    <3>3. serverResponses'[i] = serverResponses[d + i]
      BY <1>4, <3>1
    <3>4. Base' + i = Base + (d + i)
      BY <1>1, <1>3, <1>5
    <3> QED BY <3>2, <3>3, <3>4, ZenonT(30) DEF BufferInv
  <2>2. lastPos' = Len(log') /\ Base' >= 0
    BY <1>1, <1>3, <1>5 DEF BufferInv
  <2> QED BY <2>1, <2>2, ZenonT(30) DEF BufferInv
<1>7. ClientInv'
  <2>1. Base' <= clientPos /\ (clientPos > 0 => Base' < clientPos)
    BY <1>1, <1>2, <1>5
  <2> QED BY <2>1 DEF ClientInv
<1> QED BY <1>4, <1>6, <1>7

\* A request is read and purges the buffer, and the answer it gets, if the
\* client awaits it, is the response that is due or no response at all.
LEMMA AnsweredIInv ==
    ASSUME IInv, NEW r \in inflight, NEW a, Answer(r, a),
           a \in [kind : {"nil", "expired", "error"}] \cup
                 [kind : {"response"}, response : Response],
           r.id = awaiting /\ a.kind = "response"
             => clientPos < lastPos /\ a.response = Due,
           inflight' = inflight \ {r},
           ~Busy,
           serverResponses' \in Seq(Response), BufferInv', ClientInv',
           UNCHANGED <<lastClientRequest, lastPos, holder, clientVars, log>>
    PROVE  IInv'
<1> USE DEF IInv
<1>0. UNCHANGED <<clientPos, awaiting, sent, seen>> /\ ~Busy'
  BY DEF clientVars, Busy, NoHolder
<1>1. TypeOK'
  <2>1. HolderTypeOK'
    BY TypeParts, ZenonT(30) DEF HolderTypeOK, Request, Response, NoResponse, NoHolder
  <2>2. ReplyTypeOK'
    BY TypeParts DEF ReplyTypeOK, Answer, Response, NoReply
  <2>3. RestTypeOK'
    BY <1>0, TypeParts DEF RestTypeOK, Request, Response
  <2> QED BY <2>1, <2>2, <2>3, TypePartsPrime
<1>2. CountInv'
  <2>1. IsFiniteSet(inflight') /\ Cardinality(inflight') = Cardinality(inflight) - 1
    BY FS_RemoveElement DEF CountInv
  <2>2. Cardinality(inflight) \in Nat /\ lastPos \in Nat /\ sent \in Nat
    BY FS_CardinalityType DEF CountInv, TypeOK
  <2> QED BY <1>0, <2>1, <2>2 DEF CountInv
<1>3. RequestInv' /\ LastInv' /\ HolderInv'
  BY <1>0 DEF RequestInv, LastInv, HolderInv
<1>4. FirstInv'
  BY <1>0 DEF FirstInv
<1>5. ReplyInv'
  <2>1. Due' = Due
    BY <1>0 DEF Due
  <2>2. CASE r.id = awaiting
    BY <1>0, <2>1, <2>2 DEF ReplyInv, Answer, NoReply
  <2>3. CASE r.id # awaiting
    BY <1>0, <2>1, <2>3 DEF ReplyInv, Answer, NoReply
  <2> QED BY <2>2, <2>3
<1> QED BY <1>1, <1>2, <1>3, <1>4, <1>5 DEF IInv

\* OnIncomingRequest keeps the invariant up to the call of its handler: the purge
\* removes nothing the client may still name.
LEMMA OnIncomingRequestIInv ==
    ASSUME IInv, NEW r \in inflight, OnIncomingRequest(r) PROVE IInv'
<1> DEFINE next == nextUnACKedResponse(r.pos)
<1> USE DEF IInv
<1>0. ~Busy /\ inflight' = inflight \ {r}
      /\ UNCHANGED <<lastClientRequest, lastPos, clientVars, log>>
  BY DEF OnIncomingRequest, Busy
<1>1. r \in Request /\ r.pos \in Nat /\ clientPos \in Nat /\ lastPos \in Nat
      /\ r.pos <= clientPos /\ clientPos <= lastPos
      /\ (r.id = awaiting => r.pos = clientPos)
  BY DEF TypeOK, Request, RequestInv, ClientInv
<1>2. /\ r.pos = lastPos => next = NoResponse
      /\ r.pos < lastPos => next \in Response /\ next # NoResponse
      /\ r.id = awaiting /\ clientPos < lastPos => next = Due
  <2>1. r.pos \in 0..lastPos
    BY <1>1
  <2>2. r.id = awaiting => r.pos >= Base
    BY <1>1 DEF ClientInv
  <2> QED BY <1>1, <2>1, <2>2, NextUnACKedValue DEF Due
<1>3. CASE r.pos # 0 /\ ~IsRetransmit(r) /\ ~isOutstanding(r.pos)
  <2>1. Answer(r, [kind |-> "expired"]) /\ UNCHANGED <<serverResponses, holder>>
    BY <1>3 DEF OnIncomingRequest
  <2>2. BufferInv' /\ ClientInv' /\ serverResponses' \in Seq(Response)
    BY <1>0, <2>1 DEF BufferInv, ClientInv, Base, clientVars, TypeOK, Response
  <2> HIDE DEF IInv
  <2> QED BY <1>0, <2>1, <2>2, AnsweredIInv
<1>4. CASE ~(r.pos # 0 /\ ~IsRetransmit(r) /\ ~isOutstanding(r.pos))
  <2>1. serverResponses' = SubSeq(serverResponses, AckedBelow(r.pos) + 1,
                                  Len(serverResponses))
    BY <1>4 DEF OnIncomingRequest
  <2>2. serverResponses' \in Seq(Response) /\ BufferInv' /\ ClientInv'
    <3>1. r.pos \in 0..clientPos
      BY <1>1
    <3> QED BY <1>0, <2>1, <3>1, PurgeInv, ZenonT(30) DEF clientVars
  <2>3. CASE IsSameRequest(r) /\ (IsRetransmit(r) \/ next # NoResponse)
    <3>1. Answer(r, Respond(next)) /\ UNCHANGED holder
      BY <1>4, <2>3 DEF OnIncomingRequest
    <3>2. /\ Respond(next) \in [kind : {"nil", "expired", "error"}] \cup
                               [kind : {"response"}, response : Response]
          /\ r.id = awaiting /\ Respond(next).kind = "response"
               => clientPos < lastPos /\ Respond(next).response = Due
      <4>1. CASE r.pos = lastPos
        BY <1>2, <4>1 DEF Respond
      <4>2. CASE r.pos < lastPos
        BY <1>1, <1>2, <4>2 DEF Respond
      <4> QED BY <1>1, <4>1, <4>2
    <3> HIDE DEF IInv
    <3> QED BY <1>0, <2>2, <3>1, <3>2, AnsweredIInv
  <2>4. CASE ~(IsSameRequest(r) /\ (IsRetransmit(r) \/ next # NoResponse))
    <3>1. holder' = [busy |-> TRUE, req |-> r, next |-> next] /\ UNCHANGED reply
      BY <1>4, <2>4 DEF OnIncomingRequest
    <3>2. Busy' /\ holder'.req = r /\ holder'.next = next
      BY <3>1 DEF Busy, NoHolder
    <3>3. UNCHANGED <<clientPos, awaiting, sent, seen>>
      BY <1>0 DEF clientVars
    <3>4. TypeOK'
      <4>1. HolderTypeOK'
        <5>1. r \in Request /\ next \in Response \cup {NoResponse}
          BY <1>1, <1>2
        <5> HIDE DEF next, IInv
        <5> QED BY <3>1, <5>1, SMTT(30)
                DEF HolderTypeOK, Request, Response, NoResponse, NoHolder
      <4>2. ReplyTypeOK'
        BY <3>1, TypeParts DEF ReplyTypeOK, Response, NoReply
      <4>3. RestTypeOK'
        BY <1>0, <2>2, <3>3, TypeParts DEF RestTypeOK, Request, Response
      <4> QED BY <4>1, <4>2, <4>3, TypePartsPrime
    <3>5. CountInv'
      <4>1. IsFiniteSet(inflight') /\ Cardinality(inflight') = Cardinality(inflight) - 1
        BY <1>0, FS_RemoveElement DEF CountInv
      <4>2. Cardinality(inflight) \in Nat /\ lastPos \in Nat /\ sent \in Nat
        BY FS_CardinalityType DEF CountInv, TypeOK
      <4> QED BY <1>0, <3>2, <3>3, <4>1, <4>2 DEF CountInv
    <3>6. RequestInv' /\ LastInv'
      BY <1>0, <1>1, <3>2, <3>3 DEF RequestInv, LastInv
    <3>7. FirstInv'
      BY <1>0, <3>2, <3>3 DEF FirstInv
    <3>8. HolderInv'
      <4>1. r.id = awaiting => next = IF clientPos < lastPos THEN Due ELSE NoResponse
        BY <1>1, <1>2
      <4>2. ASSUME clientPos < lastPos PROVE log[lastPos] # r.body
        <5>1. ~IsSameRequest(r)
          BY <1>1, <1>2, <2>4, <4>2
        <5>2. r.pos # 0
          BY <1>1, <4>2 DEF FirstInv
        <5> QED BY <1>1, <4>2, <5>1, <5>2 DEF IsSameRequest, LastInv
      <4> QED BY <1>0, <3>2, <3>3, <4>1, <4>2 DEF HolderInv, Due, NoResponse
    <3>9. ReplyInv'
      BY <1>0, <3>1, <3>3 DEF ReplyInv, NoReply, Due
    <3> QED BY <2>2, <3>4, <3>5, <3>6, <3>7, <3>8, <3>9 DEF IInv
  <2> QED BY <2>3, <2>4
<1> QED BY <1>3, <1>4

\* Buffering and numbering the response of a handler keeps the invariant.
LEMMA HandlerReturnsIInv == ASSUME IInv, HandlerReturns PROVE IInv'
<1> DEFINE req == holder.req
           resp == [pos |-> lastPos + 1, data |-> req.body]
           a == Respond(OldestOf(holder.next, resp))
<1> USE DEF IInv
<1>0. /\ Busy /\ ~Busy'
      /\ lastClientRequest' = [pos |-> req.pos, body |-> req.body]
      /\ serverResponses' = Append(serverResponses, resp)
      /\ lastPos' = lastPos + 1
      /\ Answer(req, a)
      /\ log' = Append(log, req.body)
      /\ holder' = NoHolder
      /\ UNCHANGED <<clientPos, awaiting, sent, seen, inflight>>
  BY DEF HandlerReturns, Busy, NoHolder, nextPos, clientVars
<1>1. /\ req \in Request /\ req.pos \in Nat /\ req.body \in Body
      /\ holder.next \in Response \cup {NoResponse}
      /\ lastPos \in Nat /\ clientPos \in Nat /\ sent \in 0..MaxRequests
      /\ req.pos <= clientPos /\ clientPos <= lastPos
  <2>1. req \in Request /\ holder.next \in Response \cup {NoResponse}
    BY <1>0, HolderType
  <2>2. req.pos \in Nat /\ req.body \in Body
    BY <2>1 DEF Request
  <2>3. lastPos \in Nat /\ clientPos \in Nat /\ sent \in 0..MaxRequests
    BY DEF TypeOK
  <2>4. req.pos <= clientPos /\ clientPos <= lastPos
    BY <1>0 DEF RequestInv, ClientInv
  <2> QED BY <2>1, <2>2, <2>3, <2>4
<1>2. lastPos + 1 <= sent
  BY <1>0, <1>1, FS_CardinalityType, SMTT(30) DEF CountInv
<1>3. resp \in Response
  BY <1>1, <1>2, ConnAssumption DEF Response
<1>4. /\ log' \in Seq(Body) /\ Len(log') = lastPos + 1
      /\ \A i \in 1..lastPos : log'[i] = log[i]
      /\ log'[lastPos + 1] = req.body
  <2>1. log \in Seq(Body) /\ Len(log) = lastPos
    BY DEF TypeOK, BufferInv
  <2> QED BY <1>0, <1>1, <2>1, AppendProperties
<1>5. /\ serverResponses' \in Seq(Response)
      /\ Len(serverResponses) \in Nat
      /\ Len(serverResponses') = Len(serverResponses) + 1
      /\ \A i \in 1..Len(serverResponses) : serverResponses'[i] = serverResponses[i]
      /\ serverResponses'[Len(serverResponses) + 1] = resp
  <2>1. serverResponses \in Seq(Response)
    BY DEF TypeOK
  <2> QED BY <1>0, <1>3, <2>1, AppendProperties
<1>6. req.id = awaiting => a = [kind |-> "response", response |-> Due']
  <2> SUFFICES ASSUME req.id = awaiting
               PROVE  a = [kind |-> "response", response |-> Due']
    OBVIOUS
  <2>1. Due' = [pos |-> clientPos + 1, data |-> log'[clientPos + 1]]
    BY <1>0 DEF Due
  <2>2. CASE clientPos < lastPos
    <3>1. holder.next = Due /\ Due' = Due
      BY <1>0, <1>1, <1>4, <2>1, <2>2, SMTT(30) DEF HolderInv, Due
    <3>2. Due # NoResponse
      BY <1>1 DEF Due, NoResponse
    <3> QED BY <3>1, <3>2 DEF OldestOf, Respond
  <2>3. CASE clientPos = lastPos
    <3>1. holder.next = NoResponse
      <4>1. ~(clientPos < lastPos)
        BY <1>1, <2>3
      <4> QED BY <1>0, <4>1 DEF HolderInv
    <3>2. resp = Due' /\ resp # NoResponse
      BY <1>1, <1>4, <2>1, <2>3 DEF NoResponse
    <3> QED BY <3>1, <3>2 DEF OldestOf, Respond
  <2> QED BY <1>1, <2>2, <2>3
<1>7. TypeOK'
  <2>1. HolderTypeOK'
    BY <1>0 DEF HolderTypeOK, NoHolder
  <2>2. ReplyTypeOK'
    <3>1. a \in [kind : {"response"}, response : Response]
      BY <1>1, <1>3 DEF Respond, OldestOf, Response, NoResponse
    <3> QED BY <1>0, <3>1, TypeParts, SMTT(30) DEF ReplyTypeOK, Answer, Response, NoReply
  <2>3. RestTypeOK'
    BY <1>0, <1>1, <1>2, <1>4, <1>5, TypeParts, SMTT(30) DEF RestTypeOK, Request, Response
  <2> QED BY <2>1, <2>2, <2>3, TypePartsPrime
<1>16. resp.pos = lastPos + 1 /\ resp.data = req.body
  OBVIOUS
<1> HIDE DEF req, resp, a
<1>8. CountInv'
  <2>1. Cardinality(inflight) \in Nat /\ sent \in Nat
    BY FS_CardinalityType, SMTT(30) DEF CountInv, TypeOK
  <2>2. Cardinality(inflight) + 1 + lastPos <= sent
    BY <1>0, ZenonT(30) DEF CountInv
  <2>3. inflight' = inflight /\ sent' = sent /\ ~Busy' /\ lastPos' = lastPos + 1
    BY <1>0
  <2>4. Cardinality(inflight) + 0 + (lastPos + 1) <= sent
    BY <1>1, <2>1, <2>2
  <2>5. (IF Busy' THEN 1 ELSE 0) = 0
    BY <2>3
  <2>6. Cardinality(inflight') + (IF Busy' THEN 1 ELSE 0) + lastPos' <= sent'
    BY <2>3, <2>4, <2>5
  <2> QED BY <2>3, <2>6 DEF CountInv
<1>9. /\ Base' = Base /\ Base \in Int
      /\ Base + Len(serverResponses) = lastPos
  <2> HIDE DEF IInv
  <2> QED BY <1>0, <1>1, <1>5 DEF Base
<1>10. BufferInv'
  <2>1. ASSUME NEW i \in 1..Len(serverResponses')
        PROVE  /\ serverResponses'[i].pos = Base' + i
               /\ serverResponses'[i].data = log'[Base' + i]
    <3>1. i = Len(serverResponses) + 1 \/ i \in 1..Len(serverResponses)
      <4> HIDE DEF IInv
      <4> QED BY <1>5
    <3>2. CASE i = Len(serverResponses) + 1
      <4> HIDE DEF IInv
      <4>1. Base' + i = lastPos + 1
        BY <1>1, <1>5, <1>9, <3>2, SMTT(30)
      <4>2. serverResponses'[i] = resp /\ log'[Base' + i] = req.body
        BY <1>4, <1>5, <3>2, <4>1
      <4> QED BY <1>16, <4>1, <4>2
    <3>3. CASE i \in 1..Len(serverResponses)
      <4>1. /\ Base >= 0
            /\ serverResponses[i].pos = Base + i
            /\ serverResponses[i].data = log[Base + i]
        BY <3>3 DEF BufferInv
      <4> HIDE DEF IInv
      <4>2. Base + i \in 1..lastPos
        BY <1>1, <1>5, <1>9, <3>3, <4>1
      <4> QED BY <1>4, <1>5, <1>9, <3>3, <4>1, <4>2
    <3> QED BY <3>1, <3>2, <3>3
  <2>2. lastPos' = Len(log') /\ Base' >= 0
    BY <1>0, <1>4, <1>9 DEF BufferInv
  <2> QED BY <2>1, <2>2 DEF BufferInv
<1>11. ClientInv'
  BY <1>0, <1>1, <1>4, <1>9 DEF ClientInv
<1>12. RequestInv' /\ HolderInv'
  BY <1>0 DEF RequestInv, HolderInv
<1>13. FirstInv'
  BY <1>0, <1>1 DEF FirstInv
<1>14. LastInv'
  BY <1>0, <1>1, <1>4 DEF LastInv
<1>15. ReplyInv'
  <2>1. CASE req.id = awaiting
    BY <1>0, <1>1, <1>6, <2>1 DEF ReplyInv, Answer
  <2>2. CASE req.id # awaiting
    <3>1. reply' = reply
      BY <1>0, <2>2 DEF Answer
    <3>2. clientPos < lastPos => Due' = Due
      <4> HIDE DEF IInv
      <4>1. clientPos < lastPos => log'[clientPos + 1] = log[clientPos + 1]
        BY <1>1, <1>4
      <4>2. Due' = [pos |-> clientPos + 1, data |-> log'[clientPos + 1]]
        BY <1>0 DEF Due
      <4> QED BY <4>1, <4>2, Zenon DEF Due
    <3> QED BY <1>0, <1>1, <3>1, <3>2 DEF ReplyInv, NoReply
  <2> QED BY <2>1, <2>2
<1> QED BY <1>7, <1>8, <1>10, <1>11, <1>12, <1>13, <1>14, <1>15 DEF IInv

\* An error or a panic of the handler keeps the invariant: only the mutex and the
\* answer change.
LEMMA HandlerFailsIInv == ASSUME IInv, HandlerFails PROVE IInv'
<1> USE DEF IInv
<1>0. /\ Busy /\ ~Busy' /\ holder' = NoHolder
      /\ Answer(holder.req, [kind |-> "error"])
      /\ UNCHANGED <<lastClientRequest, serverResponses, lastPos,
                     clientPos, awaiting, sent, seen, inflight, log>>
  BY DEF HandlerFails, Busy, NoHolder, clientVars
<1>1. TypeOK'
  <2>1. HolderTypeOK' /\ ReplyTypeOK'
    BY <1>0, TypeParts, SMTT(30)
       DEF HolderTypeOK, ReplyTypeOK, Answer, Response, NoReply, NoHolder
  <2>2. RestTypeOK'
    BY <1>0, TypeParts DEF RestTypeOK, Request, Response
  <2> QED BY <2>1, <2>2, TypePartsPrime
<1>2. CountInv'
  <2>1. Cardinality(inflight) \in Nat /\ lastPos \in Nat /\ sent \in Nat
    BY FS_CardinalityType DEF CountInv, TypeOK
  <2> QED BY <1>0, <2>1 DEF CountInv
<1>3. BufferInv' /\ ClientInv' /\ RequestInv' /\ FirstInv' /\ LastInv' /\ HolderInv'
  BY <1>0, ZenonT(30)
     DEF BufferInv, ClientInv, RequestInv, FirstInv, LastInv, HolderInv, Base
<1>4. ReplyInv'
  BY <1>0, ZenonT(30) DEF ReplyInv, Answer, NoReply, Due
<1> QED BY <1>1, <1>2, <1>3, <1>4 DEF IInv

\* A step that changes nothing keeps the invariant.
LEMMA StutterIInv == ASSUME IInv, UNCHANGED vars PROVE IInv'
<1> USE DEF IInv, vars, connVars, clientVars
<1>1. TypeOK'
  <2>1. HolderTypeOK' /\ ReplyTypeOK' /\ RestTypeOK'
    BY TypeParts, ZenonT(30) DEF HolderTypeOK, ReplyTypeOK, RestTypeOK, Request, Response,
       NoResponse, NoHolder, NoReply
  <2> QED BY <2>1, TypePartsPrime
<1>2. (CountInv /\ BufferInv /\ ClientInv /\ RequestInv)'
  BY ZenonT(30) DEF CountInv, BufferInv, ClientInv, RequestInv, Base, Busy, NoHolder
<1>3. (FirstInv /\ LastInv /\ HolderInv /\ ReplyInv)'
  BY ZenonT(30) DEF FirstInv, LastInv, HolderInv, ReplyInv, Due, Busy, NoHolder,
     NoReply, NoResponse
<1> QED BY <1>1, <1>2, <1>3

\* The inductive invariant holds in every reachable state.
THEOREM InductiveInvariant == Spec => []IInv
<1>1. IInv /\ [Next]_vars => IInv'
  <2> SUFFICES ASSUME IInv, [Next]_vars PROVE IInv'
    OBVIOUS
  <2>1. ASSUME NEW b \in Body, ClientSends(b) PROVE IInv'
    BY <2>1, ClientSendsIInv
  <2>2. CASE ClientGivesUp
    BY <2>2, NotAwaitingIInv DEF ClientGivesUp
  <2>3. CASE ClientReceives
    BY <2>3, ClientReceivesIInv
  <2>4. ASSUME NEW r \in inflight, OnIncomingRequest(r) PROVE IInv'
    BY <2>4, OnIncomingRequestIInv
  <2>5. CASE HandlerReturns
    BY <2>5, HandlerReturnsIInv
  <2>6. CASE HandlerFails
    BY <2>6, HandlerFailsIInv
  <2>7. CASE UNCHANGED vars
    BY <2>7, StutterIInv
  <2> QED BY <2>1, <2>2, <2>3, <2>4, <2>5, <2>6, <2>7 DEF Next
<1> QED BY <1>1, InitIInv, PTL DEF Spec

\* Every variable of a connection and its client keeps its type; in particular
\* OnIncomingRequest never hands out more positions than there were requests.
THEOREM TypeCorrect == Spec => []TypeOK
<1>1. IInv => TypeOK
  BY DEF IInv
<1> QED BY <1>1, InductiveInvariant, PTL

\* The purge loop of OnIncomingRequest never deletes the response the client
\* acknowledged last, whatever stale requests arrive in between.
THEOREM AckedRetained == Spec => []AckedResponseRetained
<1>1. IInv => AckedResponseRetained
  <2> SUFFICES ASSUME IInv, clientPos > 0 PROVE isOutstanding(clientPos)
    BY DEF AckedResponseRetained
  <2>1. /\ Base \in Int /\ clientPos \in Nat /\ Base < clientPos
        /\ clientPos <= lastPos /\ lastPos = Base + Len(serverResponses)
        /\ lastPos \in Nat /\ Len(serverResponses) \in Nat
    <3>1. lastPos \in Nat /\ clientPos \in Nat /\ Len(serverResponses) \in Nat
      BY DEF IInv, TypeOK
    <3>2. Base < clientPos /\ clientPos <= lastPos
      BY DEF IInv, ClientInv
    <3> QED BY <3>1, <3>2 DEF Base
  <2>2. clientPos - Base \in 1..Len(serverResponses)
    BY <2>1
  <2>3. serverResponses[clientPos - Base].pos = clientPos
    BY <2>1, <2>2 DEF IInv, BufferInv
  <2> QED BY <2>2, <2>3 DEF isOutstanding
<1> QED BY <1>1, InductiveInvariant, PTL

\* The cached answer to a retransmission is never nil.
THEOREM CachedAnswer == Spec => []CachedAnswerExists
<1>1. IInv => CachedAnswerExists
  <2> SUFFICES ASSUME IInv, NEW r \in inflight, IsRetransmit(r), IsSameRequest(r)
               PROVE  nextUnACKedResponse(r.pos) # NoResponse
    BY DEF CachedAnswerExists
  <2>1. r.pos \in 0..lastPos /\ r.pos < lastPos
    BY SMTT(30) DEF IInv, IsRetransmit, LastInv, RequestInv, ClientInv, TypeOK, Request
  <2> QED BY <2>1, NextUnACKedValue DEF IInv
<1> QED BY <1>1, InductiveInvariant, PTL

\* A connection implements the response stream: what the client of a Conn sees
\* is the handler's log, in order, each response exactly once.
THEOREM ConnImplementsStream == Spec => StreamSpec
<1>1. Init => Stream!Init
  BY DEF Init, Stream!Init
<1>2. IInv /\ [Next]_vars => [Stream!Next]_<<log, seen>>
  <2> SUFFICES ASSUME IInv, [Next]_vars PROVE [Stream!Next]_<<log, seen>>
    OBVIOUS
  <2>0. /\ log \in Seq(Body) /\ Len(log) = lastPos /\ lastPos \in Nat
        /\ Len(seen) = clientPos /\ clientPos \in Nat
    BY DEF IInv, TypeOK, BufferInv, ClientInv
  <2>1. CASE ClientReceives
    <3>1. CASE reply.kind = "response"
      <4>1. clientPos < lastPos /\ reply.response = Due
        BY <2>1, <3>1 DEF ClientReceives, IInv, ReplyInv
      <4>2. seen' = Append(seen, log[Len(seen) + 1]) /\ log' = log
        BY <2>0, <2>1, <3>1, <4>1 DEF ClientReceives, Due
      <4>3. Stream!Consume
        BY <2>0, <4>1, <4>2 DEF Stream!Consume
      <4> QED BY <4>3 DEF Stream!Next
    <3>2. CASE reply.kind # "response"
      BY <2>1, <3>2 DEF ClientReceives
    <3> QED BY <3>1, <3>2
  <2>2. CASE HandlerReturns
    <3>1. holder.req.body \in Body /\ Busy
      BY <2>2, HolderType, SMTT(30) DEF IInv, HandlerReturns, Busy, NoHolder, Request
    <3>2. Len(log) > Len(seen) => log[Len(log)] # holder.req.body
      BY <2>0, <3>1 DEF IInv, HolderInv
    <3>3. Stream!Produce(holder.req.body)
      BY <2>2, <3>2, SMTT(30) DEF Stream!Produce, HandlerReturns, clientVars
    <3> QED BY <3>1, <3>3 DEF Stream!Next
  <2>3. CASE \/ \E b \in Body : ClientSends(b)
             \/ ClientGivesUp
             \/ \E r \in inflight : OnIncomingRequest(r)
             \/ HandlerFails
             \/ UNCHANGED vars
    BY <2>3, SMTT(30) DEF ClientSends, ClientGivesUp, OnIncomingRequest, HandlerFails,
       clientVars, vars
  <2> QED BY <2>1, <2>2, <2>3 DEF Next
<1> QED BY <1>1, <1>2, InductiveInvariant, PTL DEF Spec, StreamSpec, Stream!Spec
=============================================================================
