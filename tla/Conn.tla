-------------------------------- MODULE Conn --------------------------------
(***************************************************************************)
(* One sliding sync connection (sync3/conn.go) and the client that uses    *)
(* it.  The server side is the Conn object: the buffer of responses not    *)
(* yet acknowledged, the last request it processed, the highest position   *)
(* it handed out, and the mutex it holds while its handler runs.  The      *)
(* client acknowledges a response by sending its position in the next      *)
(* request.  It may give up waiting and send again, with the same body or  *)
(* with another, so that several of its requests are in flight and reach   *)
(* the Conn in any order; the answer to an abandoned request is lost.      *)
(*                                                                         *)
(* A request body and the response computed from it are abstracted to a    *)
(* member of Body: Request.Same compares bodies without pos, timeout and   *)
(* txn_id.  Cancelling the outstanding request only makes its handler      *)
(* return earlier; here a handler may return at any moment.                *)
(***************************************************************************)
EXTENDS Integers, Sequences

CONSTANTS Body,        \* distinct request bodies
          NoBody,      \* the body of the zero Request
          MaxRequests  \* bound: requests the client sends

ASSUME ConnAssumption == NoBody \notin Body /\ MaxRequests \in Nat

VARIABLES lastClientRequest,  \* [pos, body] of the last request processed
          serverResponses,    \* buffer of [pos, data], lowest position first
          lastPos,            \* highest position handed out
          holder,             \* the request whose handler runs under c.mu
          inflight,           \* requests sent and not yet past c.mu
          clientPos,          \* pos of the last response the client received
          awaiting,           \* id of the request the client waits for, or 0
          reply,              \* the answer travelling to the awaited request
          sent,               \* requests sent so far
          log,                \* history: bodies processed, in order
          seen                \* history: responses the client received

connVars == <<lastClientRequest, serverResponses, lastPos, holder>>
clientVars == <<clientPos, awaiting, sent, seen>>
vars == <<connVars, clientVars, inflight, reply, log>>

Request == [id : 1..MaxRequests, pos : 0..MaxRequests, body : Body]
Response == [pos : 1..MaxRequests, data : Body]
NoResponse == [pos |-> 0, data |-> NoBody]
NoHolder == [busy |-> FALSE]
NoReply == [kind |-> "none"]

-----------------------------------------------------------------------------
Init ==
    /\ lastClientRequest = [pos |-> 0, body |-> NoBody]
    /\ serverResponses = << >>
    /\ lastPos = 0
    /\ holder = NoHolder
    /\ inflight = {}
    /\ clientPos = 0
    /\ awaiting = 0
    /\ reply = NoReply
    /\ sent = 0
    /\ log = << >>
    /\ seen = << >>

-----------------------------------------------------------------------------
(* The client.  Only the first request of a connection carries no position *)
(* (pos 0): a client that never got a position asks for a new connection.  *)

ClientSends(b) ==
    /\ awaiting = 0
    /\ sent < MaxRequests
    /\ sent = 0 \/ clientPos > 0
    /\ sent' = sent + 1
    /\ awaiting' = sent + 1
    /\ inflight' = inflight \cup
                     {[id |-> sent + 1, pos |-> clientPos, body |-> b]}
    /\ UNCHANGED <<connVars, clientPos, reply, log, seen>>

ClientGivesUp ==
    /\ awaiting # 0
    /\ awaiting' = 0
    /\ reply' = NoReply
    /\ UNCHANGED <<connVars, clientPos, sent, seen, inflight, log>>

ClientReceives ==
    /\ reply # NoReply
    /\ awaiting' = 0
    /\ reply' = NoReply
    /\ IF reply.kind = "response"
         THEN /\ clientPos' = reply.response.pos
              /\ seen' = Append(seen, reply.response.data)
         ELSE UNCHANGED <<clientPos, seen>>
    /\ UNCHANGED <<connVars, sent, inflight, log>>

-----------------------------------------------------------------------------
(* The Conn.                                                               *)

IsRetransmit(r) == r.pos # 0 /\ lastClientRequest.pos = r.pos
IsSameRequest(r) == r.pos # 0 /\ lastClientRequest.body = r.body

isOutstanding(pos) ==
    \E i \in 1..Len(serverResponses) : serverResponses[i].pos = pos

\* Mutant of AckedBelow: the response being acknowledged is purged as well.
AckedUpTo(pos) ==
    CHOOSE d \in 0..Len(serverResponses) :
        /\ d = 0 \/ serverResponses[d].pos <= pos
        /\ \A i \in (d + 1)..Len(serverResponses) : serverResponses[i].pos > pos

\* How many responses the client has advanced beyond: delIndex + 1.
AckedBelow(pos) ==
    CHOOSE d \in 0..Len(serverResponses) :
        /\ d = 0 \/ serverResponses[d].pos < pos
        /\ \A i \in (d + 1)..Len(serverResponses) : serverResponses[i].pos >= pos

\* The index of the oldest response the client has not acknowledged, one past
\* the end of the buffer when there is none.
FirstUnACKed(pos) ==
    CHOOSE i \in 1..(Len(serverResponses) + 1) :
        /\ \A j \in 1..(i - 1) : serverResponses[j].pos <= pos
        /\ i <= Len(serverResponses) => serverResponses[i].pos > pos

nextUnACKedResponse(pos) ==
    IF FirstUnACKed(pos) <= Len(serverResponses)
      THEN serverResponses[FirstUnACKed(pos)]
      ELSE NoResponse

\* The HTTP answer to r: the client has closed the connection of a request it
\* no longer awaits.  A nil response makes the caller dereference nil.
Answer(r, a) == reply' = IF r.id = awaiting THEN a ELSE reply

Respond(resp) ==
    IF resp = NoResponse THEN [kind |-> "nil"]
                         ELSE [kind |-> "response", response |-> resp]

\* OnIncomingRequest under c.mu, up to the call of the handler.
OnIncomingRequest(r) ==
    /\ holder = NoHolder
    /\ inflight' = inflight \ {r}
    /\ UNCHANGED <<lastClientRequest, lastPos, clientVars, log>>
    /\ IF r.pos # 0 /\ ~IsRetransmit(r) /\ ~isOutstanding(r.pos)
         THEN /\ Answer(r, [kind |-> "expired"])
              /\ UNCHANGED <<serverResponses, holder>>
         ELSE /\ serverResponses' = SubSeq(serverResponses,
                                           AckedBelow(r.pos) + 1,
                                           Len(serverResponses))
              /\ IF IsSameRequest(r) /\ (\/ IsRetransmit(r)
                                         \/ nextUnACKedResponse(r.pos) # NoResponse)
                   THEN /\ Answer(r, Respond(nextUnACKedResponse(r.pos)))
                        /\ UNCHANGED holder
                   ELSE /\ holder' = [busy |-> TRUE, req |-> r,
                                      next |-> nextUnACKedResponse(r.pos)]
                        /\ UNCHANGED reply

nextPos == lastPos + 1

\* Mutant of OldestOf: answer with the response just computed.
NewestOf(unACKed, resp) == resp

\* "return the oldest value"
OldestOf(unACKed, resp) == IF unACKed = NoResponse THEN resp ELSE unACKed

\* tryRequest returned a response: remember the request, number and buffer the
\* response, and answer with the oldest one the client has not acknowledged.
HandlerReturns ==
    /\ holder.busy
    /\ LET resp == [pos |-> nextPos, data |-> holder.req.body]
       IN /\ lastClientRequest' = [pos |-> holder.req.pos, body |-> holder.req.body]
          /\ serverResponses' = Append(serverResponses, resp)
          /\ lastPos' = resp.pos
          /\ Answer(holder.req, Respond(OldestOf(holder.next, resp)))
    /\ log' = Append(log, holder.req.body)
    /\ holder' = NoHolder
    /\ UNCHANGED <<clientVars, inflight>>

\* Mutant of HandlerFails: the failed request is remembered as processed.
HandlerFailsCached ==
    /\ holder.busy
    /\ Answer(holder.req, [kind |-> "error"])
    /\ lastClientRequest' = [pos |-> holder.req.pos, body |-> holder.req.body]
    /\ holder' = NoHolder
    /\ UNCHANGED <<serverResponses, lastPos, clientVars, inflight, log>>

\* Mutant of HandlerFails: the error path does not release c.mu.
HandlerFailsLocked ==
    /\ holder.busy
    /\ Answer(holder.req, [kind |-> "error"])
    /\ holder' = [busy |-> FALSE, locked |-> TRUE]
    /\ UNCHANGED <<lastClientRequest, serverResponses, lastPos, clientVars,
                   inflight, log>>

\* tryRequest returned an error, or recovered from a panic of the handler.
HandlerFails ==
    /\ holder.busy
    /\ Answer(holder.req, [kind |-> "error"])
    /\ holder' = NoHolder
    /\ UNCHANGED <<lastClientRequest, serverResponses, lastPos, clientVars,
                   inflight, log>>

-----------------------------------------------------------------------------
Next ==
    \/ \E b \in Body : ClientSends(b)
    \/ ClientGivesUp
    \/ ClientReceives
    \/ \E r \in inflight : OnIncomingRequest(r)
    \/ HandlerReturns
    \/ HandlerFails

Spec == Init /\ [][Next]_vars

\* The network delivers, the handler of a request returns (it is bounded by the
\* request's timeout) and Go's mutex does not starve a waiter.
Fairness ==
    /\ WF_vars(ClientReceives)
    /\ WF_vars(HandlerReturns \/ HandlerFails)
    /\ \A id \in 1..MaxRequests :
         SF_vars(\E r \in inflight : r.id = id /\ OnIncomingRequest(r))

FairSpec == Spec /\ Fairness

-----------------------------------------------------------------------------
(* Properties.                                                             *)

\* Types.  A position is handed out by a request that was sent, so lastPos never
\* passes the number of requests.
TypeOK ==
    /\ lastClientRequest \in [pos : 0..MaxRequests, body : Body \cup {NoBody}]
    /\ serverResponses \in Seq(Response)
    /\ lastPos \in 0..sent
    /\ holder \in {NoHolder} \cup [busy : {TRUE}, req : Request,
                                    next : Response \cup {NoResponse}]
    /\ inflight \subseteq Request
    /\ clientPos \in 0..MaxRequests
    /\ awaiting \in 0..sent
    /\ reply \in {NoReply} \cup [kind : {"nil", "expired", "error"}]
                 \cup [kind : {"response"}, response : Response]
    /\ sent \in 0..MaxRequests
    /\ log \in Seq(Body)
    /\ seen \in Seq(Body)

\* However requests are retried, reordered or abandoned, the response the client
\* acknowledged last stays in the buffer, so OnIncomingRequest never answers the
\* client's next request with an expired session.
AckedResponseRetained == clientPos > 0 => isOutstanding(clientPos)

\* A retransmission of the last request processed always finds a buffered
\* response, also after later requests purged the buffer and then failed: the
\* early return of OnIncomingRequest never hands nil to its caller.
CachedAnswerExists ==
    \A r \in inflight :
        IsRetransmit(r) /\ IsSameRequest(r)
            => nextUnACKedResponse(r.pos) # NoResponse

\* Conn implements the abstract stream: in spite of lost answers, retries and
\* purges the client sees what the handler produced, in order, exactly once, and
\* a retried request does not run the handler again.
Stream == INSTANCE ResponseStream WITH log <- log, seen <- seen

StreamSpec == Stream!Spec

\* A request the client keeps waiting for is answered: no path through
\* OnIncomingRequest leaves the connection's mutex held.
EveryRequestAnswered ==
    \A id \in 1..MaxRequests : awaiting = id ~> awaiting # id
=============================================================================
