----------------------------- MODULE DeviceLists -----------------------------
(***************************************************************************)
(* Device list changes and key counts of one device, from its poller to    *)
(* its client: the tables (state/device_list_table.go,                     *)
(* state/device_data_table.go), the ticker that announces changes          *)
(* (sync2/device_data_ticker.go) and the e2ee extension                    *)
(* (sync3/extensions/e2ee.go), on top of the connection of module Conn.    *)
(*                                                                         *)
(* A response carries what the extension read.  The client may lose it and *)
(* ask again, the handler may fail after it read, and the session may end  *)
(* with responses still in its buffer.                                     *)
(***************************************************************************)
EXTENDS Conn, FiniteSets

CONSTANTS Target,      \* users whose devices change
          KeyKind,     \* one-time key counts, unused fallback keys
          MaxChanges,  \* bound: changes the homeserver reports
          MaxFaults    \* bound: failed reads, failed handlers, ended sessions

ASSUME DeviceListsAssumption ==
    MaxChanges \in Nat /\ MaxFaults \in Nat

VARIABLES bucket,      \* syncv3_device_list_updates: per bucket and target
          keyData,     \* syncv3_device_data: the version of each kind, 0 is nil
          ChangedBits, \* the kinds changed since the last swap
          changes,     \* changes stored so far; the version of the last one
          remember,    \* OnE2EEData has stored a change and not called Remember
          notifyMap,   \* DeviceDataTicker: the device is to be announced
          emit,        \* where emitUpdate is, and whether it has the device
          poke,        \* a DeviceDataUpdate is on its way to the connection
          ext,         \* the extension's part of the response being computed
          contents,    \* the extension's part of the responses, by position
          clientLists, clientKeys, \* what the client knows
          faults,      \* how many faults have happened
          latest,      \* history: the newest change of each target
          rerun,       \* history: the last read was of a request whose position
                       \* had been answered, but not received
          lossy,       \* history: data was taken for a response that is gone
          repeated     \* history: a change was sent again outside a first response

tables == <<bucket, keyData, ChangedBits, changes, latest>>
ticker == <<remember, notifyMap, emit, poke>>
client == <<clientLists, clientKeys, repeated>>
listVars == <<vars, tables, ticker, client, faults, ext, contents, rerun, lossy>>

None == [v |-> 0, state |-> "none"]
NoChanges == [t \in Target |-> None]
NoKeys == [k \in KeyKind |-> 0]
NotRead == [phase |-> "none", lists |-> NoChanges, keys |-> NoKeys]

DeviceListsInit ==
    /\ Init
    /\ bucket = [new |-> NoChanges, sent |-> NoChanges]
    /\ keyData = NoKeys /\ ChangedBits = {} /\ changes = 0
    /\ remember = FALSE /\ notifyMap = FALSE /\ emit = "idle" /\ poke = FALSE
    /\ ext = NotRead /\ contents = <<>>
    /\ clientLists = NoChanges /\ clientKeys = NoKeys
    /\ faults = 0
    /\ latest = NoChanges /\ rerun = FALSE /\ lossy = FALSE /\ repeated = FALSE

-----------------------------------------------------------------------------
(* The poller.                                                             *)

\* ToDeviceListChangesMap: a user in both lists has left.
ToDeviceListChangesMap(changed, left, v) ==
    [t \in changed \cup left |-> [v |-> v, state |-> IF t \in left THEN "left" ELSE "changed"]]

\* DeviceDataTable.Upsert, which OnE2EEData calls; a failed one changes nothing
\* and is retried with the response.
Upsert(changed, left, kinds) ==
    LET m == ToDeviceListChangesMap(changed, left, changes + 1)
        put(b) == [t \in Target |-> IF t \in DOMAIN m THEN m[t] ELSE b[t]]
    IN  /\ ~remember /\ changes < MaxChanges
        /\ changed \cup left \cup kinds # {}
        /\ changes' = changes + 1
        /\ bucket' = [bucket EXCEPT !.new = put(@)]
        /\ keyData' = [k \in KeyKind |-> IF k \in kinds THEN changes + 1 ELSE keyData[k]]
        /\ ChangedBits' = ChangedBits \cup kinds
        /\ latest' = put(latest)
        /\ remember' = TRUE
        /\ UNCHANGED <<vars, notifyMap, emit, poke, client, faults, ext, contents, rerun, lossy>>

Remember ==
    /\ remember
    /\ remember' = FALSE /\ notifyMap' = TRUE
    /\ UNCHANGED <<vars, tables, emit, poke, client, faults, ext, contents, rerun, lossy>>

\* Mutant of EmitUpdate: entries are deleted after the payload is sent.
EmitThenDelete ==
    /\ \/ emit = "idle" /\ notifyMap /\ emit' = "seen" /\ UNCHANGED <<notifyMap, poke>>
       \/ emit = "seen" /\ emit' = "deleted" /\ poke' = TRUE /\ UNCHANGED notifyMap
       \/ emit = "deleted" /\ emit' = "idle" /\ notifyMap' = FALSE /\ UNCHANGED poke
    /\ UNCHANGED <<vars, tables, remember, client, faults, ext, contents, rerun, lossy>>

\* emitUpdate: Range sees the entry and adds it to the payload, deletes it, and
\* the payload is sent after the loop.  OnDeviceData pokes the connection.
EmitUpdate ==
    /\ \/ emit = "idle" /\ notifyMap /\ emit' = "seen" /\ UNCHANGED <<notifyMap, poke>>
       \/ emit = "seen" /\ emit' = "deleted" /\ notifyMap' = FALSE /\ UNCHANGED poke
       \/ emit = "deleted" /\ emit' = "idle" /\ poke' = TRUE /\ UNCHANGED notifyMap
    /\ UNCHANGED <<vars, tables, remember, client, faults, ext, contents, rerun, lossy>>

-----------------------------------------------------------------------------
(* The extension.  The handler of Conn's holder runs it.                   *)

isInitial == holder.req.pos = 0

\* Mutant of SelectTx: a read without swap removes the rows it returns.
SelectTxConsumes(swap) ==
    IF swap
    THEN [rows |-> bucket.new, bucket |-> [new |-> NoChanges, sent |-> bucket.new]]
    ELSE [rows |-> bucket.sent, bucket |-> [bucket EXCEPT !.sent = NoChanges]]

\* Mutant of SelectTx: the swap does not delete what was sent before.
SelectTxKeeps(swap) ==
    LET both == [t \in Target |-> IF bucket.new[t] # None THEN bucket.new[t] ELSE bucket.sent[t]]
    IN  IF swap THEN [rows |-> both, bucket |-> [new |-> NoChanges, sent |-> both]]
        ELSE [rows |-> bucket.sent, bucket |-> bucket]

\* What SelectTx returns and what it leaves in the buckets.
SelectTx(swap) ==
    IF swap
    THEN [rows |-> bucket.new, bucket |-> [new |-> NoChanges, sent |-> bucket.new]]
    ELSE [rows |-> bucket.sent, bucket |-> bucket]

\* Mutant of ProcessInitial: a first request too gets only the keys that changed.
ProcessInitialChangedOnly(initial) ==
    LET r == SelectTx(~initial)
    IN  /\ ext' = [phase |-> "read", lists |-> r.rows,
                   keys |-> [k \in KeyKind |-> IF k \in ChangedBits THEN keyData[k] ELSE 0]]
        /\ bucket' = r.bucket
        /\ ChangedBits' = IF initial THEN ChangedBits ELSE {}

\* DeviceDataTable.Select and ProcessInitial.  A device without a row, before
\* the first Upsert, has nothing to read, nor anything to swap.
ProcessInitial(initial) ==
    LET r == SelectTx(~initial)
    IN  /\ ext' = [phase |-> "read", lists |-> r.rows,
                   keys |-> [k \in KeyKind |->
                              IF initial \/ k \in ChangedBits THEN keyData[k] ELSE 0]]
        /\ bucket' = r.bucket
        /\ ChangedBits' = IF initial THEN ChangedBits ELSE {}

HasData(e) == e.lists # NoChanges \/ e.keys # NoKeys

Handle ==
    /\ holder.busy /\ ext.phase = "none"
    /\ ProcessInitial(isInitial)
    /\ rerun' = (Len(contents) > holder.req.pos)
    /\ UNCHANGED <<vars, keyData, changes, latest, ticker, client, faults, contents, lossy>>

\* The read fails: the response has no e2ee part, and the request goes on.  If
\* it is the first of a session, the next one will drop the sent bucket.
HandleFailsToRead ==
    /\ holder.busy /\ ext.phase = "none" /\ faults < MaxFaults
    /\ faults' = faults + 1
    /\ ext' = [NotRead EXCEPT !.phase = "failed"]
    /\ lossy' = (lossy \/ isInitial)
    /\ rerun' = (Len(contents) > holder.req.pos)
    /\ UNCHANGED <<vars, tables, ticker, client, contents>>

\* AppendLive, whose context always has IsInitial false.
AppendLive ==
    IF HasData(ext) THEN UNCHANGED <<ext, bucket, ChangedBits>> ELSE ProcessInitial(FALSE)

LiveUpdate ==
    /\ holder.busy /\ ext.phase # "none" /\ poke
    /\ poke' = FALSE
    /\ AppendLive
    /\ UNCHANGED <<vars, keyData, changes, latest, remember, notifyMap, emit, client, faults>>
    /\ UNCHANGED <<contents, rerun, lossy>>

ExtHandlerReturns ==
    /\ ext.phase # "none"
    /\ HandlerReturns
    /\ contents' = Append(contents, ext)
    /\ ext' = NotRead
    /\ UNCHANGED <<tables, ticker, client, faults, rerun, lossy>>

\* The handler panics, after it took the changes out of the new bucket or not.
ExtHandlerFails ==
    /\ HandlerFails /\ faults < MaxFaults
    /\ faults' = faults + 1
    /\ ext' = NotRead
    /\ lossy' = (lossy \/ (HasData(ext) /\ ~isInitial))
    /\ UNCHANGED <<tables, ticker, client, contents, rerun>>

-----------------------------------------------------------------------------
(* The client.                                                             *)

ExtClientReceives ==
    /\ ClientReceives
    /\ IF reply.kind = "response"
       THEN LET e == contents[reply.response.pos]
            IN  /\ clientLists' = [t \in Target |->
                     IF e.lists[t] # None THEN e.lists[t] ELSE clientLists[t]]
                /\ clientKeys' = [k \in KeyKind |->
                     IF e.keys[k] # 0 THEN e.keys[k] ELSE clientKeys[k]]
                /\ repeated' = (repeated \/ /\ reply.response.pos > 1
                                            /\ \E t \in Target : /\ e.lists[t] # None
                                                 /\ e.lists[t].v <= clientLists[t].v)
       ELSE UNCHANGED client
    /\ UNCHANGED <<tables, ticker, faults, ext, contents, rerun, lossy>>

\* The connection is gone (restart, expiry, full buffer) and the client, told
\* that its session expired, opens another.  Responses in the buffer are lost;
\* the sent bucket has the changes of the last one only.
NewSession ==
    /\ faults < MaxFaults /\ sent > 0
    /\ faults' = faults + 1
    /\ lastClientRequest' = [pos |-> 0, body |-> NoBody]
    /\ serverResponses' = <<>> /\ lastPos' = 0 /\ holder' = NoHolder
    /\ inflight' = {} /\ clientPos' = 0 /\ awaiting' = 0 /\ reply' = NoReply
    /\ sent' = 0 /\ log' = <<>> /\ seen' = <<>> /\ contents' = <<>> /\ ext' = NotRead
    /\ poke' = FALSE
    /\ rerun' = FALSE /\ lossy' = (lossy \/ rerun)
    /\ UNCHANGED <<tables, remember, notifyMap, emit, client>>

ConnNext ==
    /\ \/ \E b \in Body : ClientSends(b)
       \/ ClientGivesUp
       \/ \E r \in inflight : OnIncomingRequest(r)
    /\ UNCHANGED <<tables, ticker, client, faults, ext, contents, rerun, lossy>>

DeviceListsNext ==
    \/ ConnNext
    \/ \E changed, left \in SUBSET Target, kinds \in SUBSET KeyKind : Upsert(changed, left, kinds)
    \/ Remember \/ EmitUpdate
    \/ Handle \/ HandleFailsToRead \/ LiveUpdate
    \/ ExtHandlerReturns \/ ExtHandlerFails \/ ExtClientReceives
    \/ NewSession

DeviceListsSpec == DeviceListsInit /\ [][DeviceListsNext]_listVars

-----------------------------------------------------------------------------
(* Properties.                                                             *)

\* The parts of responses the client has not received: computed, or buffered.
Unreceived == {contents[i] : i \in (Len(seen) + 1)..Len(contents)} \cup {ext}

\* "We MUST guarantee that we send this to the client": the newest change of a
\* user's devices is in the new or the sent bucket, in a response the client
\* has yet to receive, or known to the client - whatever responses are lost,
\* requests repeated and sessions ended, unless the handler failed after it
\* took changes, the first read of a session failed, or a session ended while
\* two responses to one position were unreceived (SelectTx, DeviceData).
NoChangeLost ==
    ~lossy => \A t \in Target :
        latest[t] \in {bucket.new[t], bucket.sent[t], clientLists[t]} \cup
                      {e.lists[t] : e \in Unreceived}

\* "We MUST NOT continually send the same device list changes": after the first
\* response of a session no change is sent a second time.
NoChangeRepeated == ~repeated

\* Within a session the client has the newest key counts, or they are marked as
\* changed, or on their way (ChangedBits, IsInitial).
KeysReachClient ==
    (~lossy /\ clientPos > 0) => \A k \in KeyKind :
        \/ keyData[k] = clientKeys[k] \/ k \in ChangedBits
        \/ \E e \in Unreceived : e.keys[k] = keyData[k]

\* No lost wake-up: while a request waits after it found nothing, and changes
\* are stored, an announcement of them is under way (Remember, emitUpdate,
\* AppendLive).
WaitingIsPoked ==
    (holder.busy /\ ext.phase = "read" /\ ~isInitial /\ ~HasData(ext)
       /\ (bucket.new # NoChanges \/ ChangedBits # {}))
    => remember \/ notifyMap \/ emit # "idle" \/ poke
=============================================================================
