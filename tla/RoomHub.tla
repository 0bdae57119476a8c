------------------------------ MODULE RoomHub ------------------------------
(***************************************************************************)
(* One room on one replica: transactions that emit events, the LISTEN      *)
(* session, the hub that fans events out, and the web sockets subscribed   *)
(* to it (internal/rooms: emit.go, hub.go, listener.go, ws.go).            *)
(*                                                                         *)
(* An event's id is drawn when its row is inserted, its row is seen and    *)
(* its notification sent when the transaction commits: ids do not arrive   *)
(* in order.  The listener is one goroutine; it and the connections take   *)
(* the hub's mutex for one step at a time and read the database without    *)
(* it.  Rooms and replicas share nothing but the table.                    *)
(***************************************************************************)
EXTENDS Integers, Sequences, Functions

CONSTANTS
    Writers,      \* transactions open at a time
    Subscribers,  \* web sockets of this replica
    BufferSize,   \* subscriberBufferSize
    Unknown,      \* no watermark, no floor to establish
    Resync,       \* the frame {"type":"resync"}
    MaxId,        \* bound: events emitted
    MaxLosses,    \* bound: LISTEN sessions lost
    MaxFailures   \* bound: queries of the hub that fail

ASSUME RoomHubAssumption ==
    /\ BufferSize \in Nat \ {0}
    /\ Unknown \notin Int /\ Resync \notin Int
    /\ MaxId \in Nat /\ MaxLosses \in Nat /\ MaxFailures \in Nat

VARIABLES
    drawn,      \* the last id of the sequence
    open,       \* the rows each open transaction has inserted, in order
    rows,       \* the committed rows of room_events
    link,       \* the LISTEN session as the database sees it: "up" or "down"
    inbox,      \* ids notified to the session and not yet read
    listener,   \* what the listener goroutine is doing
    subs,       \* h.subs[room]
    watermark,  \* h.watermark[room]
    pending,    \* h.pendingNotify[room]
    conn,       \* the web socket of each subscriber
    skipped,    \* history: notified rows whose fetch failed
    losses, failures

database == <<drawn, open, rows>>
session == <<link, inbox, losses>>
hub == <<subs, watermark, pending>>
faults == <<skipped, failures>>
vars == <<drawn, open, rows, link, inbox, listener, subs, watermark, pending,
          conn, skipped, losses, failures>>

Ids == 1 .. MaxId
Frames == Ids \cup {Resync}
Marks == Nat \cup {Unknown}

Listener == [pc : {"dial", "gather", "resync", "wait", "consume", "fetch",
                   "sweep", "track", "dispatch", "raise"},
             id : Ids \cup {0},       \* the notification in hand
             since : Marks,           \* the watermark a sweep starts from
             batch : SUBSET Ids,      \* rows fetched, not yet dispatched
             floor : Marks]           \* establishWatermarkFloor's argument

Connection == [pc : {"out", "readFloor", "setFloor", "snapshot", "live"},
               floor : Nat,
               buffer : Seq(Frames),  \* sub.ch
               known : SUBSET Ids,    \* what the client's view reflects
               stale : BOOLEAN]       \* told to resync, not yet refetched

Waiting == [pc |-> "wait", id |-> 0, since |-> Unknown, batch |-> {},
            floor |-> Unknown]

Gone == [pc |-> "out", floor |-> 0, buffer |-> <<>>, known |-> {}, stale |-> FALSE]

Present(s) == conn[s].pc # "out"

TypeOK ==
    /\ drawn \in 0 .. MaxId
    /\ open \in [Writers -> Seq(Ids)]
    /\ rows \subseteq Ids
    /\ link \in {"up", "down"}
    /\ inbox \in Seq(Ids) /\ Range(inbox) \subseteq rows
    /\ listener \in Listener
    /\ listener.batch \subseteq rows
    /\ listener.pc = "dial" => link = "down"
    /\ subs \subseteq {s \in Subscribers : Present(s)}
    /\ watermark \in Marks
    /\ pending \subseteq rows
    /\ conn \in [Subscribers -> Connection]
    /\ \A s \in Subscribers : /\ Len(conn[s].buffer) <= BufferSize
                              /\ Range(conn[s].buffer) \subseteq rows \cup {Resync}
                              /\ conn[s].known \subseteq rows
    /\ skipped \subseteq rows
    /\ losses \in 0 .. MaxLosses /\ failures \in 0 .. MaxFailures

Init ==
    /\ drawn = 0
    /\ open = [w \in Writers |-> <<>>]
    /\ rows = {}
    /\ link = "down"
    /\ inbox = <<>>
    /\ listener = [Waiting EXCEPT !.pc = "dial"]
    /\ subs = {}
    /\ watermark = Unknown
    /\ pending = {}
    /\ conn = [s \in Subscribers |-> Gone]
    /\ skipped = {}
    /\ losses = 0 /\ failures = 0

-----------------------------------------------------------------------------
(***************************************************************************)
(* Transactions                                                            *)
(***************************************************************************)

\* Emit: the row takes its id now; pg_notify waits for the commit.
Emit(w) ==
    /\ drawn < MaxId
    /\ drawn' = drawn + 1
    /\ open' = [open EXCEPT ![w] = Append(@, drawn + 1)]
    /\ UNCHANGED <<rows, session, listener, hub, conn, faults>>

\* A session that listens is sent the notifications, in the order of their calls.
Commit(w) ==
    /\ open[w] # <<>>
    /\ rows' = rows \cup Range(open[w])
    /\ open' = [open EXCEPT ![w] = <<>>]
    /\ inbox' = IF link = "up" THEN inbox \o open[w] ELSE inbox
    /\ UNCHANGED <<drawn, link, losses, listener, hub, conn, faults>>

\* The ids are never used again.
Rollback(w) ==
    /\ open[w] # <<>>
    /\ open' = [open EXCEPT ![w] = <<>>]
    /\ UNCHANGED <<drawn, rows, session, listener, hub, conn, faults>>

-----------------------------------------------------------------------------
(***************************************************************************)
(* The hub's maps, each operator one critical section of h.mu              *)
(***************************************************************************)

\* establishWatermarkFloor: never moves a known watermark back.
Raised(floor) ==
    IF floor = Unknown \/ (watermark # Unknown /\ floor <= watermark)
    THEN watermark ELSE floor

\* Who is left after the subscribers D: without any, pruneRoomLocked.
Without(D) ==
    /\ subs' = subs \ D
    /\ IF subs \subseteq D THEN watermark' = Unknown /\ pending' = {}
                           ELSE UNCHANGED <<watermark, pending>>

\* Mutation: buffers without a bound.
DispatchUnbounded(frame) ==
    /\ Without({})
    /\ conn' = [s \in Subscribers |->
                   IF s \in subs THEN [conn[s] EXCEPT !.buffer = Append(@, frame)]
                                 ELSE conn[s]]

\* dispatchLocal: a subscriber whose buffer is full is dropped.
Dispatch(frame) ==
    LET full == {s \in subs : Len(conn[s].buffer) = BufferSize}
    IN /\ Without(full)
       /\ conn' = [s \in Subscribers |->
                      IF s \in subs \ full
                      THEN [conn[s] EXCEPT !.buffer = Append(@, frame)]
                      ELSE conn[s]]

-----------------------------------------------------------------------------
(***************************************************************************)
(* The listener's session                                                  *)
(***************************************************************************)

\* LISTEN succeeds.  clearPendingNotify is skipped at the first one, when
\* there is nothing to clear.
Listen ==
    /\ listener.pc = "dial"
    /\ link' = "up"
    /\ pending' = {}
    /\ listener' = [listener EXCEPT !.pc = "gather"]
    /\ UNCHANGED <<database, inbox, losses, subs, watermark, conn, faults>>

\* resyncAll lists the rooms ...
GatherRooms ==
    /\ listener.pc = "gather"
    /\ listener' = [listener EXCEPT !.pc = IF subs = {} THEN "wait" ELSE "resync"]
    /\ UNCHANGED <<database, session, hub, conn, faults>>

\* ... and then nudges whoever is there.
ResyncAll ==
    /\ listener.pc = "resync"
    /\ Dispatch(Resync)
    /\ listener' = Waiting
    /\ UNCHANGED <<database, session, faults>>

\* The session breaks: of what was sent only a prefix still arrives.
Lose ==
    /\ link = "up" /\ losses < MaxLosses
    /\ link' = "down"
    /\ losses' = losses + 1
    /\ \E n \in 0 .. Len(inbox) : inbox' = SubSeq(inbox, 1, n)
    /\ UNCHANGED <<database, listener, hub, conn, faults>>

\* WaitForNotification or the liveness ping fails.
NoticeLoss ==
    /\ listener.pc = "wait" /\ link = "down" /\ inbox = <<>>
    /\ listener' = [Waiting EXCEPT !.pc = "dial"]
    /\ UNCHANGED <<database, session, hub, conn, faults>>

-----------------------------------------------------------------------------
(***************************************************************************)
(* One notification                                                        *)
(***************************************************************************)

\* handleNotify: what to do follows from one look at the maps.
HandleNotify ==
    /\ listener.pc = "wait" /\ inbox # <<>>
    /\ inbox' = Tail(inbox)
    /\ LET id == Head(inbox)
           job == [Waiting EXCEPT !.id = id]
       IN listener' =
            CASE subs = {}           -> [job EXCEPT !.pc = "raise", !.floor = id]
              [] subs # {} /\ watermark = Unknown
                                     -> [job EXCEPT !.pc = "fetch", !.floor = id]
              [] subs # {} /\ watermark # Unknown /\ id <= watermark
                                     -> [job EXCEPT !.pc = "consume"]
              [] OTHER               -> [job EXCEPT !.pc = "sweep", !.since = watermark]
    /\ UNCHANGED <<database, link, losses, hub, conn, faults>>

\* Mutation: a cursor that ignores every id behind it.
IgnoreLate ==
    /\ listener.pc = "consume"
    /\ listener' = Waiting
    /\ UNCHANGED <<database, session, hub, conn, faults>>

\* consumePending: a late id that a sweep has delivered is done with.
ConsumePending ==
    /\ listener.pc = "consume"
    /\ pending' = pending \ {listener.id}
    /\ listener' = IF listener.id \in pending THEN Waiting
                                              ELSE [listener EXCEPT !.pc = "fetch"]
    /\ UNCHANGED <<database, session, subs, watermark, conn, faults>>

\* deliverExact's query for the row itself.
Fetch ==
    /\ listener.pc = "fetch"
    /\ listener' = [listener EXCEPT !.pc = "dispatch", !.batch = {listener.id}]
    /\ UNCHANGED <<database, session, hub, conn, faults>>

\* deliverSince's query for everything past the watermark, in one snapshot.
Sweep ==
    /\ listener.pc = "sweep"
    /\ listener' = [listener EXCEPT
                      !.pc = "track",
                      !.batch = {e \in rows : e > listener.since}]
    /\ UNCHANGED <<database, session, hub, conn, faults>>

\* The rows come in the order of their ids.
FirstOf(batch) == {e \in batch : \A f \in batch : e <= f}

\* trackPending, for every row but the one notified.
TrackPending ==
    /\ listener.pc = "track"
    /\ \E e \in FirstOf(listener.batch) :
          /\ pending' = pending \cup ({e} \ {listener.id})
          /\ listener' = [listener EXCEPT !.pc = "dispatch", !.floor = e]
    /\ UNCHANGED <<database, session, subs, watermark, conn, faults>>

DispatchRow ==
    /\ listener.pc = "dispatch"
    /\ \E e \in FirstOf(listener.batch) :
          /\ Dispatch(e)
          /\ listener' = [listener EXCEPT
                            !.batch = @ \ {e},
                            !.pc = IF listener.batch = {e} THEN "raise" ELSE "track"]
    /\ UNCHANGED <<database, session, faults>>

\* establishWatermarkFloor, with nothing to establish after a late row.
RaiseWatermark ==
    /\ listener.pc = "raise"
    /\ watermark' = Raised(listener.floor)
    /\ listener' = Waiting
    /\ UNCHANGED <<database, session, subs, pending, conn, faults>>

\* A query fails, or breaks off among the rows: it is logged, the watermark
\* rises to where the rows ended.
QueryFails ==
    /\ listener.pc \in {"fetch", "sweep", "track"}
    /\ failures < MaxFailures
    /\ failures' = failures + 1
    /\ skipped' = IF listener.pc # "track" \/ listener.id \in listener.batch
                  THEN skipped \cup {listener.id} ELSE skipped
    /\ listener' = [listener EXCEPT !.pc = "raise", !.batch = {}]
    /\ UNCHANGED <<database, session, hub, conn>>

-----------------------------------------------------------------------------
(***************************************************************************)
(* The web sockets                                                         *)
(***************************************************************************)

Move(s, c) == conn' = [conn EXCEPT ![s] = c]

\* Subscribe registers first; the first one sees to the room's watermark.
Subscribe(s) ==
    /\ ~Present(s)
    /\ subs' = subs \cup {s}
    /\ Move(s, [Gone EXCEPT !.pc = IF subs = {} /\ watermark = Unknown
                                   THEN "readFloor" ELSE "snapshot"])
    /\ UNCHANGED <<database, session, listener, watermark, pending, faults>>

\* initWatermarkFloor's query ...
ReadFloor(s) ==
    /\ conn[s].pc = "readFloor"
    /\ \E max \in rows \cup {0} :
          /\ \A e \in rows : e <= max
          /\ Move(s, [conn[s] EXCEPT !.pc = "setFloor", !.floor = max])
    /\ UNCHANGED <<database, session, listener, hub, faults>>

\* ... which may fail: the next notification sets the watermark ...
FloorFails(s) ==
    /\ conn[s].pc = "readFloor"
    /\ failures < MaxFailures
    /\ failures' = failures + 1
    /\ Move(s, [conn[s] EXCEPT !.pc = "snapshot"])
    /\ UNCHANGED <<database, session, listener, hub, skipped>>

\* ... and establishWatermarkFloor with its result.
SetFloor(s) ==
    /\ conn[s].pc = "setFloor"
    /\ watermark' = Raised(conn[s].floor)
    /\ Move(s, [conn[s] EXCEPT !.pc = "snapshot"])
    /\ UNCHANGED <<database, session, listener, subs, pending, faults>>

\* sendSnapshotAndBackfill: the view is read after the subscription.
Snapshot(s) ==
    /\ conn[s].pc = "snapshot"
    /\ Move(s, [conn[s] EXCEPT !.pc = "live", !.known = rows])
    /\ UNCHANGED <<database, session, listener, hub, faults>>

\* writePumpLoop hands the client one frame.
WriteFrame(s) ==
    /\ conn[s].pc = "live" /\ conn[s].buffer # <<>>
    /\ LET c == [conn[s] EXCEPT !.buffer = Tail(@)]
           frame == Head(conn[s].buffer)
       IN Move(s, IF frame = Resync THEN [c EXCEPT !.stale = TRUE]
                                    ELSE [c EXCEPT !.known = @ \cup {frame}])
    /\ UNCHANGED <<database, session, listener, hub, faults>>

\* The client's answer to a resync: read everything again over REST.
Refetch(s) ==
    /\ conn[s].pc = "live" /\ conn[s].stale
    /\ Move(s, [conn[s] EXCEPT !.known = rows, !.stale = FALSE])
    /\ UNCHANGED <<database, session, listener, hub, faults>>

\* The deferred unsubscribe: pruneRoomLocked if nobody else is there.
Unsubscribe(s) ==
    /\ Without({s})
    /\ Move(s, Gone)
    /\ UNCHANGED <<database, session, listener, faults>>

\* The client goes away, a write or the snapshot fails.
HangUp(s) ==
    /\ conn[s].pc \in {"snapshot", "live"}
    /\ Unsubscribe(s)

\* Mutation: a dropped subscriber's channel stays open.
LeaveDropped(s) ==
    /\ conn[s].pc = "live" /\ s \notin subs /\ conn[s].buffer = <<>>
    /\ UNCHANGED vars

\* A dropped subscriber's channel is closed: once it is drained the socket
\* is closed, and the client is to connect again.
CloseDropped(s) ==
    /\ conn[s].pc = "live" /\ s \notin subs /\ conn[s].buffer = <<>>
    /\ Unsubscribe(s)

\* The replica is killed or shut down, and a new hub starts.
Restart ==
    /\ link' = "down" /\ inbox' = <<>>
    /\ listener' = [Waiting EXCEPT !.pc = "dial"]
    /\ subs' = {} /\ watermark' = Unknown /\ pending' = {}
    /\ conn' = [s \in Subscribers |-> Gone]
    /\ UNCHANGED <<database, losses, faults>>

-----------------------------------------------------------------------------

ListenerStep ==
    \/ Listen \/ GatherRooms \/ ResyncAll \/ NoticeLoss
    \/ HandleNotify \/ ConsumePending \/ Fetch \/ Sweep
    \/ TrackPending \/ DispatchRow \/ RaiseWatermark

ConnectionStep(s) ==
    \/ ReadFloor(s) \/ SetFloor(s) \/ Snapshot(s)
    \/ WriteFrame(s) \/ CloseDropped(s)

Next ==
    \/ \E w \in Writers : Emit(w) \/ Commit(w) \/ Rollback(w)
    \/ ListenerStep \/ QueryFails \/ Lose \/ Restart
    \/ \E s \in Subscribers :
          Subscribe(s) \/ ConnectionStep(s) \/ FloorFails(s) \/ Refetch(s) \/ HangUp(s)

Spec == Init /\ [][Next]_vars

\* The listener and the connections' goroutines keep running; the database
\* can be reached again; a client acts on a resync.
Fairness ==
    /\ WF_vars(ListenerStep)
    /\ \A s \in Subscribers : WF_vars(ConnectionStep(s)) /\ WF_vars(Refetch(s))

FairSpec == Spec /\ Fairness

-----------------------------------------------------------------------------
(***************************************************************************)
(* Properties                                                              *)
(***************************************************************************)

\* A resync is on its way to everyone subscribed, or will be.
ResyncDue == link = "down" \/ listener.pc \in {"dial", "gather", "resync"}

\* The row's notification has not been handled to the end.
UnderWay(e) ==
    \/ e \in Range(inbox) \cup listener.batch
    \/ e = listener.id /\ listener.pc \in {"consume", "fetch", "sweep"}

\* The client's view reflects the row, or will once it has what it was sent.
Reaches(e, c) ==
    \/ e \in c.known \cup Range(c.buffer)
    \/ Resync \in Range(c.buffer) \/ c.stale

\* handleNotify and Run: no committed event is ever silently lost to a live
\* subscriber, whatever the order of commits, sweeps, subscriptions and
\* reconnects: it is known or sent to the client, or still to be delivered,
\* or a resync is.  A row whose own fetch failed is the one exception.
NothingLost ==
    \A s \in subs : conn[s].pc = "live" =>
        \A e \in rows \ skipped :
            Reaches(e, conn[s]) \/ UnderWay(e) \/ ResyncDue

\* Every client that stays connected sees every committed event in the end;
\* one that the hub drops is disconnected, so that it connects again.
EveryoneLearns ==
    \A s \in Subscribers, e \in Ids :
        (Present(s) /\ e \in rows)
            ~> (e \in conn[s].known \/ ~Present(s) \/ e \in skipped)

=============================================================================
