--------------------------- MODULE RoomHubProofs ---------------------------
(***************************************************************************)
(* No committed event is silently lost to a live subscriber: for every     *)
(* number of transactions, web sockets, buffers, lost sessions and failed  *)
(* queries.                                                                *)
(*                                                                         *)
(* What makes it inductive is the hub's bookkeeping: a notification still  *)
(* to be handled counts only while its row is not in pendingNotify, for    *)
(* that is where the listener puts a row just before handing it to         *)
(* everyone subscribed.                                                    *)
(***************************************************************************)
EXTENDS RoomHub, SequenceTheorems, TLAPS

\* No row is committed before it is drawn, or twice.
Fresh ==
    /\ \A e \in rows : e <= drawn
    /\ \A w \in Writers : \A e \in Range(open[w]) : e <= drawn /\ e \notin rows
    /\ \A v, w \in Writers : v # w => Range(open[v]) \cap Range(open[w]) = {}

\* What the listener has in hand.
JobSound ==
    /\ listener.pc \in {"consume", "fetch", "sweep"} => listener.id \in rows
    /\ listener.pc = "sweep" => listener.since \in Nat /\ listener.id > listener.since

\* A row that the job j, or the rest of the inbox in, will still dispatch,
\* when P is pendingNotify.
Owed(e, j, in, P) ==
    \/ e \in Range(in) \ P
    \/ e = j.id /\ \/ j.pc \in {"fetch", "sweep"}
                   \/ j.pc = "consume" /\ e \notin P
                   \/ j.pc \in {"track", "dispatch"} /\ e \in j.batch
    \/ j.pc = "dispatch" /\ e \in FirstOf(j.batch)

Delivery ==
    \A s \in subs : conn[s].pc = "live" =>
        \A e \in rows \ skipped :
            Reaches(e, conn[s]) \/ Owed(e, listener, inbox, pending) \/ ResyncDue

HubInv == TypeOK /\ Fresh /\ JobSound /\ Delivery

-----------------------------------------------------------------------------
(***************************************************************************)
(* Sequences                                                               *)
(***************************************************************************)

LEMMA SeqRange == \A S : \A q \in Seq(S) : Range(q) \subseteq S
BY DEF Range

LEMMA AppendRange ==
    ASSUME NEW S, NEW q \in Seq(S), NEW x \in S
    PROVE  /\ Append(q, x) \in Seq(S)
           /\ Len(Append(q, x)) = Len(q) + 1
           /\ Range(Append(q, x)) = Range(q) \cup {x}
<1>1. /\ Append(q, x) \in Seq(S)
      /\ Len(Append(q, x)) = Len(q) + 1
      /\ \A i \in 1 .. Len(q) : Append(q, x)[i] = q[i]
      /\ Append(q, x)[Len(q) + 1] = x
  BY AppendProperties
<1>2. DOMAIN Append(q, x) = 1 .. Len(q) + 1 /\ DOMAIN q = 1 .. Len(q) /\ Len(q) \in Nat
  BY <1>1
<1>3. QED
  BY <1>1, <1>2 DEF Range

LEMMA ConcatRange ==
    ASSUME NEW S, NEW p \in Seq(S), NEW q \in Seq(S)
    PROVE  p \o q \in Seq(S) /\ Range(p \o q) = Range(p) \cup Range(q)
<1>1. p \o q \in Seq(S) /\ Len(p \o q) = Len(p) + Len(q)
  OBVIOUS
<1>2. \A i \in 1 .. Len(p) : (p \o q)[i] = p[i]
  OBVIOUS
<1>3. \A i \in 1 .. Len(q) : (p \o q)[Len(p) + i] = q[i]
  OBVIOUS
<1>4. /\ DOMAIN (p \o q) = 1 .. Len(p) + Len(q)
      /\ DOMAIN p = 1 .. Len(p) /\ DOMAIN q = 1 .. Len(q)
      /\ Len(p) \in Nat /\ Len(q) \in Nat
  BY <1>1
<1>5. Range(p \o q) \subseteq Range(p) \cup Range(q)
  <2>1. ASSUME NEW i \in 1 .. Len(p) + Len(q)
        PROVE  (p \o q)[i] \in Range(p) \cup Range(q)
    <3>1. CASE i <= Len(p)
      BY <3>1, <1>2, <1>4 DEF Range
    <3>2. CASE i > Len(p)
      <4>1. i - Len(p) \in 1 .. Len(q) /\ i = Len(p) + (i - Len(p))
        BY <3>2, <1>4
      <4>2. (p \o q)[i] = q[i - Len(p)]
        BY <4>1, <1>3
      <4>3. QED
        BY <4>1, <4>2, <1>4 DEF Range
    <3>3. QED
      BY <3>1, <3>2, <1>4
  <2>2. QED
    BY <2>1, <1>4 DEF Range
<1>6. Range(p) \cup Range(q) \subseteq Range(p \o q)
  <2>1. \A i \in 1 .. Len(p) : i \in 1 .. Len(p) + Len(q)
    BY <1>4
  <2>2. \A i \in 1 .. Len(q) : Len(p) + i \in 1 .. Len(p) + Len(q)
    BY <1>4
  <2>3. QED
    BY <2>1, <2>2, <1>2, <1>3, <1>4 DEF Range
<1>7. QED
  BY <1>1, <1>5, <1>6

LEMMA TailRange ==
    ASSUME NEW S, NEW q \in Seq(S), q # <<>>
    PROVE  /\ Head(q) \in S /\ Tail(q) \in Seq(S)
           /\ Len(Tail(q)) <= Len(q)
           /\ Range(q) = {Head(q)} \cup Range(Tail(q))
<1>1. /\ Head(q) = q[1] /\ Head(q) \in S
      /\ Tail(q) \in Seq(S)
      /\ Len(Tail(q)) = Len(q) - 1
      /\ \A i \in 1 .. Len(Tail(q)) : Tail(q)[i] = q[i + 1]
  BY HeadTailProperties
<1>2. /\ DOMAIN q = 1 .. Len(q) /\ DOMAIN Tail(q) = 1 .. Len(q) - 1
      /\ Len(q) \in Nat /\ Len(q) >= 1
  BY <1>1, EmptySeq
<1>3. Range(q) \subseteq {Head(q)} \cup Range(Tail(q))
  <2>1. ASSUME NEW i \in 1 .. Len(q)
        PROVE  q[i] \in {Head(q)} \cup Range(Tail(q))
    <3>1. CASE i = 1
      BY <3>1, <1>1
    <3>2. CASE i # 1
      <4>1. i - 1 \in 1 .. Len(q) - 1 /\ (i - 1) + 1 = i
        BY <3>2, <1>2
      <4>2. Tail(q)[i - 1] = q[i]
        BY <4>1, <1>1
      <4>3. QED
        BY <4>1, <4>2, <1>2 DEF Range
    <3>3. QED
      BY <3>1, <3>2
  <2>2. QED
    BY <2>1, <1>2 DEF Range
<1>4. {Head(q)} \cup Range(Tail(q)) \subseteq Range(q)
  <2>1. \A i \in 1 .. Len(q) - 1 : i + 1 \in 1 .. Len(q) /\ i \in 1 .. Len(Tail(q))
    BY <1>1, <1>2
  <2>2. 1 \in 1 .. Len(q)
    BY <1>2
  <2>3. QED
    BY <2>1, <2>2, <1>1, <1>2 DEF Range
<1>5. QED
  BY <1>1, <1>2, <1>3, <1>4

LEMMA PrefixRange ==
    ASSUME NEW S, NEW q \in Seq(S), NEW n \in 0 .. Len(q)
    PROVE  SubSeq(q, 1, n) \in Seq(S) /\ Range(SubSeq(q, 1, n)) \subseteq Range(q)
<1>1. /\ Len(q) \in Nat /\ DOMAIN q = 1 .. Len(q)
      /\ \A i \in 1 .. n : i \in 1 .. Len(q) /\ q[i] \in S
  OBVIOUS
<1>2. SubSeq(q, 1, n) = [i \in 1 .. n |-> q[i]]
  BY <1>1
<1>3. QED
  BY <1>1, <1>2 DEF Range

-----------------------------------------------------------------------------
(***************************************************************************)
(* The three kinds of step                                                 *)
(***************************************************************************)

\* One web socket moves on.
LEMMA SocketInv ==
    ASSUME HubInv, NEW s \in Subscribers, NEW c \in Connection, Move(s, c),
           UNCHANGED <<database, session, listener, skipped>>,
           failures' \in 0 .. MaxFailures,
           Len(c.buffer) <= BufferSize, c.known \subseteq rows,
           Range(c.buffer) \subseteq rows \cup {Resync},
           subs' \subseteq subs \cup {s}, s \in subs' => c.pc # "out",
           watermark' \in Marks, pending' \subseteq pending,
           s \in subs' /\ c.pc = "live" =>
               \/ c.known = rows
               \/ /\ s \in subs /\ conn[s].pc = "live"
                  /\ \A e \in rows : Reaches(e, conn[s]) => Reaches(e, c)
    PROVE  HubInv'
<1>1. conn' \in [Subscribers -> Connection]
  BY DEF HubInv, TypeOK, Move
<1>2. conn'[s] = c /\ \A t \in Subscribers \ {s} : conn'[t] = conn[t]
  BY DEF HubInv, TypeOK, Move
<1>3. subs' \subseteq {t \in Subscribers : Present(t)'}
  BY <1>2 DEF HubInv, TypeOK, Present
<1>4. TypeOK'
  BY <1>1, <1>2, <1>3 DEF HubInv, TypeOK, database, session
<1>5. Fresh' /\ JobSound'
  BY DEF HubInv, Fresh, JobSound, database, session
<1>6. ASSUME NEW t \in subs', conn'[t].pc = "live", NEW e \in rows' \ skipped'
      PROVE  Reaches(e, conn'[t]) \/ Owed(e, listener', inbox', pending') \/ ResyncDue'
  <2>1. e \in rows /\ e \notin skipped /\ listener' = listener /\ inbox' = inbox
        /\ rows' = rows /\ (ResyncDue' <=> ResyncDue)
    BY DEF database, session, ResyncDue
  <2>2. Owed(e, listener, inbox, pending) => Owed(e, listener', inbox', pending')
    BY <2>1 DEF Owed
  <2>3. CASE t = s /\ c.known = rows
    BY <2>3, <2>1, <1>2 DEF Reaches
  <2>4. CASE t \in subs /\ conn[t].pc = "live" /\ (Reaches(e, conn[t]) => Reaches(e, conn'[t]))
    BY <2>1, <2>2, <2>4 DEF HubInv, Delivery
  <2>5. CASE t = s
    <3>1. conn'[t] = c
      BY <2>5, <1>2
    <3>2. QED
      BY <3>1, <2>1, <2>3, <2>4, <2>5, <1>6
  <2>6. CASE t # s
    <3>1. t \in subs /\ conn'[t] = conn[t]
      BY <2>6, <1>2, <1>6 DEF HubInv, TypeOK
    <3>2. QED
      BY <3>1, <2>4, <1>6
  <2>7. QED
    BY <2>5, <2>6
<1>7. QED
  BY <1>4, <1>5, <1>6 DEF HubInv, Delivery

\* The listener moves on: whoever stays subscribed is still sent what it was
\* to be sent.
LEMMA ListenerInv ==
    ASSUME HubInv, UNCHANGED database,
           link' \in {"up", "down"}, losses' \in 0 .. MaxLosses,
           inbox' \in Seq(Ids), Range(inbox') \subseteq rows,
           listener' \in Listener, listener'.batch \subseteq rows,
           listener'.pc = "dial" => link' = "down",
           subs' \subseteq subs, watermark' \in Marks, pending' \subseteq rows,
           skipped' \subseteq rows, skipped \subseteq skipped',
           failures' \in 0 .. MaxFailures,
           conn' \in [Subscribers -> Connection],
           \A s \in Subscribers : /\ Len(conn'[s].buffer) <= BufferSize
                                  /\ Range(conn'[s].buffer) \subseteq rows \cup {Resync}
                                  /\ conn'[s].pc = conn[s].pc
                                  /\ conn'[s].known = conn[s].known
           , JobSound',
           \A s \in subs' : \A e \in rows \ skipped' :
               conn[s].pc = "live" =>
               /\ Reaches(e, conn[s]) => Reaches(e, conn'[s])
               /\ Owed(e, listener, inbox, pending) \/ ResyncDue =>
                     \/ Reaches(e, conn'[s])
                     \/ Owed(e, listener', inbox', pending')
                     \/ ResyncDue'
    PROVE  HubInv'
<1>1. TypeOK'
  BY DEF HubInv, TypeOK, database, Present
<1>2. Fresh'
  BY DEF HubInv, Fresh, database
<1>3. Delivery'
  <2>1. SUFFICES ASSUME NEW s \in subs', conn'[s].pc = "live", NEW e \in rows' \ skipped'
                 PROVE  \/ Reaches(e, conn'[s])
                        \/ Owed(e, listener', inbox', pending')
                        \/ ResyncDue'
    BY DEF Delivery
  <2>2. s \in subs /\ s \in Subscribers /\ e \in rows \ skipped
    BY DEF database, HubInv, TypeOK
  <2>3. Reaches(e, conn[s]) \/ Owed(e, listener, inbox, pending) \/ ResyncDue
    BY <2>1, <2>2 DEF HubInv, Delivery
  <2>4. QED
    BY <2>1, <2>2, <2>3 DEF database
<1>4. QED
  BY <1>1, <1>2, <1>3 DEF HubInv

-----------------------------------------------------------------------------
(***************************************************************************)
(* Transactions                                                            *)
(***************************************************************************)

LEMMA EmitInv == ASSUME HubInv, NEW w \in Writers, Emit(w) PROVE HubInv'
<1>1. drawn + 1 \in Ids /\ drawn \in Nat /\ drawn' = drawn + 1
  BY RoomHubAssumption DEF Emit, HubInv, TypeOK, Ids
<1>2. open \in [Writers -> Seq(Ids)] /\ \A v \in Writers : open[v] \in Seq(Ids)
  BY DEF HubInv, TypeOK
<1>3. /\ Append(open[w], drawn + 1) \in Seq(Ids)
      /\ Range(Append(open[w], drawn + 1)) = Range(open[w]) \cup {drawn + 1}
  BY <1>1, <1>2, AppendRange
<1>4. /\ open' \in [Writers -> Seq(Ids)]
      /\ open'[w] = Append(open[w], drawn + 1)
      /\ \A v \in Writers \ {w} : open'[v] = open[v]
  BY <1>2, <1>3 DEF Emit
<1>5. TypeOK'
  BY <1>1, <1>4, RoomHubAssumption
     DEF Emit, HubInv, TypeOK, session, hub, faults, Present, Ids
<1>6. Fresh'
  <2>1. \A e \in rows : e \in Int /\ e <= drawn
    <3>1. rows \subseteq Ids
      BY DEF HubInv, TypeOK
    <3>2. QED
      BY <3>1 DEF HubInv, Fresh, Ids
  <2>2. \A v \in Writers : \A e \in Range(open[v]) : e \in Int /\ e <= drawn /\ e \notin rows
    <3>1. \A v \in Writers : Range(open[v]) \subseteq Ids
      BY <1>2, SeqRange
    <3>2. QED
      BY <3>1 DEF HubInv, Fresh, Ids
  <2>3. \A u, v \in Writers : u # v => Range(open[u]) \cap Range(open[v]) = {}
    BY DEF HubInv, Fresh
  <2>4. \A v \in Writers : drawn + 1 \notin Range(open[v])
    BY <2>2, <1>1
  <2>5. drawn + 1 \notin rows
    BY <2>1, <1>1
  <2>6. \A v \in Writers : Range(open'[v]) =
            IF v = w THEN Range(open[v]) \cup {drawn + 1} ELSE Range(open[v])
    BY <1>3, <1>4
  <2>7. \A e \in rows : e <= drawn'
    BY <2>1, <1>1
  <2>8. \A v \in Writers : \A e \in Range(open'[v]) : e <= drawn' /\ e \notin rows
    <3>1. ASSUME NEW v \in Writers, NEW e \in Range(open'[v])
          PROVE  e <= drawn' /\ e \notin rows
      <4>1. CASE e \in Range(open[v])
        BY <4>1, <2>2, <1>1
      <4>2. CASE e = drawn + 1
        BY <4>2, <2>5, <1>1
      <4>3. QED
        BY <4>1, <4>2, <2>6
    <3>2. QED
      BY <3>1
  <2>9. \A u, v \in Writers : u # v => Range(open'[u]) \cap Range(open'[v]) = {}
    BY <2>3, <2>4, <2>6
  <2>10. QED
    BY <2>7, <2>8, <2>9 DEF Fresh, Emit
<1>7. JobSound'
  BY DEF HubInv, JobSound, Emit
<1>8. Delivery'
  BY DEF HubInv, Delivery, Emit, session, hub, faults, ResyncDue
<1>9. QED
  BY <1>5, <1>6, <1>7, <1>8 DEF HubInv

LEMMA CommitInv == ASSUME HubInv, NEW w \in Writers, Commit(w) PROVE HubInv'
<1>1. open \in [Writers -> Seq(Ids)] /\ open[w] \in Seq(Ids) /\ inbox \in Seq(Ids)
      /\ rows \subseteq Ids /\ pending \subseteq rows
  BY DEF HubInv, TypeOK
<1>2. Range(open[w]) \subseteq Ids
  BY <1>1, SeqRange
<1>3. /\ open' \in [Writers -> Seq(Ids)]
      /\ open'[w] = <<>>
      /\ \A v \in Writers \ {w} : open'[v] = open[v]
  BY <1>1 DEF Commit
<1>4. Range(open'[w]) = {}
  BY <1>3 DEF Range
<1>5. /\ inbox' \in Seq(Ids)
      /\ Range(inbox') = IF link = "up" THEN Range(inbox) \cup Range(open[w]) ELSE Range(inbox)
  BY <1>1, ConcatRange DEF Commit
<1>6. rows' = rows \cup Range(open[w])
  BY DEF Commit
<1>7. TypeOK'
  BY <1>2, <1>3, <1>5, <1>6 DEF Commit, HubInv, TypeOK, hub, faults, Present
<1>8. Fresh'
  BY <1>3, <1>4, <1>6 DEF Commit, HubInv, Fresh
<1>9. JobSound'
  BY <1>6 DEF Commit, HubInv, JobSound
<1>10. ASSUME NEW s \in subs, conn[s].pc = "live", NEW e \in rows' \ skipped
       PROVE  Reaches(e, conn[s]) \/ Owed(e, listener, inbox', pending) \/ ResyncDue
  <2>1. CASE e \in rows
    <3>1. Reaches(e, conn[s]) \/ Owed(e, listener, inbox, pending) \/ ResyncDue
      BY <2>1, <1>10 DEF HubInv, Delivery
    <3>2. Owed(e, listener, inbox, pending) => Owed(e, listener, inbox', pending)
      BY <1>5 DEF Owed
    <3>3. QED
      BY <3>1, <3>2
  <2>2. CASE e \notin rows /\ link = "up"
    <3>1. e \in Range(inbox') /\ e \notin pending
      BY <2>2, <1>1, <1>5, <1>6
    <3>2. QED
      BY <3>1 DEF Owed
  <2>3. CASE link # "up"
    BY <2>3 DEF HubInv, TypeOK, ResyncDue
  <2>4. QED
    BY <2>1, <2>2, <2>3
<1>11. Delivery'
  BY <1>10 DEF Delivery, Commit, hub, faults, ResyncDue
<1>12. QED
  BY <1>7, <1>8, <1>9, <1>11 DEF HubInv

LEMMA RollbackInv == ASSUME HubInv, NEW w \in Writers, Rollback(w) PROVE HubInv'
<1>1. /\ open' \in [Writers -> Seq(Ids)]
      /\ open'[w] = <<>>
      /\ \A v \in Writers \ {w} : open'[v] = open[v]
  BY DEF HubInv, TypeOK, Rollback
<1>2. Range(open'[w]) = {}
  BY <1>1 DEF Range
<1>3. TypeOK'
  BY <1>1 DEF Rollback, HubInv, TypeOK, session, hub, faults, Present
<1>4. Fresh'
  BY <1>1, <1>2 DEF Rollback, HubInv, Fresh
<1>5. JobSound' /\ Delivery'
  BY DEF HubInv, JobSound, Delivery, Rollback, session, hub, faults, ResyncDue
<1>6. QED
  BY <1>3, <1>4, <1>5 DEF HubInv

-----------------------------------------------------------------------------
(***************************************************************************)
(* The web sockets                                                         *)
(***************************************************************************)

LEMMA SubscriberFacts ==
    ASSUME HubInv, NEW s \in Subscribers
    PROVE  /\ conn[s] \in Connection
           /\ Len(conn[s].buffer) <= BufferSize /\ conn[s].known \subseteq rows
           /\ Range(conn[s].buffer) \subseteq rows \cup {Resync}
           /\ rows \subseteq Ids /\ subs \subseteq Subscribers
           /\ s \in subs => conn[s].pc # "out"
           /\ failures \in 0 .. MaxFailures /\ watermark \in Marks
BY DEF HubInv, TypeOK, Present

LEMMA GoneType == /\ Gone \in Connection /\ Gone.pc = "out"
                  /\ Gone.buffer = <<>> /\ Len(Gone.buffer) = 0 /\ Gone.known = {}
                  /\ Range(Gone.buffer) = {}
BY DEF Gone, Connection, Range

LEMMA RaisedType ==
    ASSUME watermark \in Marks, NEW floor \in Marks
    PROVE  Raised(floor) \in Marks
BY DEF Raised, Marks

LEMMA WithoutFacts ==
    ASSUME NEW D, Without(D), watermark \in Marks
    PROVE  subs' = subs \ D /\ watermark' \in Marks /\ pending' \subseteq pending
BY DEF Without, Marks

LEMMA SubscribeInv ==
    ASSUME HubInv, NEW s \in Subscribers, Subscribe(s) PROVE HubInv'
<1> DEFINE c == [Gone EXCEPT !.pc = IF subs = {} /\ watermark = Unknown
                                    THEN "readFloor" ELSE "snapshot"]
<1>1. /\ c \in Connection /\ c.pc \in {"readFloor", "snapshot"}
      /\ Len(c.buffer) = 0 /\ c.known = {} /\ Range(c.buffer) = {}
  <2>1. c.pc \in {"readFloor", "snapshot"} /\ c.buffer = Gone.buffer /\ c.known = Gone.known
    BY DEF Gone
  <2>2. c \in Connection
    BY GoneType DEF Connection, Gone
  <2>3. QED
    BY <2>1, <2>2, GoneType
<1>2. Move(s, c) /\ UNCHANGED <<database, session, listener, skipped>>
  BY DEF Subscribe, faults
<1>3. failures' \in 0 .. MaxFailures /\ watermark' \in Marks /\ pending' = pending
      /\ subs' = subs \cup {s}
  BY SubscriberFacts DEF Subscribe, faults
<1> HIDE DEF c
<1>4. Len(c.buffer) <= BufferSize
  BY <1>1, RoomHubAssumption
<1>5. QED
  BY <1>1, <1>2, <1>3, <1>4, SocketInv

LEMMA ReadFloorInv ==
    ASSUME HubInv, NEW s \in Subscribers, ReadFloor(s) PROVE HubInv'
<1>1. PICK max \in rows \cup {0} : Move(s, [conn[s] EXCEPT !.pc = "setFloor", !.floor = max])
  BY DEF ReadFloor
<1> DEFINE c == [conn[s] EXCEPT !.pc = "setFloor", !.floor = max]
<1>2. max \in Nat
  BY SubscriberFacts, RoomHubAssumption DEF Ids
<1>3. c \in Connection /\ c.pc = "setFloor" /\ c.buffer = conn[s].buffer /\ c.known = conn[s].known
  BY <1>2, SubscriberFacts DEF Connection
<1>4. Move(s, c) /\ UNCHANGED <<database, session, listener, skipped>>
  BY <1>1 DEF ReadFloor, faults
<1>5. failures' \in 0 .. MaxFailures /\ watermark' \in Marks /\ pending' = pending /\ subs' = subs
  BY SubscriberFacts DEF ReadFloor, faults, hub
<1> HIDE DEF c
<1>6. QED
  BY <1>3, <1>4, <1>5, SubscriberFacts, SocketInv

LEMMA FloorFailsInv ==
    ASSUME HubInv, NEW s \in Subscribers, FloorFails(s) PROVE HubInv'
<1> DEFINE c == [conn[s] EXCEPT !.pc = "snapshot"]
<1>1. c \in Connection /\ c.pc = "snapshot" /\ c.buffer = conn[s].buffer /\ c.known = conn[s].known
  BY SubscriberFacts DEF Connection
<1>2. Move(s, c) /\ UNCHANGED <<database, session, listener, skipped>>
  BY DEF FloorFails
<1>3. failures' \in 0 .. MaxFailures /\ watermark' \in Marks /\ pending' = pending /\ subs' = subs
  BY SubscriberFacts, RoomHubAssumption DEF FloorFails, hub
<1> HIDE DEF c
<1>4. QED
  BY <1>1, <1>2, <1>3, SubscriberFacts, SocketInv

LEMMA SetFloorInv ==
    ASSUME HubInv, NEW s \in Subscribers, SetFloor(s) PROVE HubInv'
<1> DEFINE c == [conn[s] EXCEPT !.pc = "snapshot"]
<1>1. c \in Connection /\ c.pc = "snapshot" /\ c.buffer = conn[s].buffer /\ c.known = conn[s].known
  BY SubscriberFacts DEF Connection
<1>2. Move(s, c) /\ UNCHANGED <<database, session, listener, skipped>>
  BY DEF SetFloor, faults
<1>3. conn[s].floor \in Marks
  BY SubscriberFacts DEF Connection, Marks
<1>4. failures' \in 0 .. MaxFailures /\ watermark' \in Marks /\ pending' = pending /\ subs' = subs
  BY <1>3, RaisedType, SubscriberFacts DEF SetFloor, faults
<1> HIDE DEF c
<1>5. QED
  BY <1>1, <1>2, <1>4, SubscriberFacts, SocketInv

LEMMA SnapshotInv ==
    ASSUME HubInv, NEW s \in Subscribers, Snapshot(s) PROVE HubInv'
<1> DEFINE c == [conn[s] EXCEPT !.pc = "live", !.known = rows]
<1>1. c \in Connection /\ c.pc = "live" /\ c.buffer = conn[s].buffer /\ c.known = rows
  BY SubscriberFacts DEF Connection
<1>2. Move(s, c) /\ UNCHANGED <<database, session, listener, skipped>>
  BY DEF Snapshot, faults
<1>3. failures' \in 0 .. MaxFailures /\ watermark' \in Marks /\ pending' = pending /\ subs' = subs
  BY SubscriberFacts DEF Snapshot, faults, hub
<1> HIDE DEF c
<1>4. QED
  BY <1>1, <1>2, <1>3, SubscriberFacts, SocketInv

LEMMA RefetchInv ==
    ASSUME HubInv, NEW s \in Subscribers, Refetch(s) PROVE HubInv'
<1> DEFINE c == [conn[s] EXCEPT !.known = rows, !.stale = FALSE]
<1>1. c \in Connection /\ c.pc = "live" /\ c.buffer = conn[s].buffer /\ c.known = rows
  BY SubscriberFacts DEF Connection, Refetch
<1>2. Move(s, c) /\ UNCHANGED <<database, session, listener, skipped>>
  BY DEF Refetch, faults
<1>3. failures' \in 0 .. MaxFailures /\ watermark' \in Marks /\ pending' = pending /\ subs' = subs
  BY SubscriberFacts DEF Refetch, faults, hub
<1> HIDE DEF c
<1>4. QED
  BY <1>1, <1>2, <1>3, SubscriberFacts, SocketInv

\* The client has what the frame said, or owes a refetch.
LEMMA WriteFrameInv ==
    ASSUME HubInv, NEW s \in Subscribers, WriteFrame(s) PROVE HubInv'
<1> DEFINE frame == Head(conn[s].buffer)
           base == [conn[s] EXCEPT !.buffer = Tail(@)]
           c == IF frame = Resync THEN [base EXCEPT !.stale = TRUE]
                                  ELSE [base EXCEPT !.known = @ \cup {frame}]
<1>1. conn[s].pc = "live" /\ conn[s].buffer # <<>> /\ conn[s].buffer \in Seq(Frames)
  BY SubscriberFacts DEF WriteFrame, Connection
<1>2. /\ frame \in Frames /\ Tail(conn[s].buffer) \in Seq(Frames)
      /\ Len(Tail(conn[s].buffer)) <= Len(conn[s].buffer)
      /\ Range(conn[s].buffer) = {frame} \cup Range(Tail(conn[s].buffer))
  BY <1>1, TailRange
<1>3. Move(s, c) /\ UNCHANGED <<database, session, listener, skipped>>
  BY DEF WriteFrame, faults
<1>4. failures' \in 0 .. MaxFailures /\ watermark' \in Marks /\ pending' = pending /\ subs' = subs
  BY SubscriberFacts DEF WriteFrame, faults, hub
<1>5. base \in Connection /\ base.buffer = Tail(conn[s].buffer) /\ base.pc = "live"
      /\ base.known = conn[s].known /\ base.stale = conn[s].stale
  BY <1>1, <1>2, SubscriberFacts DEF Connection
<1> HIDE DEF base, frame
<1>6. CASE frame = Resync
  <2>1. /\ c \in Connection /\ c.pc = "live" /\ c.buffer = Tail(conn[s].buffer)
        /\ c.known = conn[s].known /\ c.stale
    BY <1>5, <1>6 DEF Connection
  <2> HIDE DEF c
  <2>2. \A e \in rows : Reaches(e, conn[s]) => Reaches(e, c)
    BY <2>1 DEF Reaches
  <2>3. /\ Len(c.buffer) <= BufferSize /\ c.known \subseteq rows
        /\ Range(c.buffer) \subseteq rows \cup {Resync}
    BY <2>1, <1>2, SubscriberFacts, RoomHubAssumption, LenProperties
  <2>4. QED
    BY <2>1, <2>2, <2>3, <1>1, <1>3, <1>4, SocketInv
<1>7. CASE frame # Resync
  <2>1. frame \in rows
    BY <1>2, <1>7, SubscriberFacts
  <2>2. /\ c \in Connection /\ c.pc = "live" /\ c.buffer = Tail(conn[s].buffer)
        /\ c.known = conn[s].known \cup {frame} /\ c.stale = conn[s].stale
    BY <2>1, <1>5, <1>7, SubscriberFacts DEF Connection
  <2> HIDE DEF c
  <2>3. \A e \in rows : Reaches(e, conn[s]) => Reaches(e, c)
    BY <2>2, <1>2, <1>7 DEF Reaches
  <2>4. /\ Len(c.buffer) <= BufferSize /\ c.known \subseteq rows
        /\ Range(c.buffer) \subseteq rows \cup {Resync}
    BY <2>1, <2>2, <1>2, SubscriberFacts, RoomHubAssumption, LenProperties
  <2>5. QED
    BY <2>2, <2>3, <2>4, <1>1, <1>3, <1>4, SocketInv
<1>8. QED
  BY <1>6, <1>7

LEMMA UnsubscribeInv ==
    ASSUME HubInv, NEW s \in Subscribers, Unsubscribe(s) PROVE HubInv'
<1>1. Move(s, Gone) /\ UNCHANGED <<database, session, listener, skipped>>
      /\ failures' \in 0 .. MaxFailures
  BY SubscriberFacts DEF Unsubscribe, faults
<1>2. subs' = subs \ {s} /\ watermark' \in Marks /\ pending' \subseteq pending
  BY WithoutFacts, SubscriberFacts DEF Unsubscribe
<1>3. Len(Gone.buffer) <= BufferSize
  BY GoneType, RoomHubAssumption
<1>4. QED
  BY <1>1, <1>2, <1>3, GoneType, SocketInv

-----------------------------------------------------------------------------
(***************************************************************************)
(* The listener                                                            *)
(***************************************************************************)

LEMMA ListenerFacts ==
    ASSUME HubInv
    PROVE  /\ listener \in Listener /\ listener.batch \subseteq rows
           /\ listener.pc = "dial" => link = "down"
           /\ inbox \in Seq(Ids) /\ Range(inbox) \subseteq rows
           /\ rows \subseteq Ids /\ pending \subseteq rows /\ skipped \subseteq rows
           /\ link \in {"up", "down"} /\ watermark \in Marks
           /\ losses \in 0 .. MaxLosses /\ failures \in 0 .. MaxFailures
           /\ conn \in [Subscribers -> Connection]
           /\ subs \subseteq Subscribers
           /\ \A s \in Subscribers : /\ Len(conn[s].buffer) <= BufferSize
                                     /\ Range(conn[s].buffer) \subseteq rows \cup {Resync}
BY DEF HubInv, TypeOK

LEMMA WaitingType == /\ Waiting \in Listener /\ Waiting.pc = "wait" /\ Waiting.batch = {}
                     /\ Waiting.id = 0 /\ Waiting.floor = Unknown /\ Waiting.since = Unknown
BY DEF Waiting, Listener, Marks

LEMMA ListenInv == ASSUME HubInv, Listen PROVE HubInv'
<1>1. /\ listener' \in Listener /\ listener'.pc = "gather"
      /\ listener'.batch \subseteq rows
  BY ListenerFacts DEF Listen, Listener
<1>2. JobSound' /\ ResyncDue'
  BY <1>1 DEF JobSound, ResyncDue
<1>3. QED
  BY <1>1, <1>2, ListenerFacts, ListenerInv DEF Listen, database, faults

LEMMA GatherRoomsInv == ASSUME HubInv, GatherRooms PROVE HubInv'
<1>1. /\ listener' \in Listener /\ listener'.pc = IF subs = {} THEN "wait" ELSE "resync"
      /\ listener'.batch \subseteq rows
  BY ListenerFacts DEF GatherRooms, Listener
<1>2. JobSound' /\ (subs # {} => ResyncDue')
  BY <1>1 DEF JobSound, ResyncDue
<1>3. QED
  BY <1>1, <1>2, ListenerFacts, ListenerInv DEF GatherRooms, database, session, hub, faults

LEMMA LoseInv == ASSUME HubInv, Lose PROVE HubInv'
<1>1. inbox' \in Seq(Ids) /\ Range(inbox') \subseteq rows
  BY ListenerFacts, PrefixRange DEF Lose
<1>2. losses' \in 0 .. MaxLosses
  BY ListenerFacts, RoomHubAssumption DEF Lose
<1>3. JobSound' /\ ResyncDue'
  BY DEF HubInv, JobSound, ResyncDue, Lose, database
<1>4. QED
  BY <1>1, <1>2, <1>3, ListenerFacts, ListenerInv DEF Lose, hub, faults

LEMMA NoticeLossInv == ASSUME HubInv, NoticeLoss PROVE HubInv'
<1>1. listener' \in Listener /\ listener'.pc = "dial" /\ listener'.batch = {}
  BY WaitingType DEF NoticeLoss, Listener, Waiting
<1>2. JobSound' /\ ResyncDue'
  BY <1>1 DEF JobSound, ResyncDue
<1>3. QED
  BY <1>1, <1>2, ListenerFacts, ListenerInv DEF NoticeLoss, session, hub, faults

\* The notified row is the listener's now, unless nobody is there.
LEMMA HandleNotifyInv == ASSUME HubInv, HandleNotify PROVE HubInv'
<1> DEFINE id == Head(inbox)
<1>1. /\ id \in Ids /\ inbox' \in Seq(Ids) /\ inbox' = Tail(inbox)
      /\ Range(inbox) = {id} \cup Range(inbox')
  BY TailRange, ListenerFacts DEF HandleNotify
<1>2. id \in rows /\ Range(inbox') \subseteq rows
  BY <1>1, ListenerFacts
<1>3. /\ listener' \in Listener /\ listener'.id = id /\ listener'.batch = {}
      /\ listener'.pc \in {"raise", "fetch", "consume", "sweep"}
      /\ listener'.pc = "raise" => subs = {}
      /\ listener'.pc = "sweep" => listener'.since \in Nat /\ id > listener'.since
  <2> DEFINE job == [Waiting EXCEPT !.id = id]
  <2>1. /\ job \in Listener /\ job.id = id /\ job.batch = {}
    BY <1>1, WaitingType DEF Listener, Waiting
  <2>2. id \in Marks /\ watermark \in Marks /\ id \in Nat
    BY <1>1, ListenerFacts DEF Marks, Ids
  <2> HIDE DEF id
  <2>3. CASE subs = {}
    BY <2>1, <2>2, <2>3 DEF HandleNotify, Listener, Waiting, id
  <2>4. CASE subs # {} /\ watermark = Unknown
    BY <2>1, <2>2, <2>4 DEF HandleNotify, Listener, Waiting, id
  <2>5. CASE subs # {} /\ watermark # Unknown /\ id <= watermark
    BY <2>1, <2>2, <2>5 DEF HandleNotify, Listener, Waiting, id
  <2>6. CASE subs # {} /\ watermark # Unknown /\ ~(id <= watermark)
    <3>1. listener' = [job EXCEPT !.pc = "sweep", !.since = watermark]
      BY <2>6 DEF HandleNotify, id
    <3>2. watermark \in Nat /\ id > watermark
      BY <2>2, <2>6 DEF Marks
    <3>3. QED
      BY <2>1, <2>2, <2>6, <3>1, <3>2 DEF Listener, Waiting
  <2>7. QED
    BY <2>3, <2>4, <2>5, <2>6
<1>4. JobSound'
  BY <1>2, <1>3 DEF JobSound, HandleNotify, database
<1>5. ASSUME NEW e \in rows, subs # {}, Owed(e, listener, inbox, pending) \/ ResyncDue
      PROVE  Owed(e, listener', inbox', pending') \/ ResyncDue'
  <2>1. listener.pc = "wait" /\ pending' = pending /\ link' = link
    BY DEF HandleNotify, hub
  <2>2. CASE e \in Range(inbox) \ pending
    BY <2>1, <2>2, <1>1, <1>3, <1>5 DEF Owed
  <2>3. CASE link = "down"
    BY <2>1, <2>3 DEF ResyncDue
  <2>4. QED
    BY <2>1, <2>2, <2>3, <1>5 DEF Owed, ResyncDue
<1> HIDE DEF id
<1>6. QED
  BY <1>1, <1>2, <1>3, <1>4, <1>5, ListenerFacts, ListenerInv
     DEF HandleNotify, database, hub, faults

LEMMA ConsumePendingInv == ASSUME HubInv, ConsumePending PROVE HubInv'
<1>1. /\ listener' \in Listener /\ listener'.batch \subseteq rows
      /\ listener'.pc \in {"wait", "fetch"}
      /\ listener'.pc = "wait" => listener.id \in pending
      /\ listener'.pc = "fetch" => listener.id \notin pending /\ listener'.id = listener.id
  <2>1. CASE listener.id \in pending
    <3>1. listener' = Waiting
      BY <2>1 DEF ConsumePending
    <3>2. QED
      BY <2>1, <3>1, WaitingType
  <2>2. CASE listener.id \notin pending
    <3>1. listener' = [listener EXCEPT !.pc = "fetch"]
      BY <2>2 DEF ConsumePending
    <3>2. QED
      BY <2>2, <3>1, ListenerFacts DEF Listener
  <2>3. QED
    BY <2>1, <2>2
<1>2. listener.pc = "consume" /\ pending' = pending \ {listener.id} /\ UNCHANGED <<database, session>>
  BY DEF ConsumePending
<1>3. JobSound'
  BY <1>1, <1>2 DEF HubInv, JobSound, database
<1>4. ASSUME NEW e \in rows, Owed(e, listener, inbox, pending) \/ ResyncDue
      PROVE  Owed(e, listener', inbox', pending') \/ ResyncDue'
  <2>1. CASE e \in Range(inbox) \ pending
    BY <1>2, <2>1 DEF Owed, session
  <2>2. CASE e = listener.id /\ e \notin pending
    BY <1>1, <2>2 DEF Owed
  <2>3. CASE link = "down"
    BY <1>2, <2>3 DEF ResyncDue, session
  <2>4. QED
    BY <1>2, <2>1, <2>2, <2>3, <1>4 DEF Owed, ResyncDue
<1>5. pending' \subseteq rows
  BY <1>2, ListenerFacts
<1>6. QED
  BY <1>1, <1>2, <1>3, <1>4, <1>5, ListenerFacts, ListenerInv
     DEF ConsumePending, database, session, faults

\* A query hands its rows to the listener, the notified one among them.
LEMMA QueryInv ==
    ASSUME HubInv, NEW B \in SUBSET rows, NEW next \in {"track", "dispatch"},
           listener.pc \in {"fetch", "sweep"}, listener.id \in B,
           listener' = [listener EXCEPT !.pc = next, !.batch = B],
           UNCHANGED <<database, session, hub, conn, faults>>
    PROVE  HubInv'
<1>1. /\ listener' \in Listener /\ listener'.pc = next /\ listener'.batch = B
      /\ listener'.id = listener.id
  BY ListenerFacts DEF Listener
<1>2. JobSound'
  BY <1>1 DEF JobSound
<1>3. ASSUME NEW e \in rows, Owed(e, listener, inbox, pending) \/ ResyncDue
      PROVE  Owed(e, listener', inbox', pending') \/ ResyncDue'
  BY <1>1, <1>3 DEF Owed, ResyncDue, session, hub
<1>4. QED
  BY <1>1, <1>2, <1>3, ListenerFacts, ListenerInv DEF database, session, hub, faults

LEMMA FetchInv == ASSUME HubInv, Fetch PROVE HubInv'
<1>1. listener.id \in rows
  BY DEF HubInv, JobSound, Fetch
<1>2. QED
  BY <1>1, QueryInv DEF Fetch

LEMMA SweepInv == ASSUME HubInv, Sweep PROVE HubInv'
<1> DEFINE B == {e \in rows : e > listener.since}
<1>1. listener.id \in B
  BY DEF HubInv, JobSound, Sweep
<1>2. QED
  BY <1>1, QueryInv DEF Sweep

LEMMA TrackPendingInv == ASSUME HubInv, TrackPending PROVE HubInv'
<1>1. PICK e \in FirstOf(listener.batch) :
          /\ pending' = pending \cup ({e} \ {listener.id})
          /\ listener' = [listener EXCEPT !.pc = "dispatch", !.floor = e]
  BY DEF TrackPending
<1>2. e \in listener.batch /\ e \in rows /\ e \in Marks
  BY ListenerFacts DEF FirstOf, Marks, Ids
<1>3. /\ listener' \in Listener /\ listener'.pc = "dispatch"
      /\ listener'.batch = listener.batch /\ listener'.id = listener.id
  BY <1>1, <1>2, ListenerFacts DEF Listener
<1>4. JobSound'
  BY <1>3 DEF JobSound
<1>5. ASSUME NEW f \in rows, Owed(f, listener, inbox, pending) \/ ResyncDue
      PROVE  Owed(f, listener', inbox', pending') \/ ResyncDue'
  <2>1. listener.pc = "track" /\ inbox' = inbox /\ link' = link
    BY DEF TrackPending, session
  <2>2. CASE f = e
    BY <2>2, <1>3 DEF Owed
  <2>3. CASE f # e
    BY <2>1, <2>3, <1>1, <1>3, <1>5 DEF Owed, ResyncDue
  <2>4. QED
    BY <2>2, <2>3
<1>6. pending' \subseteq rows
  BY <1>1, <1>2, ListenerFacts
<1>7. QED
  BY <1>3, <1>4, <1>5, <1>6, ListenerFacts, ListenerInv
     DEF TrackPending, database, session, faults

LEMMA RaiseWatermarkInv == ASSUME HubInv, RaiseWatermark PROVE HubInv'
<1>1. watermark' \in Marks
  BY RaisedType, ListenerFacts DEF RaiseWatermark, Listener
<1>2. listener' = Waiting
  BY DEF RaiseWatermark
<1>3. JobSound'
  BY <1>2, WaitingType DEF JobSound
<1>4. ASSUME NEW e \in rows, Owed(e, listener, inbox, pending) \/ ResyncDue
      PROVE  Owed(e, listener', inbox', pending') \/ ResyncDue'
  BY <1>4 DEF Owed, ResyncDue, RaiseWatermark, session
<1>5. QED
  BY <1>1, <1>2, <1>3, <1>4, WaitingType, ListenerFacts, ListenerInv
     DEF RaiseWatermark, database, session, faults

\* Of the rows that are not fetched only the notified one has no
\* notification left.
LEMMA QueryFailsInv == ASSUME HubInv, QueryFails PROVE HubInv'
<1>1. /\ listener' \in Listener /\ listener'.pc = "raise" /\ listener'.batch = {}
      /\ listener'.id = listener.id
  BY ListenerFacts DEF QueryFails, Listener
<1>2. JobSound'
  BY <1>1 DEF JobSound
<1>3. /\ failures' \in 0 .. MaxFailures
      /\ skipped \subseteq skipped' /\ skipped' \subseteq rows
  BY ListenerFacts, RoomHubAssumption DEF QueryFails, HubInv, JobSound
<1>4. ASSUME NEW e \in rows \ skipped', Owed(e, listener, inbox, pending) \/ ResyncDue
      PROVE  Owed(e, listener', inbox', pending') \/ ResyncDue'
  <2>1. /\ listener.pc \in {"fetch", "sweep", "track"}
        /\ inbox' = inbox /\ pending' = pending /\ link' = link
        /\ skipped' = IF listener.pc # "track" \/ listener.id \in listener.batch
                      THEN skipped \cup {listener.id} ELSE skipped
    BY DEF QueryFails, session, hub
  <2>2. CASE e = listener.id
    BY <2>1, <2>2, <1>4 DEF Owed, ResyncDue
  <2>3. CASE e # listener.id
    BY <2>1, <2>3, <1>4 DEF Owed, ResyncDue
  <2>4. QED
    BY <2>2, <2>3
<1>5. QED
  BY <1>1, <1>2, <1>3, <1>4, ListenerFacts, ListenerInv
     DEF QueryFails, database, session, hub

-----------------------------------------------------------------------------
(***************************************************************************)
(* Dispatching                                                             *)
(***************************************************************************)

\* dispatchLocal: whoever is still subscribed has the frame.
LEMMA Dispatched ==
    ASSUME HubInv, NEW frame \in rows \cup {Resync}, Dispatch(frame)
    PROVE  /\ subs' \subseteq subs /\ watermark' \in Marks /\ pending' \subseteq pending
           /\ conn' \in [Subscribers -> Connection]
           /\ \A s \in Subscribers :
                 /\ Len(conn'[s].buffer) <= BufferSize
                 /\ Range(conn'[s].buffer) \subseteq rows \cup {Resync}
                 /\ conn'[s].pc = conn[s].pc
                 /\ conn'[s].known = conn[s].known
                 /\ conn'[s].stale = conn[s].stale
                 /\ Range(conn[s].buffer) \subseteq Range(conn'[s].buffer)
                 /\ s \in subs' => frame \in Range(conn'[s].buffer)
<1> DEFINE full == {s \in subs : Len(conn[s].buffer) = BufferSize}
<1>1. subs' = subs \ full /\ watermark' \in Marks /\ pending' \subseteq pending
  BY WithoutFacts, ListenerFacts DEF Dispatch
<1>2. frame \in Frames
  BY ListenerFacts DEF Frames
<1>3. ASSUME NEW s \in Subscribers
      PROVE  /\ conn'[s] \in Connection
             /\ Len(conn'[s].buffer) <= BufferSize
             /\ Range(conn'[s].buffer) \subseteq rows \cup {Resync}
             /\ conn'[s].pc = conn[s].pc
             /\ conn'[s].known = conn[s].known
             /\ conn'[s].stale = conn[s].stale
             /\ Range(conn[s].buffer) \subseteq Range(conn'[s].buffer)
             /\ s \in subs' => frame \in Range(conn'[s].buffer)
  <2>1. /\ conn[s] \in Connection /\ conn[s].buffer \in Seq(Frames)
        /\ Len(conn[s].buffer) <= BufferSize
        /\ Range(conn[s].buffer) \subseteq rows \cup {Resync}
    BY ListenerFacts DEF Connection
  <2>2. CASE s \in subs \ full
    <3>1. conn'[s] = [conn[s] EXCEPT !.buffer = Append(@, frame)]
      BY <2>2 DEF Dispatch
    <3>2. /\ Append(conn[s].buffer, frame) \in Seq(Frames)
          /\ Len(Append(conn[s].buffer, frame)) = Len(conn[s].buffer) + 1
          /\ Range(Append(conn[s].buffer, frame)) = Range(conn[s].buffer) \cup {frame}
      BY <1>2, <2>1, AppendRange
    <3>3. /\ conn'[s] \in Connection
          /\ conn'[s].buffer = Append(conn[s].buffer, frame)
          /\ conn'[s].pc = conn[s].pc
          /\ conn'[s].known = conn[s].known
          /\ conn'[s].stale = conn[s].stale
      BY <2>1, <3>1, <3>2 DEF Connection
    <3>4. Len(conn[s].buffer) \in Nat /\ Len(conn[s].buffer) # BufferSize
      BY <2>1, <2>2, LenProperties
    <3>5. Len(conn'[s].buffer) <= BufferSize
      BY <2>1, <3>2, <3>3, <3>4, RoomHubAssumption
    <3>6. QED
      BY <2>1, <3>2, <3>3, <3>5
  <2>3. CASE s \notin subs \ full
    <3>1. conn'[s] = conn[s] /\ s \notin subs'
      BY <1>1, <2>3 DEF Dispatch
    <3>2. QED
      BY <2>1, <3>1
  <2>4. QED
    BY <2>2, <2>3
<1>4. conn' = [s \in Subscribers |-> conn'[s]]
  BY DEF Dispatch
<1>5. conn' \in [Subscribers -> Connection]
  BY <1>3, <1>4
<1>6. QED
  BY <1>1, <1>3, <1>5

LEMMA ResyncAllInv == ASSUME HubInv, ResyncAll PROVE HubInv'
<1>1. /\ subs' \subseteq subs /\ watermark' \in Marks /\ pending' \subseteq pending
      /\ conn' \in [Subscribers -> Connection]
      /\ \A s \in Subscribers :
            /\ Len(conn'[s].buffer) <= BufferSize
            /\ Range(conn'[s].buffer) \subseteq rows \cup {Resync}
            /\ conn'[s].pc = conn[s].pc
            /\ conn'[s].known = conn[s].known
            /\ s \in subs' => Resync \in Range(conn'[s].buffer)
  BY Dispatched DEF ResyncAll
<1>2. \A s \in subs' : \A e \in rows : Reaches(e, conn'[s])
  BY <1>1, ListenerFacts DEF Reaches
<1>3. listener' = Waiting /\ JobSound'
  BY WaitingType DEF ResyncAll, JobSound
<1>4. pending' \subseteq rows
  BY <1>1, ListenerFacts
<1>5. QED
  BY <1>1, <1>2, <1>3, <1>4, WaitingType, ListenerFacts, ListenerInv
     DEF ResyncAll, database, session, faults

LEMMA DispatchRowInv == ASSUME HubInv, DispatchRow PROVE HubInv'
<1>1. PICK e \in FirstOf(listener.batch) :
          /\ Dispatch(e)
          /\ listener' = [listener EXCEPT
                            !.batch = @ \ {e},
                            !.pc = IF listener.batch = {e} THEN "raise" ELSE "track"]
  BY DEF DispatchRow
<1>2. e \in listener.batch /\ e \in rows /\ \A f \in listener.batch : e <= f
  BY ListenerFacts DEF FirstOf
<1>3. /\ subs' \subseteq subs /\ watermark' \in Marks /\ pending' \subseteq pending
      /\ conn' \in [Subscribers -> Connection]
      /\ \A s \in Subscribers :
            /\ Len(conn'[s].buffer) <= BufferSize
            /\ Range(conn'[s].buffer) \subseteq rows \cup {Resync}
            /\ conn'[s].pc = conn[s].pc
            /\ conn'[s].known = conn[s].known
            /\ conn'[s].stale = conn[s].stale
            /\ Range(conn[s].buffer) \subseteq Range(conn'[s].buffer)
            /\ s \in subs' => e \in Range(conn'[s].buffer)
  BY <1>1, <1>2, Dispatched
<1>4. /\ listener' \in Listener /\ listener'.batch = listener.batch \ {e}
      /\ listener'.id = listener.id
      /\ listener'.pc = IF listener.batch = {e} THEN "raise" ELSE "track"
  BY <1>1, ListenerFacts DEF Listener
<1>5. JobSound'
  BY <1>4 DEF JobSound
<1>6. \A f \in FirstOf(listener.batch) : f = e
  <2>1. \A f \in listener.batch : f \in Int
    BY ListenerFacts DEF Ids
  <2>2. QED
    BY <1>2, <2>1 DEF FirstOf
<1>7. ASSUME NEW s \in subs', NEW f \in rows
      PROVE  /\ Reaches(f, conn[s]) => Reaches(f, conn'[s])
             /\ Owed(f, listener, inbox, pending) \/ ResyncDue =>
                   \/ Reaches(f, conn'[s])
                   \/ Owed(f, listener', inbox', pending')
                   \/ ResyncDue'
  <2>1. s \in Subscribers
    BY <1>3, ListenerFacts
  <2>2. Reaches(f, conn[s]) => Reaches(f, conn'[s])
    BY <1>3, <2>1 DEF Reaches
  <2>3. listener.pc = "dispatch" /\ inbox' = inbox /\ link' = link
    BY DEF DispatchRow, session
  <2>4. CASE f = e
    BY <1>3, <2>1, <2>2, <2>4 DEF Reaches
  <2>5. CASE f # e
    BY <1>3, <1>4, <1>6, <2>2, <2>3, <2>5 DEF Owed, ResyncDue
  <2>6. QED
    BY <2>4, <2>5
<1>8. pending' \subseteq rows
  BY <1>3, ListenerFacts
<1>9. QED
  BY <1>3, <1>4, <1>5, <1>7, <1>8, ListenerFacts, ListenerInv
     DEF DispatchRow, database, session, faults

-----------------------------------------------------------------------------
(***************************************************************************)
(* The theorems                                                            *)
(***************************************************************************)

LEMMA RestartInv == ASSUME HubInv, Restart PROVE HubInv'
<1>1. listener' \in Listener /\ listener'.pc = "dial" /\ listener'.batch = {}
  BY WaitingType DEF Restart, Listener, Waiting
<1>2. conn' = [s \in Subscribers |-> Gone] /\ subs' = {} /\ inbox' = <<>>
      /\ watermark' = Unknown /\ pending' = {} /\ link' = "down"
  BY DEF Restart
<1>3. Range(<<>>) = {} /\ <<>> \in Seq(Ids)
  BY DEF Range
<1>4. TypeOK'
  <2>1. conn' \in [Subscribers -> Connection]
    BY <1>2, GoneType
  <2>2. \A s \in Subscribers : /\ Len(conn'[s].buffer) <= BufferSize
                               /\ Range(conn'[s].buffer) \subseteq rows \cup {Resync}
                               /\ conn'[s].known \subseteq rows
    BY <1>2, GoneType, RoomHubAssumption
  <2>3. QED
    BY <1>1, <1>2, <1>3, <2>1, <2>2 DEF Restart, HubInv, TypeOK, database, faults, Marks
<1>5. Fresh' /\ JobSound' /\ Delivery'
  BY <1>1, <1>2 DEF Restart, HubInv, Fresh, JobSound, Delivery, database
<1>6. QED
  BY <1>4, <1>5 DEF HubInv

LEMMA InitInv == Init => HubInv
<1> SUFFICES ASSUME Init PROVE HubInv
  OBVIOUS
<1>2. listener \in Listener /\ listener.pc = "dial" /\ listener.batch = {}
  BY WaitingType DEF Init, Listener, Waiting
<1>3. Range(<<>>) = {} /\ <<>> \in Seq(Ids)
  BY DEF Range
<1>4. \A s \in Subscribers : conn[s] = Gone
  BY DEF Init
<1>5. TypeOK
  <2>1. conn \in [Subscribers -> Connection]
    BY GoneType DEF Init
  <2>2. \A s \in Subscribers : /\ Len(conn[s].buffer) <= BufferSize
                               /\ Range(conn[s].buffer) \subseteq rows \cup {Resync}
                               /\ conn[s].known \subseteq rows
    BY <1>4, GoneType, RoomHubAssumption
  <2>3. QED
    BY <1>2, <1>3, <2>1, <2>2, RoomHubAssumption DEF Init, TypeOK, Marks
<1>6. Fresh
  BY <1>3 DEF Init, Fresh
<1>7. JobSound /\ Delivery
  BY <1>2 DEF Init, JobSound, Delivery
<1>8. QED
  BY <1>5, <1>6, <1>7 DEF HubInv

LEMMA NextInv == HubInv /\ [Next]_vars => HubInv'
<1> SUFFICES ASSUME HubInv, [Next]_vars PROVE HubInv'
  OBVIOUS
<1>2. CASE \E w \in Writers : Emit(w) \/ Commit(w) \/ Rollback(w)
  BY <1>2, EmitInv, CommitInv, RollbackInv
<1>3. CASE ListenerStep
  BY <1>3, ListenInv, GatherRoomsInv, ResyncAllInv, NoticeLossInv, HandleNotifyInv,
     ConsumePendingInv, FetchInv, SweepInv, TrackPendingInv, DispatchRowInv,
     RaiseWatermarkInv DEF ListenerStep
<1>4. CASE QueryFails \/ Lose \/ Restart
  BY <1>4, QueryFailsInv, LoseInv, RestartInv
<1>5. ASSUME NEW s \in Subscribers,
             Subscribe(s) \/ ConnectionStep(s) \/ FloorFails(s) \/ Refetch(s) \/ HangUp(s)
      PROVE  HubInv'
  BY <1>5, SubscribeInv, ReadFloorInv, SetFloorInv, SnapshotInv, WriteFrameInv,
     FloorFailsInv, RefetchInv, UnsubscribeInv DEF ConnectionStep, CloseDropped, HangUp
<1>6. CASE UNCHANGED vars
  BY <1>6 DEF vars, HubInv, TypeOK, Present, Fresh, JobSound, Delivery, ResyncDue
<1>7. QED
  BY <1>2, <1>3, <1>4, <1>5, <1>6 DEF Next

\* What the invariant is for.
LEMMA DeliveryLosesNothing == HubInv => NothingLost
BY DEF HubInv, Delivery, NothingLost, Owed, UnderWay, FirstOf

\* The room's state is well typed: notifications, watermark bookkeeping and
\* frames only ever name committed rows, and no buffer overflows.
THEOREM HubTypeCorrect == Spec => []TypeOK
<1>1. HubInv => TypeOK
  BY DEF HubInv
<1>2. QED
  BY <1>1, InitInv, NextInv, PTL DEF Spec

\* No committed event is silently lost to a live subscriber, for every
\* number of writers and sockets, however sessions and queries fail.
THEOREM NothingSilentlyLost == Spec => []NothingLost
<1>1. QED
  BY InitInv, NextInv, DeliveryLosesNothing, PTL DEF Spec

=============================================================================
