-------------------------- MODULE JobEvents_proofs --------------------------
(***************************************************************************)
(* Proofs about JobEvents, for any number of jobs, streams, row writes and  *)
(* notifications under way.                                                 *)
(***************************************************************************)
EXTENDS JobEvents, TLAPS

\* No notification is newer than its row, under way or delivered.
NothingFromTheFuture ==
  /\ \A i \in 1..Len(inbox) : inbox[i][2] <= version[inbox[i][1]]
  /\ \A s \in Stream : delivered[s] <= version[JobOf[s]]

\* An event belongs to one job: a stream waits on one of its own job, and only a stream
\* that waits on one has had something delivered.
EventsFit ==
  /\ \A s \in Stream : event[s] # NoEvent => JobOf[event[s]] = JobOf[s]
  /\ \A j \in Job : registered[j] # NoEvent => JobOf[registered[j]] = j
  /\ \A s \in Stream : delivered[s] # 0 => event[s] # NoEvent
  /\ \A s \in Stream : pc[s] = "woken" => event[s] # NoEvent

\* Two streams of one job are never in their try blocks together without both being
\* known to share.
SharingKnown ==
  \A s, t \in Stream :
    s # t /\ pc[s] \in Subscribed /\ pc[t] \in Subscribed /\ JobOf[s] = JobOf[t] => s \in shared

EventsInv == EventsTypeOK /\ NothingFromTheFuture /\ EventsFit /\ SharingKnown /\ PushKept

\* The statements keep the type of a row.
LEMMA RowTypes ==
  ASSUME NEW r \in Row
  PROVE  /\ ResetRunning(r) \in Row /\ TouchProgress(r) \in Row /\ MarkCompleted(r) \in Row
         /\ MarkFailed(r) \in Row /\ MarkRetry(r) \in Row /\ NoRow \in Row
         /\ MarkCancelled(r, JobOwner, JobOwner) \in Row
         /\ r.status \in Status
BY DEF Row, Status, RetryTime, Write, NoRow, ResetRunning, TouchProgress, MarkCompleted,
   MarkFailed, MarkRetry, MarkCancelled

\* What a stream reads is a row's etag.
LEMMA SeenTypes ==
  ASSUME EventsTypeOK
  PROVE  Unseen \in Seen /\ \A j \in Job : RowNow(j) \in Seen /\ RowNow(j).version = version[j]
BY RowTypes DEF EventsTypeOK, Seen, Unseen, RowNow, Status

\* A row write leaves the streams alone; versions only grow, and what is sent is the
\* newest one.
LEMMA RowWriteStep ==
  ASSUME EventsInv, NEW j \in Job, NEW row \in Row, NEW hit \in BOOLEAN, held' \subseteq Job,
         WriteRow(j, row, hit),
         \/ inbox' = inbox
         \/ inbox' = Append(inbox, << j, version'[j] >>)
  PROVE  EventsInv'
<1> USE DEF EventsInv
<1>1. version' \in [Job -> Nat] /\ \A k \in Job : version[k] <= version'[k]
  BY DEF WriteRow, EventsTypeOK
<1>2. inbox' \in Seq(Job \X Nat)
  <2>1. << j, version'[j] >> \in Job \X Nat
    BY <1>1
  <2>2. inbox \in Seq(Job \X Nat)
    BY DEF EventsTypeOK
  <2>3. Append(inbox, << j, version'[j] >>) \in Seq(Job \X Nat)
    BY <2>1, <2>2
  <2>4. QED BY <2>2, <2>3
<1>3. EventsTypeOK'
  BY <1>1, <1>2 DEF WriteRow, EventsTypeOK
<1>4. NothingFromTheFuture'
  <2>1. \A i \in 1..Len(inbox) : inbox[i] \in Job \X Nat /\ inbox[i][2] <= version'[inbox[i][1]]
    BY <1>1, SMTT(30) DEF EventsTypeOK, NothingFromTheFuture
  <2>2. \A i \in 1..Len(inbox') : inbox'[i][2] <= version'[inbox'[i][1]]
    <3>1. CASE inbox' = inbox
      BY <2>1, <3>1
    <3>2. CASE inbox' = Append(inbox, << j, version'[j] >>)
      BY <1>1, <2>1, <3>2 DEF EventsTypeOK
    <3>3. QED BY <3>1, <3>2
  <2>3. \A s \in Stream : delivered'[s] <= version'[JobOf[s]]
    BY <1>1, JobOfAssumption DEF WriteRow, EventsTypeOK, NothingFromTheFuture
  <2>4. QED BY <2>2, <2>3 DEF NothingFromTheFuture
<1>5. (EventsFit /\ SharingKnown /\ PushKept)'
  BY DEF WriteRow, EventsFit, SharingKnown, PushKept, Known
<1>6. QED BY <1>3, <1>4, <1>5

\* A step of the listener keeps the invariant: events are set, never cleared.
LEMMA ListenerStep ==
  ASSUME EventsInv, Deliver \/ ConnectionLost \/ Reconnect \/ StopListener
  PROVE  EventsInv'
<1> USE DEF EventsInv
<1>1. CASE Deliver
  <2> DEFINE j == inbox[1][1]
             v == inbox[1][2]
  <2>1. j \in Job /\ v \in Nat /\ v <= version[j] /\ Head(inbox) = inbox[1]
    BY <1>1 DEF Deliver, EventsTypeOK, NothingFromTheFuture
  <2>2. /\ SetEvents({registered[j]} \ {NoEvent})
        /\ delivered' = [s \in Stream |->
                           IF pc[s] \in Subscribed /\ event[s] = registered[j]
                              /\ registered[j] # NoEvent /\ v > delivered[s]
                           THEN v ELSE delivered[s]]
        /\ inbox' = Tail(inbox)
        /\ UNCHANGED << rows, version, held, holder, conn, registered, event, shown, read,
                        shared >>
    BY <1>1, <2>1 DEF Deliver
  <2> HIDE DEF j, v
  <2>3. inbox' \in Seq(Job \X Nat) /\ \A i \in 1..Len(inbox') : inbox'[i] = inbox[i + 1]
                                     /\ i + 1 \in 1..Len(inbox)
    BY <1>1, <2>2 DEF Deliver, EventsTypeOK
  <2>4. /\ \A s \in Stream : pc'[s] = IF pc[s] = "waiting" /\ event[s] \in {registered[j]} \ {NoEvent}
                                      THEN "woken" ELSE pc[s]
        /\ \A s \in Stream : pc[s] \in Subscribed <=> pc'[s] \in Subscribed
        /\ \A s \in Stream : pc[s] \in Open <=> pc'[s] \in Open
    BY <2>2 DEF SetEvents, Subscribed, Open
  <2>5. EventsTypeOK'
    BY <2>1, <2>2, <2>3, <2>4 DEF EventsTypeOK, SetEvents, Subscribed, Open
  <2>6. \A s \in Stream : delivered'[s] # delivered[s] =>
          /\ delivered'[s] = v /\ event[s] = registered[j] /\ event[s] # NoEvent
          /\ pc[s] \in Subscribed /\ JobOf[s] = j
    BY <2>1, <2>2, JobOfAssumption DEF EventsFit, EventsTypeOK
  <2>7. NothingFromTheFuture'
    BY <2>1, <2>2, <2>3, <2>6 DEF NothingFromTheFuture
  <2>8. EventsFit'
    BY <2>2, <2>4, <2>6 DEF EventsFit
  <2>9. SharingKnown'
    BY <2>2, <2>4 DEF SharingKnown
  <2>10. PushKept'
    <3> SUFFICES ASSUME NEW s \in Stream, s \notin shared, pc'[s] \in Subscribed,
                        delivered'[s] > Known(s)'
                 PROVE  pc'[s] \in {"woken", "awake"} \/ flag'[event[s]]
      BY <2>2 DEF PushKept
    <3>1. event[s] \in Stream \/ delivered[s] = 0
      BY DEF EventsFit, EventsTypeOK
    <3>2. Known(s)' = Known(s) /\ Known(s) \in Nat
      BY <2>2, <2>4 DEF Known, EventsTypeOK, Seen
    <3>3. CASE delivered'[s] = delivered[s]
      BY <2>2, <2>4, <3>1, <3>2, <3>3 DEF PushKept, SetEvents, EventsTypeOK
    <3>4. CASE delivered'[s] # delivered[s]
      BY <2>2, <2>6, <3>4 DEF SetEvents, EventsTypeOK
    <3>5. QED BY <3>3, <3>4
  <2>11. QED BY <2>5, <2>7, <2>8, <2>9, <2>10
<1>2. CASE ConnectionLost \/ Reconnect
  <2>1. /\ UNCHANGED << rows, version, held, holder, registered, flag, pc, event, shown, read,
                        delivered, shared >>
        /\ inbox' \in {inbox, << >>} /\ conn' \in {"up", "down"}
    BY <1>2 DEF ConnectionLost, Reconnect
  <2>2. EventsTypeOK'
    <3>1. inbox \in Seq(Job \X Nat) /\ << >> \in Seq(Job \X Nat)
      BY DEF EventsTypeOK
    <3>2. inbox' \in Seq(Job \X Nat) /\ conn' \in {"up", "down", "stopped"}
      BY <2>1, <3>1
    <3>3. QED BY <2>1, <3>2 DEF EventsTypeOK
  <2>3. (NothingFromTheFuture /\ EventsFit /\ SharingKnown /\ PushKept)'
    BY <2>1 DEF NothingFromTheFuture, EventsFit, SharingKnown, PushKept, Known
  <2>4. QED BY <2>2, <2>3
<1>3. CASE StopListener
  <2>1. /\ \A s \in Stream : pc'[s] = pc[s] \/ (pc[s] = "waiting" /\ pc'[s] = "woken"
                                               /\ event[s] # NoEvent)
        /\ \A s \in Stream : pc[s] \in Subscribed <=> pc'[s] \in Subscribed
        /\ \A s \in Stream : pc[s] \in Open <=> pc'[s] \in Open
        /\ \A s \in Stream : Known(s)' = Known(s)
    <3>1. SetEvents({registered[j] : j \in Job} \ {NoEvent}) /\ UNCHANGED << shown, read, event >>
      BY <1>3 DEF StopListener
    <3> DEFINE es == {registered[j] : j \in Job} \ {NoEvent}
    <3>2. NoEvent \notin es
      OBVIOUS
    <3>3. SetEvents(es)
      BY <3>1
    <3> HIDE DEF es
    <3>4. \A s \in Stream : pc'[s] = IF pc[s] = "waiting" /\ event[s] \in es THEN "woken"
                                     ELSE pc[s]
      BY <3>3 DEF SetEvents
    <3>5. \A s \in Stream : pc'[s] = pc[s] \/ (pc[s] = "waiting" /\ pc'[s] = "woken"
                                               /\ event[s] # NoEvent)
      BY <3>2, <3>4
    <3>6. \A s \in Stream : /\ (pc[s] \in Subscribed) = (pc'[s] \in Subscribed)
                            /\ (pc[s] \in Open) = (pc'[s] \in Open)
                            /\ (pc[s] = "sending") = (pc'[s] = "sending")
      BY <3>5 DEF Subscribed, Open
    <3>7. QED BY <3>1, <3>5, <3>6 DEF Known
  <2>2. EventsTypeOK'
    <3>1. pc' \in [Stream -> {"new", "refused", "gone", "error", "done"} \cup Open]
      BY <1>3 DEF StopListener, SetEvents, EventsTypeOK, Open, Subscribed
    <3>2. flag' \in [Stream -> BOOLEAN]
      BY <1>3, Zenon DEF StopListener, SetEvents, EventsTypeOK
    <3>3. registered' \in [Job -> Stream \cup {NoEvent}]
      <4>1. registered' = [j \in Job |-> NoEvent]
        BY <1>3 DEF StopListener
      <4>2. QED BY <4>1
    <3>4. inbox' \in Seq(Job \X Nat) /\ holder' \in BOOLEAN /\ conn' \in {"up", "down", "stopped"}
      <4>1. inbox' = << >> /\ holder' = FALSE /\ conn' = "stopped"
        BY <1>3 DEF StopListener
      <4>2. << >> \in Seq(Job \X Nat)
        OBVIOUS
      <4>3. QED BY <4>1, <4>2
    <3>5. UNCHANGED << rows, version, held, event, shown, read, delivered, shared >>
      BY <1>3 DEF StopListener
    <3>6. QED BY <2>1, <3>1, <3>2, <3>3, <3>4, <3>5 DEF EventsTypeOK
  <2>3. (NothingFromTheFuture /\ EventsFit /\ SharingKnown)'
    BY <1>3, <2>1 DEF StopListener, NothingFromTheFuture, EventsFit, SharingKnown
  <2>4. PushKept'
    <3> SUFFICES ASSUME NEW s \in Stream, s \notin shared, pc'[s] \in Subscribed,
                        delivered[s] > Known(s)
                 PROVE  pc'[s] \in {"woken", "awake"} \/ flag'[event[s]]
      BY <1>3, <2>1 DEF PushKept, StopListener
    <3>1. event[s] \in Stream
      BY <2>1 DEF EventsFit, EventsTypeOK, Known, Seen
    <3>2. pc[s] \in {"woken", "awake"} \/ flag[event[s]]
      BY <2>1 DEF PushKept
    <3>3. QED BY <1>3, <2>1, <3>1, <3>2 DEF StopListener, SetEvents, EventsTypeOK
  <2>5. QED BY <2>2, <2>3, <2>4
<1>4. QED BY <1>1, <1>2, <1>3

\* A stream that ends in its try block, or before it, takes its part of the state away.
LEMMA EndStep ==
  ASSUME EventsInv, NEW s \in Stream, NEW to \in {"gone", "error", "done"},
         EndStream(s, to), UNCHANGED << rows, version, held, holder, conn, inbox, flag, shared >>,
         \/ UNCHANGED registered
         \/ registered' = [registered EXCEPT ![JobOf[s]] = NoEvent]
  PROVE  EventsInv'
<1> USE DEF EventsInv
<1>1. \A t \in Stream : t # s => /\ pc'[t] = pc[t] /\ event'[t] = event[t]
                                /\ shown'[t] = shown[t] /\ read'[t] = read[t]
                                /\ delivered'[t] = delivered[t]
  BY DEF EndStream, Goes, EventsTypeOK
<1>2. pc'[s] = to /\ event'[s] = NoEvent /\ shown'[s] = Unseen /\ delivered'[s] = 0
      /\ to \notin Open /\ to \notin Subscribed
  BY DEF EndStream, Goes, EventsTypeOK, Open, Subscribed
<1>3. EventsTypeOK'
  <2>1. registered' \in [Job -> Stream \cup {NoEvent}]
    BY JobOfAssumption DEF EventsTypeOK
  <2>2. /\ pc' \in [Stream -> {"new", "refused", "gone", "error", "done"} \cup Open]
        /\ event' \in [Stream -> Stream \cup {NoEvent}]
        /\ shown' \in [Stream -> Seen] /\ read' \in [Stream -> Seen]
        /\ delivered' \in [Stream -> Nat]
    BY SeenTypes DEF EndStream, Goes, EventsTypeOK
  <2>3. /\ \A t \in Stream : event'[t] # NoEvent => pc'[t] \in Subscribed
        /\ \A t \in Stream : pc'[t] \notin Open => shown'[t] = Unseen
    BY <1>1, <1>2 DEF EventsTypeOK
  <2>4. QED BY <2>1, <2>2, <2>3 DEF EventsTypeOK
<1>4. NothingFromTheFuture'
  <2>1. version[JobOf[s]] \in Nat
    BY JobOfAssumption DEF EventsTypeOK
  <2>2. QED BY <1>1, <1>2, <2>1 DEF NothingFromTheFuture
<1>5. EventsFit'
  <2>1. \A t \in Stream : event'[t] # NoEvent => t # s /\ event'[t] = event[t]
    BY <1>1, <1>2
  <2>2. \A j \in Job : registered'[j] # NoEvent => registered'[j] = registered[j]
    BY JobOfAssumption DEF EventsTypeOK
  <2>3. \A t \in Stream : delivered'[t] # 0 \/ pc'[t] = "woken" =>
          t # s /\ event'[t] = event[t] /\ delivered'[t] = delivered[t] /\ pc'[t] = pc[t]
    BY <1>1, <1>2 DEF Open, Subscribed
  <2>4. QED BY <2>1, <2>2, <2>3 DEF EventsFit
<1>6. SharingKnown'
  BY <1>1, <1>2 DEF SharingKnown
<1>7. PushKept'
  BY <1>1, <1>2 DEF PushKept, Known
<1>8. QED BY <1>3, <1>4, <1>5, <1>6, <1>7

\* A stream opens on a row: it has waited on nothing yet.
LEMMA OpenStep ==
  ASSUME EventsInv, NEW s \in Stream, OpenStream(s)
  PROVE  EventsInv'
<1> USE DEF EventsInv
<1> DEFINE row == RowNow(JobOf[s])
<1>1. row \in Seen /\ Unseen \in Seen /\ shown[s] = Unseen
  BY SeenTypes, JobOfAssumption DEF OpenStream, EventsTypeOK, Open, Subscribed
<1> HIDE DEF row
<1>2. PICK to \in {"refused", "done", "opened"} :
        /\ Goes(s, to)
        /\ shown' = [shown EXCEPT ![s] = IF to = "opened" THEN row ELSE shown[s]]
  BY <1>1 DEF OpenStream, EventsTypeOK, row
<1>3. UNCHANGED << rows, version, held, holder, conn, inbox, registered, flag, event, read,
                   delivered, shared >>
  BY DEF OpenStream
<1>4. /\ \A t \in Stream : t # s => pc'[t] = pc[t] /\ shown'[t] = shown[t]
      /\ pc'[s] = to /\ pc[s] \notin Subscribed /\ pc'[s] \notin Subscribed
      /\ to # "opened" => shown'[s] = Unseen
  BY <1>1, <1>2 DEF OpenStream, Goes, EventsTypeOK, Open, Subscribed
<1>5. EventsTypeOK'
  <2>1. pc' \in [Stream -> {"new", "refused", "gone", "error", "done"} \cup Open]
        /\ shown' \in [Stream -> Seen]
    BY <1>1, <1>2 DEF Goes, EventsTypeOK, Open, Subscribed
  <2>2. /\ \A t \in Stream : event'[t] # NoEvent => pc'[t] \in Subscribed
        /\ \A t \in Stream : pc'[t] \notin Open => shown'[t] = Unseen
    BY <1>3, <1>4 DEF EventsTypeOK, Open
  <2>3. QED BY <1>3, <2>1, <2>2 DEF EventsTypeOK
<1>6. NothingFromTheFuture'
  BY <1>3 DEF NothingFromTheFuture
<1>7. EventsFit'
  BY <1>3, <1>4 DEF EventsFit, Open, Subscribed
<1>8. SharingKnown'
  BY <1>3, <1>4 DEF SharingKnown
<1>9. PushKept'
  BY <1>3, <1>4 DEF PushKept, Known
<1>10. QED BY <1>5, <1>6, <1>7, <1>8, <1>9

\* A stream takes its job's event, and whoever was in the try block shares it.
LEMMA SubscribeStep ==
  ASSUME EventsInv, NEW s \in Stream, Subscribe(s)
  PROVE  EventsInv'
<1> USE DEF EventsInv
<1> DEFINE e == IF ~ holder THEN NoEvent
                ELSE IF registered[JobOf[s]] = NoEvent THEN s ELSE registered[JobOf[s]]
           others == {t \in Stream \ {s} : pc[t] \in Subscribed /\ JobOf[t] = JobOf[s]}
<1>1. /\ e \in Stream \cup {NoEvent} /\ (e # NoEvent => JobOf[e] = JobOf[s])
      /\ JobOf[s] \in Job /\ others \subseteq Stream
  BY JobOfAssumption DEF EventsTypeOK, EventsFit
<1>2. /\ pc[s] = "opened" /\ Goes(s, "waiting") /\ event' = [event EXCEPT ![s] = e]
      /\ registered' = IF holder THEN [registered EXCEPT ![JobOf[s]] = e] ELSE registered
      /\ shared' = IF others = {} THEN shared ELSE shared \cup others \cup {s}
      /\ UNCHANGED << rows, version, held, holder, conn, inbox, flag, shown, read, delivered >>
  BY DEF Subscribe
<1> HIDE DEF e
<1>3. /\ \A t \in Stream : t # s => pc'[t] = pc[t] /\ event'[t] = event[t]
      /\ pc'[s] = "waiting" /\ event'[s] = e /\ event[s] = NoEvent /\ delivered[s] = 0
      /\ pc[s] \notin Subscribed /\ pc[s] \in Open
      /\ pc'[s] \in Subscribed /\ pc'[s] \in Open
  BY <1>2 DEF Goes, EventsTypeOK, EventsFit, Open, Subscribed
<1>4. EventsTypeOK'
  <2>1. /\ pc' \in [Stream -> {"new", "refused", "gone", "error", "done"} \cup Open]
        /\ event' \in [Stream -> Stream \cup {NoEvent}]
        /\ registered' \in [Job -> Stream \cup {NoEvent}]
    BY <1>1, <1>2 DEF Goes, EventsTypeOK, Open, Subscribed
  <2>2. /\ \A t \in Stream : event'[t] # NoEvent => pc'[t] \in Subscribed
        /\ \A t \in Stream : pc'[t] \notin Open => shown'[t] = Unseen
    BY <1>2, <1>3 DEF EventsTypeOK
  <2>3. shared' \subseteq Stream
    BY <1>1, <1>2 DEF EventsTypeOK
  <2>4. QED BY <1>2, <2>1, <2>2, <2>3 DEF EventsTypeOK
<1>5. NothingFromTheFuture'
  BY <1>2 DEF NothingFromTheFuture
<1>6. EventsFit'
  <2>1. \A j \in Job : registered'[j] = registered[j] \/ (j = JobOf[s] /\ registered'[j] = e)
    BY <1>1, <1>2 DEF EventsTypeOK
  <2>2. QED BY <1>1, <1>2, <1>3, <2>1 DEF EventsFit
<1>7. SharingKnown'
  BY <1>2, <1>3 DEF SharingKnown
<1>8. PushKept'
  <2> SUFFICES ASSUME NEW t \in Stream, t \notin shared', pc'[t] \in Subscribed,
                      delivered'[t] > Known(t)'
               PROVE  pc'[t] \in {"woken", "awake"} \/ flag'[event'[t]]
    BY DEF PushKept
  <2>1. t # s
    BY <1>2, <1>3 DEF Known, EventsTypeOK, Seen
  <2>2. t \notin shared /\ Known(t)' = Known(t)
    BY <1>2, <1>3, <2>1 DEF Known
  <2>3. QED BY <1>2, <1>3, <2>1, <2>2 DEF PushKept
<1>9. QED BY <1>4, <1>5, <1>6, <1>7, <1>8

\* A wake clears the event at most, and only streams that share it wait on it: the one
\* that woke is about to read.
LEMMA WakeStep ==
  ASSUME EventsInv, NEW s \in Stream, WakeByEvent(s) \/ WakeByTimeout(s)
  PROVE  EventsInv'
<1> USE DEF EventsInv
<1>1. /\ pc[s] \in {"waiting", "woken"} /\ Goes(s, "awake")
      /\ UNCHANGED << rows, version, held, holder, conn, inbox, registered, event, shown, read,
                      delivered, shared >>
  BY DEF WakeByEvent, WakeByTimeout
<1>2. /\ flag' \in [Stream -> BOOLEAN]
      /\ \A e \in Stream : e # event[s] => flag'[e] = flag[e]
  <2>1. CASE WakeByTimeout(s)
    BY <2>1, Zenon DEF WakeByTimeout, EventsTypeOK
  <2>2. CASE WakeByEvent(s)
    <3>1. flag \in [Stream -> BOOLEAN] /\ flag' = [flag EXCEPT ![event[s]] = FALSE]
      BY <2>2, Zenon DEF WakeByEvent, EventsTypeOK
    <3>2. QED BY <3>1, Zenon
  <2>3. QED BY <2>1, <2>2
<1>3. /\ \A t \in Stream : t # s => pc'[t] = pc[t]
      /\ pc'[s] = "awake" /\ pc[s] \in Subscribed /\ pc'[s] \in Subscribed
      /\ pc[s] \in Open /\ pc'[s] \in Open
  BY <1>1 DEF Goes, EventsTypeOK, Open, Subscribed
<1>4. EventsTypeOK'
  <2>1. pc' \in [Stream -> {"new", "refused", "gone", "error", "done"} \cup Open]
    BY <1>1 DEF Goes, EventsTypeOK, Open, Subscribed
  <2>2. /\ \A t \in Stream : event'[t] # NoEvent => pc'[t] \in Subscribed
        /\ \A t \in Stream : pc'[t] \notin Open => shown'[t] = Unseen
    BY <1>1, <1>3 DEF EventsTypeOK
  <2>3. QED BY <1>1, <1>2, <2>1, <2>2 DEF EventsTypeOK
<1>5. (NothingFromTheFuture /\ EventsFit /\ SharingKnown)'
  BY <1>1, <1>3 DEF NothingFromTheFuture, EventsFit, SharingKnown
<1>6. PushKept'
  <2> SUFFICES ASSUME NEW t \in Stream, t \notin shared, pc'[t] \in Subscribed,
                      delivered[t] > Known(t)', t # s
               PROVE  pc'[t] \in {"woken", "awake"} \/ flag'[event[t]]
    BY <1>1, <1>3 DEF PushKept
  <2>1. Known(t)' = Known(t) /\ Known(t) \in Nat /\ delivered[t] \in Nat
    BY <1>1, <1>3 DEF Known, EventsTypeOK, Seen
  <2>2. event[t] \in Stream
    BY <2>1 DEF EventsFit, EventsTypeOK
  <2>3. pc[t] \in {"woken", "awake"} \/ flag[event[t]]
    BY <1>3, <2>1 DEF PushKept
  <2>4. event[t] # event[s]
    BY <1>3, <2>2, NoEventAssumption DEF EventsFit, SharingKnown
  <2>5. QED BY <1>2, <1>3, <2>2, <2>3, <2>4
<1>7. QED BY <1>4, <1>5, <1>6

\* A read is as new as anything delivered.
LEMMA ReadStep ==
  ASSUME EventsInv, NEW s \in Stream, ReadRow(s)
  PROVE  EventsInv'
<1> USE DEF EventsInv
<1> DEFINE row == RowNow(JobOf[s])
<1>1. row \in Seen /\ row.version = version[JobOf[s]]
  BY SeenTypes, JobOfAssumption
<1>2. /\ pc[s] = "awake" /\ Goes(s, "sending") /\ read' = [read EXCEPT ![s] = row]
      /\ UNCHANGED << rows, version, held, holder, conn, inbox, registered, flag, event, shown,
                      delivered, shared >>
  BY DEF ReadRow
<1> HIDE DEF row
<1>3. /\ \A t \in Stream : t # s => pc'[t] = pc[t] /\ read'[t] = read[t]
      /\ pc'[s] = "sending" /\ read'[s] = row
      /\ pc[s] \in Subscribed /\ pc'[s] \in Subscribed /\ pc[s] \in Open /\ pc'[s] \in Open
  BY <1>2 DEF Goes, EventsTypeOK, Open, Subscribed
<1>4. EventsTypeOK'
  <2>1. /\ pc' \in [Stream -> {"new", "refused", "gone", "error", "done"} \cup Open]
        /\ read' \in [Stream -> Seen]
    BY <1>1, <1>2 DEF Goes, EventsTypeOK, Open, Subscribed
  <2>2. /\ \A t \in Stream : event'[t] # NoEvent => pc'[t] \in Subscribed
        /\ \A t \in Stream : pc'[t] \notin Open => shown'[t] = Unseen
    BY <1>2, <1>3 DEF EventsTypeOK
  <2>3. QED BY <1>2, <2>1, <2>2 DEF EventsTypeOK
<1>5. (NothingFromTheFuture /\ EventsFit /\ SharingKnown)'
  BY <1>2, <1>3 DEF NothingFromTheFuture, EventsFit, SharingKnown
<1>6. PushKept'
  <2>1. delivered[s] \in Nat /\ version[JobOf[s]] \in Nat /\ delivered[s] <= version[JobOf[s]]
    BY JobOfAssumption DEF EventsTypeOK, NothingFromTheFuture
  <2>2. Known(s)' = version[JobOf[s]] /\ \A t \in Stream : t # s => Known(t)' = Known(t)
    BY <1>1, <1>2, <1>3 DEF Known
  <2>3. ~ (delivered'[s] > Known(s)')
    BY <1>2, <2>1, <2>2
  <2>4. QED BY <1>2, <1>3, <2>2, <2>3 DEF PushKept
<1>7. QED BY <1>4, <1>5, <1>6

\* What was read is what is shown: the stream waits again knowing the same version.
LEMMA SendStep ==
  ASSUME EventsInv, NEW s \in Stream, SendFrames(s)
  PROVE  EventsInv'
<1>1. CASE read[s].status \in Terminal \cup {"absent"}
  BY <1>1, EndStep DEF SendFrames, LeaveTry
<1>2. CASE read[s].status \notin Terminal \cup {"absent"}
  <2> USE DEF EventsInv
  <2>1. /\ pc[s] = "sending" /\ Goes(s, "waiting")
        /\ shown' = [shown EXCEPT ![s] = read[s]] /\ read' = [read EXCEPT ![s] = Unseen]
        /\ UNCHANGED << rows, version, held, holder, conn, inbox, registered, flag, event,
                        delivered, shared >>
    BY <1>2 DEF SendFrames
  <2>2. /\ \A t \in Stream : t # s => /\ pc'[t] = pc[t] /\ read'[t] = read[t]
                                      /\ shown'[t] = shown[t]
        /\ pc'[s] = "waiting" /\ shown'[s] = read[s]
        /\ pc[s] \in Subscribed /\ pc'[s] \in Subscribed /\ pc[s] \in Open /\ pc'[s] \in Open
    BY <2>1 DEF Goes, EventsTypeOK, Open, Subscribed
  <2>3. EventsTypeOK'
    <3>1. /\ pc' \in [Stream -> {"new", "refused", "gone", "error", "done"} \cup Open]
          /\ read' \in [Stream -> Seen] /\ shown' \in [Stream -> Seen]
      BY <2>1, SeenTypes DEF Goes, EventsTypeOK, Open, Subscribed
    <3>2. /\ \A t \in Stream : event'[t] # NoEvent => pc'[t] \in Subscribed
          /\ \A t \in Stream : pc'[t] \notin Open => shown'[t] = Unseen
      BY <2>1, <2>2 DEF EventsTypeOK
    <3>3. QED BY <2>1, <3>1, <3>2 DEF EventsTypeOK
  <2>4. (NothingFromTheFuture /\ EventsFit /\ SharingKnown)'
    BY <2>1, <2>2 DEF NothingFromTheFuture, EventsFit, SharingKnown
  <2>5. PushKept'
    <3>1. \A t \in Stream : Known(t)' = Known(t)
      BY <2>1, <2>2 DEF Known
    <3>2. QED BY <2>1, <2>2, <3>1 DEF PushKept
  <2>6. QED BY <2>3, <2>4, <2>5
<1>3. QED BY <1>1, <1>2

\* Every step of a stream keeps the invariant.
LEMMA StreamStepKeeps ==
  ASSUME EventsInv, NEW s \in Stream, StreamStep(s) \/ ReadFails(s) \/ Disconnect(s)
  PROVE  EventsInv'
<1>1. CASE OpenStream(s)
  BY <1>1, OpenStep
<1>2. CASE Subscribe(s)
  BY <1>2, SubscribeStep
<1>3. CASE WakeByEvent(s) \/ WakeByTimeout(s)
  BY <1>3, WakeStep
<1>4. CASE ReadRow(s)
  BY <1>4, ReadStep
<1>5. CASE SendFrames(s)
  BY <1>5, SendStep
<1>6. CASE ReadFails(s)
  BY <1>6, EndStep DEF ReadFails, LeaveTry
<1>7. CASE Disconnect(s)
  BY <1>7, EndStep DEF Disconnect, LeaveTry
<1>8. QED BY <1>1, <1>2, <1>3, <1>4, <1>5, <1>6, <1>7 DEF StreamStep

\* Every transaction on a row keeps it.
LEMMA RowStepKeeps ==
  ASSUME EventsInv, NEW j \in Job, RowStep(j)
  PROVE  EventsInv'
<1>1. rows[j] \in Row /\ held \subseteq Job
  BY DEF EventsInv, EventsTypeOK
<1>2. \A row \in Row, hit \in BOOLEAN :
        held' \subseteq Job /\ CommitAndNotify(j, row, hit) => EventsInv'
  BY RowWriteStep DEF CommitAndNotify
<1>3. CASE ClaimRow(j)
  BY <1>1, <1>3, RowTypes, RowWriteStep DEF ClaimRow
<1>4. CASE ProgressWrite(j)
  BY <1>1, <1>2, <1>4, RowTypes DEF ProgressWrite
<1>5. CASE LastRowWrite(j)
  <2>1. held' \subseteq Job
    BY <1>1, <1>5 DEF LastRowWrite
  <2>2. MarkCompleted(rows[j]) \in Row /\ MarkFailed(rows[j]) \in Row /\ MarkRetry(rows[j]) \in Row
    BY <1>1, RowTypes
  <2>3. CASE CommitAndNotify(j, MarkCompleted(rows[j]), rows[j].status = "running")
    BY <1>2, <2>1, <2>2, <2>3
  <2>4. CASE CommitAndNotify(j, MarkFailed(rows[j]), rows[j].status \in Cancellable)
    <3>1. CommitAndNotify(j, MarkFailed(rows[j]), TRUE)
          \/ CommitAndNotify(j, MarkFailed(rows[j]), FALSE)
      BY <2>4 DEF CommitAndNotify, WriteRow
    <3>2. QED BY <1>2, <2>1, <2>2, <3>1
  <2>5. CASE CommitAndNotify(j, MarkRetry(rows[j]), TRUE)
    BY <1>2, <2>1, <2>2, <2>5
  <2>6. QED BY <1>5, <2>3, <2>4, <2>5 DEF LastRowWrite
<1>6. CASE WorkerLeaves(j)
  <2>1. EventsTypeOK'
    BY <1>1, <1>6 DEF WorkerLeaves, EventsInv, EventsTypeOK
  <2>2. QED BY <1>6, <2>1 DEF WorkerLeaves, EventsInv, NothingFromTheFuture, EventsFit, SharingKnown,
                           PushKept, Known
<1>7. CASE CancelRow(j)
  <2>1. MarkCancelled(rows[j], JobOwner, JobOwner) \in Row
    BY <1>1, RowTypes
  <2>2. QED BY <1>1, <1>2, <1>7, <2>1 DEF CancelRow
<1>8. CASE DeleteRow(j)
  BY <1>1, <1>8, RowTypes, RowWriteStep DEF DeleteRow
<1>9. QED BY <1>3, <1>4, <1>5, <1>6, <1>7, <1>8 DEF RowStep

\* No stream has asked for anything yet.
LEMMA EventsInvInit ==
  ASSUME EventsInit
  PROVE  EventsInv
<1> USE DEF EventsInit
<1>1. rows \in [Job -> Row] /\ inbox \in Seq(Job \X Nat)
  BY DEF Inserted, Row, Status, RetryTime
<1>2. Unseen \in Seen
  BY DEF Unseen, Seen, Status
<1>3. EventsTypeOK
  BY <1>1, <1>2 DEF EventsTypeOK, Open, Subscribed
<1>4. NothingFromTheFuture /\ EventsFit /\ SharingKnown /\ PushKept
  BY JobOfAssumption DEF NothingFromTheFuture, EventsFit, SharingKnown, PushKept, Known, Unseen,
     Subscribed
<1>5. QED BY <1>3, <1>4 DEF EventsInv

\* The inductive invariant holds in every reachable state.
THEOREM EventsInvHolds == EventsSpec => []EventsInv
<1>1. EventsInit => EventsInv
  BY EventsInvInit
<1>2. EventsInv /\ [EventsNext]_eventsVars => EventsInv'
  <2> SUFFICES ASSUME EventsInv, [EventsNext]_eventsVars
               PROVE  EventsInv'
    OBVIOUS
  <2>1. CASE \E j \in Job : RowStep(j)
    BY <2>1, RowStepKeeps
  <2>2. CASE Deliver \/ ConnectionLost \/ Reconnect \/ StopListener
    BY <2>2, ListenerStep
  <2>3. CASE \E s \in Stream : StreamStep(s) \/ ReadFails(s) \/ Disconnect(s)
    BY <2>3, StreamStepKeeps
  <2>4. CASE UNCHANGED eventsVars
    BY <2>4 DEF eventsVars, EventsInv, EventsTypeOK, NothingFromTheFuture, EventsFit, SharingKnown,
       PushKept, Known, RowNow
  <2>5. QED BY <2>1, <2>2, <2>3, <2>4 DEF EventsNext
<1>3. QED BY <1>1, <1>2, PTL DEF EventsSpec

\* job_listener.py: the streams' state is well formed, and an event is only ever held by
\* a stream that is in its try block.
THEOREM EventsTypesHold == EventsSpec => []EventsTypeOK
<1>1. EventsInv => EventsTypeOK
  BY DEF EventsInv
<1>2. QED BY <1>1, EventsInvHolds, PTL

\* backtest_job.py's wait, clear and read: a notification that reached the event of a
\* stream that has it to itself is never lost, for any number of streams and writes.
THEOREM PushKeptHolds == EventsSpec => []PushKept
<1>1. EventsInv => PushKept
  BY DEF EventsInv
<1>2. QED BY <1>1, EventsInvHolds, PTL
=============================================================================
