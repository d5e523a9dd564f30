----------------------------- MODULE JobEvents -----------------------------
(***************************************************************************)
(* The server-sent event streams of backtest jobs, and the LISTEN pump that *)
(* wakes them (gr_api/services/backtest_job.py, backtest_sweep.py,          *)
(* backtest_walk_forward.py and job_listener.py).                           *)
(*                                                                          *)
(* Every transaction that writes a job row, creation and claim apart, also   *)
(* sends a NOTIFY with the job's id.  The web process that won an advisory lock listens and sets    *)
(* the asyncio.Event registered for the job; a stream wakes, reads the row  *)
(* and sends what changed.  Notifications may be lost at any time, and      *)
(* streams of one job share one Event, so a poll after one second is what   *)
(* the streams rest on.                                                     *)
(***************************************************************************)
EXTENDS JobStore, Sequences

CONSTANTS Job,
          Stream,      \* GET .../events requests, each made once
          JobOf,       \* the job each of them asks for
          NoEvent,
          JobOwner,    \* user_id of every job here, and of the streams' users
          MaxVersion,  \* bound: row writes
          MaxInbox     \* bound: notifications under way

ASSUME JobOfAssumption == JobOf \in [Stream -> Job]
ASSUME NoEventAssumption == NoEvent \notin Stream
ASSUME EventBoundsAssumption == MaxVersion \in Nat /\ MaxInbox \in Nat

VARIABLES
  rows,        \* backtest.backtest_jobs
  version,     \* updated_at of each row, as a count of its writes
  held,        \* jobs some worker has claimed and not finished
  holder,      \* this web process installed its listener (is_holder)
  conn,        \* the listener's connection: "up", "down" or "stopped"
  inbox,       \* notifications sent to it: job, and version when sent
  registered,  \* _events: the Event of each job, named by the stream that made it
  flag,        \* asyncio.Event._value of each
  pc,          \* where each stream is
  event,       \* its local variable ev
  shown,       \* last_etag: the row as of the stream's last frame with data
  read,        \* the row its last get_job returned
  delivered,   \* history: newest version whose notification set the stream's event
  shared       \* history: streams whose event another stream has had too

rowVars == << rows, version, held >>
streamVars == << pc, event, shown, read >>
eventsVars == << rows, version, held, holder, conn, inbox, registered, flag, pc, event,
                 shown, read, delivered, shared >>

Terminal == {"completed", "failed", "cancelled"}    \* TERMINAL_STATUSES

\* What a stream knows of a row: the status and updated_at of its etag.
Seen == [status : Status, version : Nat]
Unseen == [status |-> "absent", version |-> 0]
RowNow(j) == [status |-> rows[j].status, version |-> version[j]]

Subscribed == {"waiting", "woken", "awake", "sending"}    \* inside the try block
Open == Subscribed \cup {"opened"}

EventsTypeOK ==
  /\ rows \in [Job -> Row]
  /\ version \in [Job -> Nat]
  /\ held \subseteq Job
  /\ holder \in BOOLEAN
  /\ conn \in {"up", "down", "stopped"}
  /\ inbox \in Seq(Job \X Nat)
  /\ registered \in [Job -> Stream \cup {NoEvent}]
  /\ flag \in [Stream -> BOOLEAN]
  /\ pc \in [Stream -> {"new", "refused", "gone", "error", "done"} \cup Open]
  /\ event \in [Stream -> Stream \cup {NoEvent}]
  /\ shown \in [Stream -> Seen]
  /\ read \in [Stream -> Seen]
  /\ delivered \in [Stream -> Nat]
  /\ shared \subseteq Stream
  /\ \A s \in Stream : event[s] # NoEvent => pc[s] \in Subscribed
  /\ \A s \in Stream : pc[s] \notin Open => shown[s] = Unseen

\* The web process is up; start() won the advisory lock or left it to another one.
EventsInit ==
  /\ rows = [j \in Job |-> Inserted]
  /\ version = [j \in Job |-> 1]
  /\ held = {}
  /\ holder \in BOOLEAN
  /\ conn = IF holder THEN "up" ELSE "down"
  /\ inbox = << >>
  /\ registered = [j \in Job |-> NoEvent]
  /\ flag = [s \in Stream |-> FALSE]
  /\ pc = [s \in Stream |-> "new"]
  /\ event = [s \in Stream |-> NoEvent]
  /\ shown = [s \in Stream |-> Unseen]
  /\ read = [s \in Stream |-> Unseen]
  /\ delivered = [s \in Stream |-> 0]
  /\ shared = {}
-----------------------------------------------------------------------------
(***************************************************************************)
(* The worker's and the API's transactions on the row                       *)
(***************************************************************************)

\* The row is written, or not, when its WHERE clause misses.
WriteRow(j, row, hit) ==
  /\ version[j] < MaxVersion
  /\ rows' = [rows EXCEPT ![j] = row]
  /\ version' = IF hit THEN [version EXCEPT ![j] = @ + 1] ELSE version
  /\ UNCHANGED << holder, conn, registered, flag, pc, event, shown, read, delivered,
                  shared >>

\* The NOTIFY of the same transaction goes out at the commit, whether or not a row
\* was hit.  PostgreSQL drops it when nobody listens.
CommitAndNotify(j, row, hit) ==
  /\ Len(inbox) < MaxInbox
  /\ WriteRow(j, row, hit)
  /\ inbox' = IF conn = "up" THEN Append(inbox, << j, version'[j] >>) ELSE inbox

\* claim_next_queued sends no NOTIFY: the poll finds that the job runs.
ClaimRow(j) ==
  /\ j \notin held
  /\ rows[j].status \in Cancellable
  /\ held' = held \cup {j}
  /\ WriteRow(j, ResetRunning(rows[j]), TRUE)
  /\ UNCHANGED inbox

ProgressWrite(j) ==
  /\ j \in held
  /\ CommitAndNotify(j, TouchProgress(rows[j]), rows[j].status = "running")
  /\ UNCHANGED held

\* mark_completed, mark_failed or mark_retry ends the run.
LastRowWrite(j) ==
  /\ j \in held
  /\ held' = held \ {j}
  /\ \/ CommitAndNotify(j, MarkCompleted(rows[j]), rows[j].status = "running")
     \/ CommitAndNotify(j, MarkFailed(rows[j]), rows[j].status \in Cancellable)
     \/ CommitAndNotify(j, MarkRetry(rows[j]), TRUE)

\* The worker leaves the row alone: it saw the cancel, or it is lost.
WorkerLeaves(j) ==
  /\ j \in held
  /\ held' = held \ {j}
  /\ UNCHANGED << rows, version, holder, conn, inbox, registered, flag, pc, event, shown,
                  read, delivered, shared >>

\* A cancel that changes no row sends no NOTIFY.
CancelRow(j) ==
  /\ rows[j].status \in Cancellable
  /\ CommitAndNotify(j, MarkCancelled(rows[j], JobOwner, JobOwner), TRUE)
  /\ UNCHANGED held

\* An operator deletes a row no worker runs; no code of the program does, and no
\* NOTIFY is sent.
DeleteRow(j) ==
  /\ j \notin held
  /\ rows[j].status # "absent"
  /\ WriteRow(j, NoRow, TRUE)
  /\ UNCHANGED << held, inbox >>
-----------------------------------------------------------------------------
(***************************************************************************)
(* BacktestJobListener                                                      *)
(***************************************************************************)

\* asyncio.Event.set: whoever waits now is resumed, whatever happens to the flag
\* before it runs.
SetEvents(es) ==
  /\ flag' = [e \in Stream |-> flag[e] \/ e \in es]
  /\ pc' = [s \in Stream |-> IF pc[s] = "waiting" /\ event[s] \in es THEN "woken"
                             ELSE pc[s]]

\* One turn of _pump's loop.
Deliver ==
  /\ conn = "up"
  /\ inbox # << >>
  /\ LET j == Head(inbox)[1]
         v == Head(inbox)[2]
     IN  /\ SetEvents({registered[j]} \ {NoEvent})
         /\ delivered' = [s \in Stream |->
                            IF pc[s] \in Subscribed /\ event[s] = registered[j]
                               /\ registered[j] # NoEvent /\ v > delivered[s]
                            THEN v ELSE delivered[s]]
  /\ inbox' = Tail(inbox)
  /\ UNCHANGED << rows, version, held, holder, conn, registered, event, shown, read, shared >>

\* notifies() raises: _drop_conn, and what was under way is lost.  _events stays.
ConnectionLost ==
  /\ conn = "up"
  /\ conn' = "down"
  /\ inbox' = << >>
  /\ UNCHANGED << rows, version, held, holder, registered, flag, pc, event, shown, read,
                  delivered, shared >>

\* After the backoff _reconnect gets the connection and the lock again.
Reconnect ==
  /\ holder
  /\ conn = "down"
  /\ conn' = "up"
  /\ UNCHANGED << rows, version, held, holder, inbox, registered, flag, pc, event, shown,
                  read, delivered, shared >>

\* stop(), at shutdown: every event is set and forgotten, _LISTENER is None again.
StopListener ==
  /\ holder
  /\ holder' = FALSE
  /\ conn' = "stopped"
  /\ inbox' = << >>
  /\ SetEvents({registered[j] : j \in Job} \ {NoEvent})
  /\ registered' = [j \in Job |-> NoEvent]
  /\ UNCHANGED << rows, version, held, event, shown, read, delivered, shared >>
-----------------------------------------------------------------------------
(***************************************************************************)
(* stream_job_events, and its two siblings                                  *)
(***************************************************************************)
Goes(s, to) == pc' = [pc EXCEPT ![s] = to]

\* The first get_job: 404, a snapshot followed by done, or a snapshot.
OpenStream(s) ==
  /\ pc[s] = "new"
  /\ LET row == RowNow(JobOf[s])
     IN  IF row.status = "absent" THEN Goes(s, "refused") /\ UNCHANGED shown
         ELSE IF row.status \in Terminal THEN Goes(s, "done") /\ UNCHANGED shown
         ELSE Goes(s, "opened") /\ shown' = [shown EXCEPT ![s] = row]
  /\ UNCHANGED << rows, version, held, holder, conn, inbox, registered, flag, event, read,
                  delivered, shared >>

\* listener.subscribe, only after the snapshot went out: the job's event, made if
\* there is none.  Without a listener the stream just sleeps between its polls.
Subscribe(s) ==
  /\ pc[s] = "opened"
  /\ Goes(s, "waiting")
  /\ LET e == IF ~ holder THEN NoEvent
              ELSE IF registered[JobOf[s]] = NoEvent THEN s
              ELSE registered[JobOf[s]]
         others == {t \in Stream \ {s} : pc[t] \in Subscribed /\ JobOf[t] = JobOf[s]}
     IN  /\ event' = [event EXCEPT ![s] = e]
         /\ registered' = IF holder THEN [registered EXCEPT ![JobOf[s]] = e] ELSE registered
         /\ shared' = IF others = {} THEN shared ELSE shared \cup others \cup {s}
  /\ UNCHANGED << rows, version, held, holder, conn, inbox, flag, shown, read, delivered >>

\* ev.wait() returns: at once when the flag is set, or after a set that resumed it.
\* ev.clear() follows, before the row is read.
WakeByEvent(s) ==
  /\ \/ pc[s] = "woken"
     \/ pc[s] = "waiting" /\ event[s] # NoEvent /\ flag[event[s]]
  /\ Goes(s, "awake")
  /\ flag' = [flag EXCEPT ![event[s]] = FALSE]
  /\ UNCHANGED << rows, version, held, holder, conn, inbox, registered, event, shown, read,
                  delivered, shared >>

\* Variant for the checks: only a stream without a listener polls.
WakeByTimeoutUnpushed(s) ==
  /\ pc[s] = "waiting"
  /\ event[s] = NoEvent
  /\ Goes(s, "awake")
  /\ UNCHANGED << rows, version, held, holder, conn, inbox, registered, flag, event, shown,
                  read, delivered, shared >>

\* _POLL_INTERVAL_S passes first.
WakeByTimeout(s) ==
  /\ pc[s] = "waiting"
  /\ event[s] # NoEvent => ~ flag[event[s]]
  /\ Goes(s, "awake")
  /\ UNCHANGED << rows, version, held, holder, conn, inbox, registered, flag, event, shown,
                  read, delivered, shared >>

ReadRow(s) ==
  /\ pc[s] = "awake"
  /\ read' = [read EXCEPT ![s] = RowNow(JobOf[s])]
  /\ Goes(s, "sending")
  /\ UNCHANGED << rows, version, held, holder, conn, inbox, registered, flag, event, shown,
                  delivered, shared >>

\* Variant for the checks: the generator's event outlives it.
EndStreamKeepsEvent(s, to) ==
  /\ Goes(s, to)
  /\ shown' = [shown EXCEPT ![s] = Unseen]
  /\ read' = [read EXCEPT ![s] = Unseen]
  /\ delivered' = [delivered EXCEPT ![s] = 0]
  /\ UNCHANGED event

\* The generator ends, and its local variables with it.
EndStream(s, to) ==
  /\ Goes(s, to)
  /\ event' = [event EXCEPT ![s] = NoEvent]
  /\ shown' = [shown EXCEPT ![s] = Unseen]
  /\ read' = [read EXCEPT ![s] = Unseen]
  /\ delivered' = [delivered EXCEPT ![s] = 0]

\* The finally clause: unsubscribe pops the job's event, whoever else waits on it.
LeaveTry(s, to) ==
  /\ EndStream(s, to)
  /\ registered' = IF event[s] # NoEvent
                   THEN [registered EXCEPT ![JobOf[s]] = NoEvent]
                   ELSE registered

\* get_job raises in mid-stream: an error frame ends the stream.
ReadFails(s) ==
  /\ pc[s] = "awake"
  /\ LeaveTry(s, "error")
  /\ UNCHANGED << rows, version, held, holder, conn, inbox, flag, shared >>

\* Variant for the checks: ev.clear() comes last, after the frame went out.
SendFramesThenClear(s) ==
  /\ pc[s] = "sending"
  /\ read[s].status \notin Terminal \cup {"absent"}
  /\ Goes(s, "waiting")
  /\ shown' = [shown EXCEPT ![s] = read[s]]
  /\ read' = [read EXCEPT ![s] = Unseen]
  /\ flag' = [e \in Stream |-> flag[e] /\ e # event[s]]
  /\ UNCHANGED << rows, version, held, holder, conn, inbox, registered, event, delivered,
                  shared >>

\* An update frame when the etag changed, a done frame when the row is terminal or
\* no longer there; otherwise back to the wait.
SendFrames(s) ==
  /\ pc[s] = "sending"
  /\ IF read[s].status \in Terminal \cup {"absent"} THEN LeaveTry(s, "done")
     ELSE /\ Goes(s, "waiting")
          /\ shown' = [shown EXCEPT ![s] = read[s]]
          /\ read' = [read EXCEPT ![s] = Unseen]
          /\ UNCHANGED << event, registered, delivered >>
  /\ UNCHANGED << rows, version, held, holder, conn, inbox, flag, shared >>

\* The client goes away; before the try block there is nothing to clean up.
Disconnect(s) ==
  /\ pc[s] \in Open
  /\ IF pc[s] = "opened" THEN EndStream(s, "gone") /\ UNCHANGED registered
     ELSE LeaveTry(s, "gone")
  /\ UNCHANGED << rows, version, held, holder, conn, inbox, flag, shared >>
-----------------------------------------------------------------------------
StreamStep(s) == \/ OpenStream(s) \/ Subscribe(s) \/ WakeByEvent(s) \/ WakeByTimeout(s)
                 \/ ReadRow(s) \/ SendFrames(s)

RowStep(j) == \/ ClaimRow(j) \/ ProgressWrite(j) \/ LastRowWrite(j) \/ WorkerLeaves(j)
              \/ CancelRow(j) \/ DeleteRow(j)

EventsNext ==
  \/ \E j \in Job : RowStep(j)
  \/ Deliver \/ ConnectionLost \/ Reconnect \/ StopListener
  \/ \E s \in Stream : StreamStep(s) \/ ReadFails(s) \/ Disconnect(s)

EventsSpec == EventsInit /\ [][EventsNext]_eventsVars

\* The event loop runs every stream it has accepted, and timers fire.  Nothing is
\* assumed of the workers, the notifications or the listener.
EventsFairness ==
  \A s \in Stream :
    WF_eventsVars(Subscribe(s) \/ WakeByEvent(s) \/ WakeByTimeout(s) \/ ReadRow(s)
                  \/ SendFrames(s))
-----------------------------------------------------------------------------
(***************************************************************************)
(* Properties                                                               *)
(***************************************************************************)

\* The newest version a stream has asked the database for.
Known(s) == IF pc[s] = "sending" THEN read[s].version ELSE shown[s].version

\* A notification that reached a stream's event is not lost between ev.clear(), the
\* read and the next wait: as long as the stream has the event to itself, it has
\* read that version or is about to.
PushKept ==
  \A s \in Stream \ shared :
    pc[s] \in Subscribed /\ delivered[s] > Known(s) =>
      pc[s] \in {"woken", "awake"} \/ flag[event[s]]

\* job_listener.py: a missed notification costs at most the poll interval.  Every
\* version of a row is shown, or a newer one, to every stream that stays, whatever
\* is lost and whichever streams share an event.
UpdatesShown ==
  \A s \in Stream, v \in 2..MaxVersion :
    (pc[s] \in Open /\ version[JobOf[s]] >= v)
      ~> (pc[s] \notin Open \/ shown[s].version >= v)
=============================================================================
