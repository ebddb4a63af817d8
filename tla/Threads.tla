------------------------------- MODULE Threads ------------------------------
(***************************************************************************)
(* Calls that wait, with and without the service thread (lib/sync.c,       *)
(* lib/multithreading.c, the lock sections of lib/iscsi-command.c and      *)
(* lib/socket.c).  Without the service thread one thread, Main, uses the   *)
(* context and runs the service itself, in event_loop.  With it, any       *)
(* thread queues requests and waits at a semaphore for its callback.       *)
(* A lock section is one step; everything between two lock sections may    *)
(* interleave.  Each call is a PDU whose callback writes into the frame of *)
(* the call, on the stack of its thread.                                   *)
(***************************************************************************)
EXTENDS Lists, SequencesExt

CONSTANTS Threads,    \* the threads of the application
          Main,       \* the one that starts and stops the service thread
          Calls,      \* the calls, see SyncCalls
          Window,     \* commands the target takes at a time
          MaxCalls,   \* bound: calls of Main; the other threads make one
          MaxTicks    \* bound: times that scsi_timeout passes

ASSUME MainAssumption == Main \in Threads
ASSUME WindowAssumption == Window \in Nat \ {0}

\* What SyncCalls says of a call.
ASSUME CallsAssumption ==
  Calls \subseteq [ cb : STRING, started : BOOLEAN, immediate : BOOLEAN,
                    cancels : BOOLEAN, cleans : BOOLEAN ]

VARIABLES mt,        \* off, starting, on, stopping
          pc,        \* of each thread
          call,      \* the call of each thread
          frame,     \* its frame: struct iscsi_sync_state and its age
          ret,       \* how its last call returned
          number,    \* the CmdSN it has taken for its PDU
          link,      \* up, or down for good
          cmdsn, expcmdsn, maxcmdsn,
          outqueue, waitpdu, current,
          svc,       \* the service: pc, and whether POLLOUT is asked for or seen
          target,    \* the target: requests that it holds, its ExpCmdSN
          replies,   \* on their way back
          answered,  \* history: calls whose callback ran, with its status
          wild,      \* history: calls whose callback ran too late
          failures,  \* history: calls that failed and were not cleaned up
          ticks

vars == <<mt, pc, call, frame, ret, number, link, cmdsn, expcmdsn, maxcmdsn,
          outqueue, waitpdu, current, svc, target, replies, answered, wild,
          failures, ticks>>

counters == <<cmdsn, expcmdsn, maxcmdsn>>
wire == <<link, target, replies>>
callers == <<pc, call, ret, number>>
history == <<answered, wild, failures>>

None == [t |-> Main, gen |-> 0]

\* The frame of a thread that is not in a call; gen counts its calls.
NoFrame(gen) == [ gen |-> gen, alive |-> FALSE, late |-> FALSE,
                  finished |-> FALSE, status |-> 0, sem |-> 0 ]
NoCall == [started |-> FALSE]

At(l) == [pc |-> l, out |-> FALSE]

Init ==
  /\ mt = "off"
  /\ pc = [t \in Threads |-> "idle"]
  /\ call = [t \in Threads |-> NoCall]
  /\ frame = [t \in Threads |-> NoFrame(0)]
  /\ ret = [t \in Threads |-> "none"]
  /\ number = [t \in Threads |-> 0]
  /\ link = "up"
  /\ cmdsn = 1 /\ expcmdsn = 1 /\ maxcmdsn = Window
  /\ outqueue = << >> /\ waitpdu = << >> /\ current = None
  /\ svc = At("events")
  /\ target = [has |-> {}, exp |-> 1]
  /\ replies = << >>
  /\ answered = {} /\ wild = {} /\ failures = {}
  /\ ticks = 0

multithreading_enabled == mt \in {"on", "stopping"}

-----------------------------------------------------------------------------
(* Callbacks.  0 is SCSI_STATUS_GOOD, -1 any other status. *)

\* Only these two callbacks post the semaphore; iscsi_task_mgmt_sync_cb and
\* iscsi_discovery_cb do not.
Posts(cb) == cb \in {"iscsi_sync_cb", "scsi_sync_cb"}

\* The stack frame of the call is still there.
Alive(p) == frame[p.t].alive /\ frame[p.t].gen = p.gen

\* The callbacks of the PDUs ps run, with this status.
Callbacks(ps, status) ==
  /\ frame' = [t \in Threads |->
       IF \E p \in ps : p.t = t /\ Alive(p)
       THEN [frame[t] EXCEPT !.finished = TRUE, !.status = status,
               !.sem = IF multithreading_enabled /\ Posts(call[t].cb)
                       THEN @ + 1 ELSE @]
       ELSE frame[t]]
  /\ answered' = answered \cup {<<p.t, p.gen, status>> : p \in ps}
  /\ wild' = wild \cup {<<p.t, p.gen>> : p \in {q \in ps : ~Alive(q)}}
  /\ UNCHANGED failures

\* Where the commands in the outqueue are.
Commands == {i \in DOMAIN outqueue : ~outqueue[i].immediate}

\* Mutant of CancelPdus: what was sent already is left waiting.
CancelUnsent ==
  /\ cmdsn' = cmdsn - Cardinality(Commands)
  /\ outqueue' = << >>
  /\ Callbacks(Range(outqueue), -1)
  /\ UNCHANGED <<waitpdu, current>>

\* iscsi_cancel_pdus: everything queued or waiting is completed, and the
\* numbers of the commands not yet sent are given back.
CancelPdus ==
  /\ cmdsn' = cmdsn - Cardinality(Commands)
  /\ outqueue' = << >>
  /\ waitpdu' = << >>
  /\ current' = None
  /\ Callbacks(Range(outqueue) \cup Range(waitpdu), -1)

\* The PDUs behind the commands at the indices X move down, to close the gap.
MovedDown(X) ==
  [i \in DOMAIN outqueue |->
     [outqueue[i] EXCEPT !.cmdsn = @ - Cardinality({j \in X : j < i})]]

-----------------------------------------------------------------------------
(* A call *)

\* Mutant of iscsi_init_sync_state: the semaphore starts at 1.
InitSemFree(t) ==
  [NoFrame(frame[t].gen + 1) EXCEPT !.alive = TRUE, !.sem = 1]

iscsi_init_sync_state(t) ==
  [NoFrame(frame[t].gen + 1) EXCEPT !.alive = TRUE]

\* Without the service thread only one thread may use the context, and a
\* call that cancels what other threads wait for is not made with it.
Begin(t) ==
  /\ pc[t] = "idle"
  /\ frame[t].gen < IF t = Main THEN MaxCalls ELSE 1
  /\ mt = "on" \/ (mt = "off" /\ t = Main)
  /\ \E c \in Calls :
       /\ mt = "on" => ~c.cancels /\ ~c.cleans
       /\ call' = [call EXCEPT ![t] = c]
       /\ pc' = [pc EXCEPT ![t] = IF c.cancels THEN "cancel"
                                  ELSE IF c.started THEN "take" ELSE "failed"]
  /\ frame' = [frame EXCEPT ![t] = iscsi_init_sync_state(t)]
  /\ UNCHANGED <<mt, ret, number, counters, outqueue, waitpdu, current, svc,
                 wire, history, ticks>>

\* iscsi_scsi_cancel_all_tasks, before the request, which may be refused.
CancelFirst(t) ==
  /\ pc[t] = "cancel"
  /\ CancelPdus
  /\ pc' = [pc EXCEPT ![t] = IF call[t].started THEN "take" ELSE "failed"]
  /\ UNCHANGED <<mt, call, ret, number, expcmdsn, maxcmdsn, svc, wire, ticks>>

\* Mutant of NextNumber: without the lock the increment of a second thread is
\* lost.
NextNumberShared(t) == IF call[t].immediate \/ t # Main THEN cmdsn ELSE cmdsn + 1

\* iscsi->cmdsn++ for a command, nothing for an immediate PDU.
NextNumber(t) == IF call[t].immediate THEN cmdsn ELSE cmdsn + 1

\* The number of a command is taken under the lock; that of an immediate PDU
\* is read without it.
TakeNumber(t) ==
  /\ pc[t] = "take"
  /\ number' = [number EXCEPT ![t] = cmdsn]
  /\ cmdsn' = NextNumber(t)
  /\ pc' = [pc EXCEPT ![t] = "queue"]
  /\ UNCHANGED <<mt, call, frame, ret, expcmdsn, maxcmdsn, outqueue, waitpdu,
                 current, svc, wire, history, ticks>>

\* Mutant of InFrontOf: PDUs are queued in the order in which they come.
InFrontOfNone(p) == {}

\* The PDUs that the new one goes in front of; it takes its place before the
\* first of them.
InFrontOf(p) ==
  {i \in DOMAIN outqueue : \/ p.cmdsn < outqueue[i].cmdsn
                           \/ p.immediate /\ ~outqueue[i].immediate}

\* iscsi_add_to_outqueue, the lock section.
Enqueue(t) ==
  LET p == [ t |-> t, gen |-> frame[t].gen, immediate |-> call[t].immediate,
             late |-> FALSE,
             cmdsn |-> IF call[t].immediate /\ outqueue # << >>
                       THEN Head(outqueue).cmdsn ELSE number[t] ]
      last == InFrontOf(p) = {}
  IN  /\ pc[t] = "queue"
      /\ \/ last /\ outqueue' = Append(outqueue, p)
         \/ \E i \in InFrontOf(p) :
              /\ \A j \in InFrontOf(p) : i <= j
              /\ outqueue' = InsertAt(outqueue, i, p)
      /\ pc' = [pc EXCEPT ![t] = IF mt = "off" THEN "kick"
                                 ELSE IF last THEN "signal" ELSE "wait"]
      /\ number' = [number EXCEPT ![t] = 0]
      /\ UNCHANGED <<mt, call, frame, ret, counters, waitpdu, current, svc,
                     wire, history, ticks>>

IsHead(t) == outqueue # << >> /\ Head(outqueue).t = t
             /\ Head(outqueue).gen = frame[t].gen

\* After the lock section: a signal breaks the poll of the service thread,
\* and only that.
Signal(t) ==
  /\ pc[t] = "signal"
  /\ pc' = [pc EXCEPT ![t] = "wait"]
  /\ svc' = IF IsHead(t) /\ svc.pc = "poll"
            THEN At("write") ELSE svc
  /\ UNCHANGED <<mt, call, frame, ret, number, counters, outqueue, waitpdu,
                 current, wire, history, ticks>>

\* Without the service thread the head of the queue is sent at once.
Kick(t) ==
  /\ pc[t] = "kick"
  /\ pc' = [pc EXCEPT ![t] = IF IsHead(t) THEN "flush" ELSE "loop"]
  /\ svc' = IF IsHead(t) THEN At("write") ELSE svc
  /\ UNCHANGED <<mt, call, frame, ret, number, counters, outqueue, waitpdu,
                 current, wire, history, ticks>>

-----------------------------------------------------------------------------
(* event_loop *)

\* With the service thread: wait for the semaphore, destroy it.
WaitSem(t) ==
  /\ pc[t] = "wait"
  /\ frame[t].sem > 0
  /\ frame' = [frame EXCEPT ![t].sem = @ - 1]
  /\ pc' = [pc EXCEPT ![t] = "return"]
  /\ UNCHANGED <<mt, call, ret, number, counters, outqueue, waitpdu, current,
                 svc, wire, history, ticks>>

\* Without it, between two turns of the service.
AtTop(t) == pc[t] = "loop" /\ svc.pc = "events"

Flushed(t) ==
  /\ pc[t] = "flush"
  /\ svc.pc \in {"events", "failed"}
  /\ pc' = [pc EXCEPT ![t] = "loop"]
  /\ svc' = At("events")
  /\ UNCHANGED <<mt, call, frame, ret, number, counters, outqueue, waitpdu,
                 current, wire, history, ticks>>

LoopDone(t) ==
  /\ AtTop(t)
  /\ frame[t].finished
  /\ pc' = [pc EXCEPT ![t] = "return"]
  /\ UNCHANGED <<mt, call, frame, ret, number, counters, outqueue, waitpdu,
                 current, svc, wire, history, ticks>>

\* iscsi_timeout_scan takes every PDU that is late off its list, commands
\* only from the outqueue, but completes no more than the first of a list.
Late(q) == {i \in DOMAIN q : q[i].late}

LoopTimeout(t) ==
  LET out == Late(outqueue) \cap Commands
      done == First(waitpdu, Late(waitpdu))
      ps == First(outqueue, out) \cup done
  IN  /\ AtTop(t)
      /\ ~frame[t].finished
      /\ frame[t].late
      /\ outqueue' \in Retain(MovedDown(out), DOMAIN outqueue \ out)
      /\ waitpdu' \in Retain(waitpdu, DOMAIN waitpdu \ Late(waitpdu))
      /\ current' = IF current \in done THEN None ELSE current
      /\ cmdsn' = cmdsn - Cardinality(out)
      /\ frame' = [frame EXCEPT ![t].status = -1,
                     ![t].finished = \E p \in ps : Alive(p)]
      /\ answered' = answered \cup {<<p.t, p.gen, -1>> : p \in ps}
      /\ wild' = wild \cup {<<p.t, p.gen>> : p \in {q \in ps : ~Alive(q)}}
      /\ pc' = [pc EXCEPT ![t] = "return"]
      /\ UNCHANGED <<mt, call, ret, number, expcmdsn, maxcmdsn, svc, wire,
                     failures, ticks>>

\* poll failed, the service failed, or the socket is gone.
LoopFails(t) ==
  /\ pc[t] = "loop"
  /\ svc.pc \in {"poll", "failed"}
  /\ frame' = [frame EXCEPT ![t].status = -1]
  /\ svc' = At("events")
  /\ pc' = [pc EXCEPT ![t] = "return"]
  /\ UNCHANGED <<mt, call, ret, number, counters, outqueue, waitpdu, current,
                 wire, history, ticks>>

\* The call returns and its frame is gone.
Leave(t) ==
  /\ frame' = [frame EXCEPT ![t] = NoFrame(@.gen)]
  /\ call' = [call EXCEPT ![t] = NoCall]
  /\ pc' = [pc EXCEPT ![t] = "idle"]

\* The call could not be started.
StartFails(t) ==
  /\ pc[t] = "failed"
  /\ Leave(t)
  /\ ret' = [ret EXCEPT ![t] = "error"]
  /\ UNCHANGED <<mt, number, counters, outqueue, waitpdu, current, svc, wire,
                 history, ticks>>

\* Most calls just return what the frame says.
Return(t) ==
  LET failed == frame[t].status # 0
  IN  /\ pc[t] = "return"
      /\ ~(failed /\ call[t].cleans)
      /\ Leave(t)
      /\ ret' = [ret EXCEPT ![t] = IF failed THEN "error" ELSE "good"]
      /\ failures' = IF failed THEN failures \cup {<<t, frame[t].gen>>}
                     ELSE failures
      /\ UNCHANGED <<mt, number, counters, outqueue, waitpdu, current, svc,
                     wire, answered, wild, ticks>>

\* connect_sync and full_connect_sync cancel what is left of a call that
\* failed, before they return.
Clean(t) ==
  /\ pc[t] = "return"
  /\ call[t].cleans /\ frame[t].status # 0
  /\ CancelPdus
  /\ ret' = [ret EXCEPT ![t] = "error"]
  /\ pc' = [pc EXCEPT ![t] = "failed"]
  /\ UNCHANGED <<mt, call, number, expcmdsn, maxcmdsn, svc, wire, ticks>>

-----------------------------------------------------------------------------
(* The service: run by the service thread, or by Main in event_loop *)

\* In event_loop a turn that has begun runs to its end; before the next one
\* Main looks at its frame and at the clock.
Running == \/ mt \in {"on", "stopping"}
           \/ pc[Main] = "flush"
           \/ /\ pc[Main] = "loop"
              /\ svc.pc = "events" => ~frame[Main].finished /\ ~frame[Main].late

SvcStep(from) == Running /\ svc.pc = from

\* iscsi_which_events, with the lock.  The service thread looks at
\* multithreading_enabled before every turn.
CanWrite == \/ current # None
            \/ outqueue # << >> /\ (\/ Head(outqueue).cmdsn <= maxcmdsn
                                    \/ Head(outqueue).immediate)

WhichEvents ==
  /\ SvcStep("events")
  /\ mt # "stopping" /\ pc[Main] # "flush"
  /\ svc' = [pc |-> "poll", out |-> CanWrite]
  /\ UNCHANGED <<mt, callers, frame, counters, outqueue, waitpdu, current,
                 wire, history, ticks>>

\* poll returns what is ready, or nothing when its timeout has passed.  A
\* connection that is down makes the service fail before it looks at the
\* queues, and the scan for timeouts is not reached.
Poll ==
  /\ SvcStep("poll")
  /\ svc' = CASE link = "down" -> At("failed")
              [] link = "up" /\ replies # << >> -> [svc EXCEPT !.pc = "read"]
              [] OTHER -> At(IF svc.out THEN "write" ELSE "events")
  /\ UNCHANGED <<mt, callers, frame, counters, outqueue, waitpdu, current,
                 wire, history, ticks>>

\* The service thread goes on after a failure.
Failed ==
  /\ SvcStep("failed")
  /\ mt # "off"
  /\ svc' = At("events")
  /\ UNCHANGED <<mt, callers, frame, counters, outqueue, waitpdu, current,
                 wire, history, ticks>>

\* POLLIN: one PDU is read.  The PDU it answers is completed; a reply that
\* nobody waits for is an error.
Read ==
  /\ SvcStep("read")
  /\ LET r == Head(replies)
         I == {i \in DOMAIN waitpdu : <<waitpdu[i].t, waitpdu[i].gen>> = r.to}
     IN  /\ replies' = Tail(replies)
         /\ expcmdsn' = IF r.exp > expcmdsn THEN r.exp ELSE expcmdsn
         /\ maxcmdsn' = IF r.max > maxcmdsn THEN r.max ELSE maxcmdsn
         /\ Callbacks({waitpdu[i] : i \in I}, 0)
         /\ waitpdu' \in Retain(waitpdu, DOMAIN waitpdu \ I)
         /\ svc' = At(IF I = {} THEN "failed"
                      ELSE IF svc.out THEN "write" ELSE "events")
         /\ link' = IF I = {} THEN "down" ELSE link
  /\ UNCHANGED <<mt, callers, cmdsn, outqueue, current, target, ticks>>

\* iscsi_write_to_socket looks at the head of the queue without the lock.
\* What the target cannot expect any more is an error.
Stale == /\ outqueue # << >>
         /\ Head(outqueue).cmdsn < expcmdsn

TestHead ==
  /\ SvcStep("write")
  /\ svc' = At(IF current # None THEN "send"
               ELSE IF outqueue = << >> \/ ~CanWrite THEN "events"
               ELSE IF Stale THEN "failed" ELSE "pop")
  /\ link' = IF current = None /\ CanWrite /\ Stale THEN "down" ELSE link
  /\ UNCHANGED <<mt, callers, frame, counters, outqueue, waitpdu, current,
                 target, replies, history, ticks>>

\* With the lock: whatever is the head now goes to the wait queue and out.
Pop ==
  /\ SvcStep("pop")
  /\ current' = Head(outqueue)
  /\ outqueue' = Tail(outqueue)
  /\ waitpdu' = Append(waitpdu, Head(outqueue))
  /\ svc' = At("send")
  /\ UNCHANGED <<mt, callers, frame, counters, wire, history, ticks>>

\* The first number from n on that is not among ns.
NextMissing(n, ns) ==
  CHOOSE m \in n .. n + Cardinality(ns) :
    m \notin ns /\ \A k \in n .. m - 1 : k \in ns

\* The socket takes all of it, or part of it for now.
Send ==
  /\ SvcStep("send")
  /\ LET has == target.has \cup {current}
     IN  target' = [ has |-> has,
                     exp |-> NextMissing(target.exp,
                               {p.cmdsn : p \in {q \in has : ~q.immediate}}) ]
  /\ current' = None
  /\ svc' = At("write")
  /\ UNCHANGED <<mt, callers, frame, counters, outqueue, waitpdu, link,
                 replies, history, ticks>>

SendPart ==
  /\ SvcStep("send")
  /\ svc' = At("events")
  /\ UNCHANGED <<mt, callers, frame, counters, outqueue, waitpdu, current,
                 wire, history, ticks>>

-----------------------------------------------------------------------------
(* Starting and stopping the service thread *)

\* Main starts it and waits until it runs; not after a call that failed,
\* after which the examples give up.
Start ==
  /\ mt = "off"
  /\ pc[Main] = "idle"
  /\ ret[Main] # "error"
  /\ mt' = "starting"
  /\ UNCHANGED <<callers, frame, counters, outqueue, waitpdu, current, svc,
                 wire, history, ticks>>

Started ==
  /\ mt = "starting"
  /\ mt' = "on"
  /\ svc' = At("events")
  /\ UNCHANGED <<callers, frame, counters, outqueue, waitpdu, current, wire,
                 history, ticks>>

\* Main stops it when no other thread uses the context, and joins it.  No
\* signal is sent: the thread sees the flag after its poll.
Stop ==
  /\ mt = "on"
  /\ \A t \in Threads : pc[t] = "idle"
  /\ mt' = "stopping"
  /\ UNCHANGED <<callers, frame, counters, outqueue, waitpdu, current, svc,
                 wire, history, ticks>>

Stopped ==
  /\ mt = "stopping"
  /\ svc.pc = "events"
  /\ mt' = "off"
  /\ UNCHANGED <<callers, frame, counters, outqueue, waitpdu, current, svc,
                 wire, history, ticks>>

-----------------------------------------------------------------------------
(* The target, the network and the clock *)

\* Immediate requests are answered at any time, commands once all before
\* them have come.
Answer ==
  \E p \in target.has :
    /\ p.immediate \/ p.cmdsn < target.exp
    /\ target' = [target EXCEPT !.has = @ \ {p}]
    /\ replies' = Append(replies, [ to |-> <<p.t, p.gen>>, exp |-> target.exp,
                                    max |-> target.exp + Window - 1 ])
    /\ UNCHANGED <<mt, callers, frame, link, counters, outqueue, waitpdu,
                   current, svc, history, ticks>>

LinkDown ==
  /\ link = "up"
  /\ link' = "down"
  /\ UNCHANGED <<mt, callers, frame, counters, outqueue, waitpdu, current,
                 svc, target, replies, history, ticks>>

\* scsi_timeout seconds go by, for everything that is waiting.  What the
\* service thread makes of late PDUs is the subject of PduQueue.
TimePasses ==
  LET age(p) == [p EXCEPT !.late = TRUE]
  IN  /\ mt = "off"
      /\ ticks < MaxTicks
      /\ ticks' = ticks + 1
      /\ AtTop(Main)
      /\ frame' = [frame EXCEPT ![Main].late = TRUE]
      /\ outqueue' = [i \in DOMAIN outqueue |-> age(outqueue[i])]
      /\ waitpdu' = [i \in DOMAIN waitpdu |-> age(waitpdu[i])]
      /\ current' = IF current = None THEN None ELSE age(current)
      /\ UNCHANGED <<mt, callers, counters, svc, wire, history>>

-----------------------------------------------------------------------------
Caller(t) == \/ CancelFirst(t) \/ TakeNumber(t) \/ Enqueue(t) \/ Signal(t)
             \/ Kick(t) \/ WaitSem(t) \/ Flushed(t) \/ LoopDone(t)
             \/ LoopTimeout(t) \/ StartFails(t) \/ Return(t) \/ Clean(t)

Service == WhichEvents \/ Poll \/ Failed \/ Read \/ TestHead \/ Pop
           \/ Send

\* The program makes no more calls.
Finished ==
  /\ mt = "off" /\ pc[Main] = "idle" /\ frame[Main].gen = MaxCalls
  /\ UNCHANGED vars

Next == \/ \E t \in Threads : Begin(t) \/ Caller(t) \/ LoopFails(t)
        \/ Service \/ SendPart \/ Start \/ Started \/ Stop \/ Stopped
        \/ Answer \/ LinkDown \/ TimePasses \/ Finished

Spec == Init /\ [][Next]_vars

\* Threads are scheduled, a socket that takes part of a PDU takes the rest
\* later, and the target answers.
Fairness == /\ \A t \in Threads : WF_vars(Caller(t))
            /\ WF_vars(Service) /\ SF_vars(Send)
            /\ WF_vars(Started) /\ WF_vars(Stopped) /\ WF_vars(Answer)

FairSpec == Spec /\ Fairness

-----------------------------------------------------------------------------
(* Properties *)

\* A call that says it succeeded does so because its own callback ran with
\* GOOD, not because of the reply to another call or of an earlier one.
GoodMeansAnswered ==
  \A t \in Threads : pc[t] = "idle" /\ ret[t] = "good" =>
                       <<t, frame[t].gen, 0>> \in answered

\* A callback writes into a frame that is gone only when its call gave up on
\* an error and left its PDU behind: never after a call that succeeded,
\* never after a connect, which cancels what it leaves, and never for calls
\* made with the service thread.
OnlyFailuresLeaveFrames == wild \subseteq failures

\* Nothing was cancelled, and nothing timed out.
Undisturbed == ticks = 0 /\ \A a \in answered : a[3] = 0

Unsent == {p \in Range(outqueue) \cup ({current} \ {None}) : ~p.immediate}
Taken == {t \in Threads : pc[t] = "queue" /\ ~call[t].immediate}
Ahead == {p \in target.has : ~p.immediate /\ p.cmdsn >= target.exp}

\* However the threads interleave, every number the target still expects is
\* held by exactly one thread or PDU: none is lost, none is used twice.  And
\* the service finds the head of the queue stale, and gives the connection
\* up, only for an immediate PDU, whose number is read without the lock:
\* never for a command, although the number of a command is taken in one lock
\* section and the command is queued in another.
NumbersAccounted ==
  Undisturbed =>
    /\ target.exp .. cmdsn - 1 =
         {number[t] : t \in Taken} \cup {p.cmdsn : p \in Unsent \cup Ahead}
    /\ cmdsn - target.exp = Cardinality(Taken) + Cardinality(Unsent \cup Ahead)
    /\ Stale => Head(outqueue).immediate

\* The connection is lost, or a PDU was cancelled or timed out, half sent
\* perhaps: then the number of a command may never reach the target.
Excused == link = "down" \/ ~Undisturbed

\* With the service thread every SCSI command, and every other call whose
\* callback posts the semaphore, returns: a signal that is lost, or not sent,
\* only costs the time of a poll.
PostedCallsReturn ==
  \A t \in Threads :
    (pc[t] = "wait" /\ Posts(call[t].cb)) ~> (pc[t] # "wait" \/ Excused)

=============================================================================
