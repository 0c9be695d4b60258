-------------------------- MODULE AttemptLifecycle --------------------------
(***************************************************************************)
(* How one App gets, keeps and loses its Transfer Session: connect and the *)
(* accept loop compete for App.current, session.Open negotiates and asks   *)
(* both users, the serve loop, the idle monitor, disconnect and shutdown   *)
(* end it. internal/terminal/connection.go, lifecycle.go, commands.go and  *)
(* the opening of a session in internal/session/session.go.                *)
(*                                                                         *)
(* The Peer at the other end is the environment: it may answer, refuse,    *)
(* vanish or stay silent at any point. What a verified session carries is  *)
(* the subject of OfferCoordination and FileTransfer; here a frame is only *)
(* a sign of activity.                                                     *)
(*                                                                         *)
(* A step is a critical section of App.mu, with the calls after it that    *)
(* nobody can tell apart from it, or a blocking call that returns.         *)
(***************************************************************************)
EXTENDS Naturals, FiniteSets, IdleMonitor, DiscoveryManager

CONSTANT MaxRejecting  \* connections answered by RejectBusy at one time

ASSUME MaxRejectingAssumption == MaxRejecting \in Nat

VARIABLES
    closed,     \* App.closed
    current,    \* App.current: an attempt, 0 for nil
    begun,      \* attempts begun so far; they are numbered in this order
    input,      \* what the input loop of Run is doing
    target,     \* the attempt that disconnect or shutdown has in its hands
    rejecting,  \* goroutines in RejectBusy
    pc,         \* pc[a]: where the goroutine of attempt a is
    role,       \* role[a]: session.Outbound or session.Inbound
    canceled,   \* canceled[a]: the context of a is canceled
    stopping,   \* stopping[a]
    raw,        \* raw[a]: attempt.raw is set
    conn,       \* conn[a]: the connection of a
    secure,     \* secure[a]: attempt.secure is set
    waiting,    \* waiting[a]: the verification code is on the screen
    answer,     \* answer[a]: what the user has sent on attempt.answer
    asking,     \* asking[a]: where the goroutine that asks the user is
    confirmed   \* confirmed[a]: who has accepted the code of a

appVars == <<closed, current, begun, input, target, rejecting>>
openVars == <<waiting, answer, asking, confirmed>>
attemptVars == <<pc, role, canceled, stopping, raw, conn, secure>>
vars == <<appVars, attemptVars, openVars, idleVars, discoveryVars>>

Opening == {"handshake", "hello", "availability", "confirming"}
AttemptStates ==
    {"unused", "begun", "dialing", "attaching", "opened", "serving", "cleanup",
     "failing", "publishing", "advertising", "done"} \cup Opening
InputStates ==
    {"ready", "line", "command", "withdrawing", "disconnecting", "closing", "waiting",
     "stopped"}

Goto(a, state) == pc' = [pc EXCEPT ![a] = state]
CloseConn(a) == conn' = [conn EXCEPT ![a] = "closed"]

Init ==
    /\ closed = FALSE
    /\ current = 0
    /\ begun = 0
    /\ input = "ready"
    /\ target = 0
    /\ rejecting = 0
    /\ pc = [a \in Attempts |-> "unused"]
    /\ role = [a \in Attempts |-> "none"]
    /\ canceled = [a \in Attempts |-> FALSE]
    /\ stopping = [a \in Attempts |-> FALSE]
    /\ raw = [a \in Attempts |-> FALSE]
    /\ conn = [a \in Attempts |-> "none"]
    /\ secure = [a \in Attempts |-> FALSE]
    /\ waiting = [a \in Attempts |-> FALSE]
    /\ answer = [a \in Attempts |-> "none"]
    /\ asking = [a \in Attempts |-> "off"]
    /\ confirmed = [a \in Attempts |-> {}]
    /\ IdleInit
    /\ DiscoveryInit

(***************************************************************************)
(* Beginning an attempt                                                    *)
(***************************************************************************)

\* BUG VARIANT: an attempt is begun beside the current one.
CanBeginBeside == ~closed

CanBegin == ~closed /\ current = 0

\* The critical section of beginAttempt; the withdrawal of the advertisement
\* that follows it is Withdraw.
BeginAttempt(a, r, c) ==
    /\ CanBegin
    /\ a = begun + 1
    /\ begun' = a
    /\ current' = a
    /\ Goto(a, "begun")
    /\ role' = [role EXCEPT ![a] = r]
    /\ conn' = [conn EXCEPT ![a] = c]
    /\ UNCHANGED <<closed, target, canceled, stopping, raw, secure, openVars,
                   idleVars, discoveryVars>>

\* The connect command.
Connect(a) ==
    /\ input = "command"
    /\ BeginAttempt(a, "outbound", "none")
    /\ input' = "withdrawing"
    /\ UNCHANGED rejecting

\* The accept loop goes on to the next connection when it has attached this one.
Accepting ==
    /\ ~rootDone
    /\ \A a \in Attempts : ~(role[a] = "inbound" /\ pc[a] \in {"begun", "attaching"})

Accept(a) ==
    /\ Accepting
    /\ BeginAttempt(a, "inbound", "open")
    /\ UNCHANGED <<input, rejecting>>

\* A connection that finds the App busy is refused by a goroutine of its own,
\* which a silent Peer may keep.
AcceptBusy ==
    /\ Accepting
    /\ ~CanBegin
    /\ rejecting < MaxRejecting
    /\ rejecting' = rejecting + 1
    /\ UNCHANGED <<closed, current, begun, input, target, attemptVars, openVars,
                   idleVars, discoveryVars>>

RejectBusy ==
    /\ rejecting > 0
    /\ rejecting' = rejecting - 1
    /\ UNCHANGED <<closed, current, begun, input, target, attemptVars, openVars,
                   idleVars, discoveryVars>>

\* The end of beginAttempt, in the input loop or in the accept loop.
Withdraw(a) ==
    /\ pc[a] = "begun"
    /\ SetAvailable(0, FALSE)
    /\ Goto(a, IF role[a] = "outbound" THEN "dialing" ELSE "attaching")
    /\ input' = IF role[a] = "outbound" THEN "ready" ELSE input
    /\ UNCHANGED <<closed, current, begun, target, rejecting, role, canceled, stopping,
                   raw, conn, secure, openVars, idleVars, rootDone, watcher>>

\* PeerDial returns; it may still succeed when its context is canceled.
Dial(a) ==
    /\ pc[a] = "dialing"
    /\ \/ /\ Goto(a, "attaching")
          /\ conn' = [conn EXCEPT ![a] = "open"]
       \/ /\ Goto(a, "failing")
          /\ UNCHANGED conn
    /\ UNCHANGED <<appVars, role, canceled, stopping, raw, secure, openVars, idleVars,
                   discoveryVars>>

Attachable(a) == current = a /\ ~closed /\ ~stopping[a]

\* attachConnection and what its callers do with a refusal: they close the
\* connection and return.
Attach(a) ==
    /\ pc[a] = "attaching"
    /\ \/ /\ Attachable(a)
          /\ raw' = [raw EXCEPT ![a] = TRUE]
          /\ Goto(a, "handshake")
          /\ UNCHANGED conn
       \/ /\ ~Attachable(a)
          /\ CloseConn(a)
          /\ Goto(a, "done")
          /\ UNCHANGED raw
    /\ UNCHANGED <<appVars, role, canceled, stopping, secure, openVars, idleVars,
                   discoveryVars>>

(***************************************************************************)
(* session.Open                                                            *)
(***************************************************************************)

\* The Peer answers the handshake, its hello and the availability in turn.
Negotiate(a) ==
    /\ conn[a] = "open"
    /\ \/ pc[a] = "handshake" /\ Goto(a, "hello") /\ UNCHANGED asking
       \/ pc[a] = "hello" /\ Goto(a, "availability") /\ UNCHANGED asking
       \/ /\ pc[a] = "availability"
          /\ Goto(a, "confirming")
          /\ asking' = [asking EXCEPT ![a] = "start"]
    /\ UNCHANGED <<appVars, role, canceled, stopping, raw, conn, secure, waiting, answer,
                   confirmed, idleVars, discoveryVars>>

\* Open returns an error, at any point and for whatever reason; the protected
\* connection is closed with it.
OpenFails(a) ==
    /\ pc[a] \in Opening
    /\ CloseConn(a)
    /\ Goto(a, "failing")
    /\ confirmed' = [confirmed EXCEPT ![a] = {}]
    /\ UNCHANGED <<appVars, role, canceled, stopping, raw, secure, waiting, answer, asking,
                   idleVars, discoveryVars>>

\* What Open cannot outlive: its connection, the handshake timeout and, once it
\* asks for confirmations, its context and a no of its user.
OpenMustEnd(a) ==
    \/ conn[a] = "closed"
    \/ pc[a] = "handshake"
    \/ /\ pc[a] = "confirming"
       /\ \/ canceled[a]
          \/ asking[a] = "failed"
          \/ asking[a] = "answered" /\ answer[a] = "no"

\* The goroutine of exchangeConfirmation that calls establish's confirm: it
\* looks at App.current before it puts the code on the screen, ...
AskUser(a) ==
    /\ asking[a] = "start"
    /\ IF current # a \/ closed
         THEN asking' = [asking EXCEPT ![a] = "failed"] /\ UNCHANGED waiting
         ELSE /\ asking' = [asking EXCEPT ![a] = "asking"]
              /\ waiting' = [waiting EXCEPT ![a] = TRUE]
    /\ UNCHANGED <<appVars, attemptVars, answer, confirmed, idleVars, discoveryVars>>

\* ... and waits for the user or for the end of exchangeConfirmation.
UserAnswered(a) ==
    /\ asking[a] = "asking"
    /\ \/ /\ answer[a] # "none"
          /\ asking' = [asking EXCEPT ![a] = "answered"]
          /\ UNCHANGED waiting
       \/ /\ canceled[a] \/ pc[a] # "confirming"
          /\ asking' = [asking EXCEPT ![a] = "failed"]
          /\ waiting' = [waiting EXCEPT ![a] = FALSE]
    /\ UNCHANGED <<appVars, attemptVars, answer, confirmed, idleVars, discoveryVars>>

\* BUG VARIANT: any answer counts as yes.
TakeAnyAnswer(a) ==
    /\ pc[a] = "confirming"
    /\ asking[a] = "answered"
    /\ conn[a] = "open"
    /\ "local" \notin confirmed[a]
    /\ confirmed' = [confirmed EXCEPT ![a] = @ \cup {"local"}]
    /\ UNCHANGED <<appVars, attemptVars, waiting, answer, asking, idleVars, discoveryVars>>

\* exchangeConfirmation takes the user's answer and sends it to the Peer; an
\* answer no, or a failed write, is OpenFails.
TakeAnswer(a) ==
    /\ pc[a] = "confirming"
    /\ asking[a] = "answered"
    /\ answer[a] = "yes"
    /\ conn[a] = "open"
    /\ "local" \notin confirmed[a]
    /\ confirmed' = [confirmed EXCEPT ![a] = @ \cup {"local"}]
    /\ UNCHANGED <<appVars, attemptVars, waiting, answer, asking, idleVars, discoveryVars>>

\* It takes the Peer's confirmation; a rejection is OpenFails.
TakePeerConfirmation(a) ==
    /\ pc[a] = "confirming"
    /\ conn[a] = "open"
    /\ "peer" \notin confirmed[a]
    /\ confirmed' = [confirmed EXCEPT ![a] = @ \cup {"peer"}]
    /\ UNCHANGED <<appVars, attemptVars, waiting, answer, asking, idleVars, discoveryVars>>

Open(a) ==
    /\ pc[a] = "confirming"
    /\ confirmed[a] = {"local", "peer"}
    /\ Goto(a, "opened")
    /\ UNCHANGED <<appVars, role, canceled, stopping, raw, conn, secure, openVars, idleVars,
                   discoveryVars>>

\* establish with an open session: it is kept only by an attempt that is still
\* wanted.
Establish(a) ==
    /\ pc[a] = "opened"
    /\ \/ /\ Attachable(a)
          /\ secure' = [secure EXCEPT ![a] = TRUE]
          /\ waiting' = [waiting EXCEPT ![a] = FALSE]
          /\ Goto(a, "serving")
          /\ StartMonitor(a)
          /\ UNCHANGED conn
       \/ /\ ~Attachable(a)
          /\ CloseConn(a)
          /\ Goto(a, "failing")
          /\ UNCHANGED <<secure, waiting, idleVars>>
    /\ UNCHANGED <<appVars, role, canceled, stopping, raw, answer, asking, confirmed,
                   discoveryVars>>

(***************************************************************************)
(* The verified session                                                    *)
(***************************************************************************)

Serving(a) == pc[a] = "serving"

\* noteSessionActivity for a frame of the Peer.
Receive(a) ==
    /\ Serving(a)
    /\ conn[a] = "open"
    /\ current = a
    /\ NoteActivity(a)
    /\ UNCHANGED <<appVars, attemptVars, openVars, monitor, timer, transferActive, discoveryVars>>

\* startTransfer and finishTransferLocked, from the goroutines of an offer.
TransferStarts(a) ==
    /\ Serving(a)
    /\ current = a
    /\ ~transferActive[a]
    /\ StartTransfer(a)
    /\ UNCHANGED <<appVars, attemptVars, openVars, discoveryVars>>

TransferFinishes(a) ==
    /\ Serving(a)
    /\ transferActive[a]
    /\ FinishTransfer(a)
    /\ UNCHANGED <<appVars, attemptVars, openVars, discoveryVars>>

\* The serve loop returns: the Peer closed, a frame was wrong, or the
\* connection was closed here.
ServeEnds(a) ==
    /\ Serving(a)
    /\ canceled' = [canceled EXCEPT ![a] = TRUE]
    /\ Goto(a, "cleanup")
    /\ UNCHANGED <<appVars, role, stopping, raw, conn, secure, openVars, idleVars,
                   discoveryVars>>

\* BUG VARIANT: the Peer is not published again.
ReleaseQuietly(a) ==
    /\ current' = IF current = a THEN 0 ELSE current
    /\ Goto(a, "done")
    /\ canceled' = [canceled EXCEPT ![a] = TRUE]

\* Who gives back App.current makes the Peer available again.
Release(a) ==
    /\ current' = IF current = a THEN 0 ELSE current
    /\ Goto(a, IF current = a /\ ~closed THEN "publishing" ELSE "done")
    /\ canceled' = [canceled EXCEPT ![a] = TRUE]

\* The end of establish, after cleanupIncoming.
FinishSession(a) ==
    /\ pc[a] = "cleanup"
    /\ Release(a)
    /\ CloseConn(a)
    /\ UNCHANGED <<closed, begun, input, target, rejecting, role, stopping, raw, secure,
                   openVars, idleVars, discoveryVars>>

FinishFailed(a) ==
    /\ pc[a] = "failing"
    /\ Release(a)
    /\ waiting' = [waiting EXCEPT ![a] = FALSE]
    /\ UNCHANGED <<closed, begun, input, target, rejecting, role, stopping, raw, conn, secure,
                   answer, asking, confirmed, idleVars, discoveryVars>>

\* setDiscoveryAvailable(true), after App.mu has been released.
Publish(a) ==
    /\ pc[a] = "publishing"
    /\ SetAvailable(a, TRUE)
    /\ Goto(a, IF availabilityMu' = a THEN "advertising" ELSE "done")
    /\ UNCHANGED <<appVars, role, canceled, stopping, raw, conn, secure, openVars, idleVars,
                   rootDone, watcher>>

Advertised(a) ==
    /\ pc[a] = "advertising"
    /\ Advertise(a)
    /\ Goto(a, "done")
    /\ UNCHANGED <<appVars, role, canceled, stopping, raw, conn, secure, openVars, idleVars,
                   rootDone, watcher>>

(***************************************************************************)
(* The idle monitor                                                        *)
(***************************************************************************)

Unattended(a) == current # a \/ stopping[a]

\* The monitor returns when the attempt is over, at its check or while asleep.
MonitorEnds(a) ==
    /\ \/ monitor[a] = "check" /\ Unattended(a)
       \/ monitor[a] \in {"timer", "transfer"} /\ canceled[a]
    /\ MonitorReturns(a)
    /\ UNCHANGED <<appVars, attemptVars, openVars, discoveryVars>>

MonitorRuns(a) ==
    /\ \/ ~Unattended(a) /\ (AwaitTransfer(a) \/ Warn(a) \/ AwaitTimer(a))
       \/ Wake(a)
    /\ UNCHANGED <<appVars, attemptVars, openVars, discoveryVars>>

SessionExpires(a) ==
    /\ ~Unattended(a)
    /\ Expire(a)
    /\ stopping' = [stopping EXCEPT ![a] = TRUE]
    /\ UNCHANGED <<appVars, pc, role, canceled, raw, conn, secure, openVars, discoveryVars>>

CloseExpired(a) ==
    /\ monitor[a] = "expiring"
    /\ canceled' = [canceled EXCEPT ![a] = TRUE]
    /\ CloseConn(a)
    /\ MonitorReturns(a)
    /\ UNCHANGED <<appVars, pc, role, stopping, raw, secure, openVars, discoveryVars>>

TimePasses ==
    /\ Tick
    /\ UNCHANGED <<appVars, attemptVars, openVars, discoveryVars>>

(***************************************************************************)
(* The input loop                                                          *)
(***************************************************************************)

\* The input loop goes from one call to the next.
Input(from, to) == input = from /\ input' = to

Verified == current \in Attempts /\ secure[current]
Prompted == current \in Attempts /\ waiting[current]

\* A line is read in a verified session: noteTerminalActivity marks the session
\* as active and, outside a transfer, writes a frame from the input loop, which
\* stays at "line" until the frame is written or the connection closed.
ReadLine ==
    /\ Input("ready", "line")
    /\ Verified
    /\ NoteActivity(current)
    /\ UNCHANGED <<closed, current, begun, target, rejecting, attemptVars, openVars, monitor,
                   timer, transferActive, discoveryVars>>

\* The input loop has a line and no activity left to note.
HasLine == input = "line" \/ (input = "ready" /\ ~Verified)

\* answerPendingConfirmation: while the code is on the screen every line is an
\* answer to it, and a line that is neither yes nor no is asked for again.
AnswerCode ==
    /\ HasLine
    /\ Prompted
    /\ input' = "ready"
    /\ \/ \E v \in {"yes", "no"} :
            /\ waiting' = [waiting EXCEPT ![current] = FALSE]
            /\ answer' = [answer EXCEPT ![current] = v]
       \/ UNCHANGED <<waiting, answer>>
    /\ UNCHANGED <<closed, current, begun, target, rejecting, attemptVars, asking, confirmed,
                   idleVars, discoveryVars>>

\* Otherwise the line is a command, which runs after App.mu was released.
ReadCommand ==
    /\ HasLine
    /\ ~Prompted
    /\ input' = "command"
    /\ UNCHANGED <<closed, current, begun, target, rejecting, attemptVars, openVars, idleVars,
                   discoveryVars>>

\* Every command that does not touch the attempt: help, keep-alive, whose frame
\* a goroutine sends, send, cancel, and connect or disconnect when refused.
OtherCommand ==
    /\ Input("command", "ready")
    /\ UNCHANGED <<closed, current, begun, target, rejecting, attemptVars, openVars, idleVars,
                   discoveryVars>>

\* disconnect, under App.mu ...
Disconnect ==
    /\ Input("command", "disconnecting")
    /\ current \in Attempts
    /\ target' = current
    /\ stopping' = [stopping EXCEPT ![current] = TRUE]
    /\ UNCHANGED <<closed, current, begun, rejecting, pc, role, canceled, raw, conn, secure,
                   openVars, idleVars, discoveryVars>>

\* BUG VARIANT: only the context is canceled.
CloseNothing ==
    conn' = [conn EXCEPT ![target] = @]

\* ... and after it. Nobody attaches or keeps a connection of a stopping
\* attempt, so there is still only the one disconnect has read.
CloseTarget ==
    conn' = [conn EXCEPT ![target] = IF raw[target] THEN "closed" ELSE @]

DisconnectCloses ==
    /\ Input("disconnecting", "ready")
    /\ canceled' = [canceled EXCEPT ![target] = TRUE]
    /\ CloseTarget
    /\ target' = 0
    /\ UNCHANGED <<closed, current, begun, rejecting, pc, role, stopping, raw, secure,
                   openVars, idleVars, discoveryVars>>

\* quit, the end of the input, or an interrupt outside a transfer: shutdown
\* under App.mu, ...
Shutdown ==
    /\ Input("command", "closing") \/ Input("ready", "closing")
    /\ closed' = TRUE
    /\ target' = current
    /\ current' = 0
    /\ stopping' = [a \in Attempts |-> stopping[a] \/ a = current]
    /\ UNCHANGED <<begun, rejecting, pc, role, canceled, raw, conn, secure, openVars, idleVars,
                   discoveryVars>>

\* ... the end of rootContext, of the listener and of the attempt, ...
ShutdownCloses ==
    /\ Input("closing", "waiting")
    /\ rootDone' = TRUE
    /\ canceled' = [a \in Attempts |-> canceled[a] \/ a <= begun]
    /\ IF target = 0 THEN UNCHANGED conn ELSE CloseTarget
    /\ UNCHANGED <<closed, current, begun, target, rejecting, pc, role, stopping, raw, secure,
                   openVars, idleVars, available, registration, availabilityMu, watcher>>

\* ... and the wait for attempt.finished, at most two seconds.
ShutdownReturns ==
    /\ Input("waiting", "stopped")
    /\ UNCHANGED <<closed, current, begun, target, rejecting, attemptVars, openVars, idleVars,
                   discoveryVars>>

(***************************************************************************)
(* The specification                                                       *)
(***************************************************************************)

InputLoop ==
    \/ ReadLine \/ AnswerCode \/ ReadCommand \/ OtherCommand
    \/ Disconnect \/ DisconnectCloses
    \/ Shutdown \/ ShutdownCloses \/ ShutdownReturns

Watch ==
    /\ WatchContext
    /\ UNCHANGED <<appVars, attemptVars, openVars, idleVars>>

AttemptNext(a) ==
    \/ Connect(a) \/ Accept(a) \/ Withdraw(a) \/ Dial(a) \/ Attach(a)
    \/ Negotiate(a) \/ OpenFails(a) \/ AskUser(a) \/ UserAnswered(a)
    \/ TakeAnswer(a) \/ TakePeerConfirmation(a) \/ Open(a) \/ Establish(a)
    \/ Receive(a) \/ TransferStarts(a) \/ TransferFinishes(a) \/ ServeEnds(a)
    \/ FinishSession(a) \/ FinishFailed(a) \/ Publish(a) \/ Advertised(a)
    \/ MonitorEnds(a) \/ MonitorRuns(a) \/ SessionExpires(a) \/ CloseExpired(a)

Next ==
    \/ \E a \in Attempts : AttemptNext(a)
    \/ AcceptBusy \/ RejectBusy \/ InputLoop \/ Watch \/ TimePasses

Spec == Init /\ [][Next]_vars

\* What the program does by itself: goroutines run, locks are granted, dials
\* time out, calls on a closed connection or a canceled context return, and
\* time passes. The users and the Peer need not do anything.
Fairness ==
    /\ WF_vars(TimePasses)
    /\ WF_vars(Watch)
    /\ WF_vars(DisconnectCloses)
    /\ WF_vars(ShutdownCloses)
    /\ WF_vars(ShutdownReturns)
    /\ \A a \in Attempts :
         /\ WF_vars(Withdraw(a))
         /\ WF_vars(Dial(a))
         /\ WF_vars(Attach(a))
         /\ WF_vars(OpenMustEnd(a) /\ OpenFails(a))
         /\ WF_vars(AskUser(a))
         /\ WF_vars(UserAnswered(a))
         /\ WF_vars(TakeAnswer(a))
         /\ WF_vars(Open(a))
         /\ WF_vars(Establish(a))
         /\ WF_vars(conn[a] = "closed" /\ ServeEnds(a))
         /\ WF_vars(FinishSession(a))
         /\ WF_vars(FinishFailed(a))
         /\ WF_vars(Publish(a))
         /\ WF_vars(Advertised(a))
         /\ WF_vars(MonitorEnds(a))
         /\ WF_vars(MonitorRuns(a))
         /\ WF_vars(SessionExpires(a))
         /\ WF_vars(CloseExpired(a))

FairSpec == Spec /\ Fairness

(***************************************************************************)
(* Properties                                                              *)
(***************************************************************************)

\* The types of App, of its attempts and of the goroutines that ask the user.
AppTypeOK ==
    /\ closed \in BOOLEAN
    /\ current \in Attempts \cup {0}
    /\ begun \in Attempts \cup {0}
    /\ input \in InputStates
    /\ target \in Attempts \cup {0}
    /\ rejecting \in 0 .. MaxRejecting
    /\ pc \in [Attempts -> AttemptStates]
    /\ role \in [Attempts -> {"none", "outbound", "inbound"}]
    /\ canceled \in [Attempts -> BOOLEAN]
    /\ stopping \in [Attempts -> BOOLEAN]
    /\ raw \in [Attempts -> BOOLEAN]
    /\ conn \in [Attempts -> {"none", "open", "closed"}]
    /\ secure \in [Attempts -> BOOLEAN]
    /\ waiting \in [Attempts -> BOOLEAN]
    /\ answer \in [Attempts -> {"none", "yes", "no"}]
    /\ asking \in [Attempts -> {"off", "start", "asking", "answered", "failed"}]
    /\ confirmed \in [Attempts -> SUBSET {"local", "peer"}]

\* TypeOK: the types of the variables.
TypeOK == AppTypeOK /\ IdleTypeOK /\ DiscoveryTypeOK(Attempts)

Finished == {"unused", "publishing", "advertising", "done"}

\* OneAttemptAtATime: "App owns one foreground listener and at most one
\* Transfer Session" (app.go:50). Whoever is still dialing, opening or serving
\* holds App.current; only shutdown takes it away, and it stops the attempt
\* with it.
OneAttemptAtATime ==
    \A a \in Attempts :
        pc[a] \notin Finished /\ current # a => closed /\ stopping[a]

\* VerifiedByBoth: a session is used only after this Peer's user has typed yes
\* at the prompt of this very attempt and the Peer has confirmed it
\* (session.go:379-433, commands.go:146-174).
VerifiedByBoth ==
    \A a \in Attempts : secure[a] => answer[a] = "yes" /\ "peer" \in confirmed[a]

\* PromptIsCurrent: the code on the screen belongs to App.current, although the
\* goroutine that asks may start after the attempt has failed
\* (connection.go:109-115, lifecycle.go:48).
PromptIsCurrent ==
    \A a \in Attempts : waiting[a] => current = a \/ closed

\* NoConnectionLeaks: an attempt that is over has closed its connection, on
\* every way out of connect, acceptConnections and establish.
NoConnectionLeaks ==
    \A a \in Attempts : pc[a] = "done" => conn[a] # "open"

\* IdlePeerIsAvailable: when no attempt is pending and no call of SetAvailable
\* is under way, the Peer counts as available, in whatever order the calls of
\* ending and beginning attempts came (lifecycle.go:51, connection.go:85, 162).
IdlePeerIsAvailable ==
    /\ current = 0
    /\ ~closed
    /\ \A a \in Attempts : pc[a] \notin {"publishing", "advertising"}
    => available

\* AttachedAttemptStops: an attempt that disconnect or the idle monitor stops
\* after its connection was attached gives up App.current, whatever the Peer
\* does (lifecycle.go:56-76, idle.go:96-104).
AttachedAttemptStops ==
    \A a \in Attempts : (stopping[a] /\ raw[a]) ~> (current # a)

\* ShutdownSettles: after shutdown every goroutine of every attempt returns,
\* and the Peer is never advertised again (lifecycle.go:78-112,
\* discovery.go:113-116, 139, 149).
ShutdownSettles ==
    closed ~> [](/\ ~registration
                 /\ input = "stopped"
                 /\ \A a \in Attempts :
                      /\ pc[a] \in {"unused", "done"}
                      /\ monitor[a] \in {"off", "done"}
                      /\ asking[a] \notin {"start", "asking"})

\* IdleSessionExpires: a session without activity for IdleTimeoutAfter ends,
\* unless there is activity or a transfer after all (idle.go:96-104).
IdleSessionExpires ==
    \A a \in Attempts :
        (secure[a] /\ age[a] = IdleTimeoutAfter)
            ~> (current # a \/ age[a] < IdleTimeoutAfter \/ transferActive[a])

\* DisconnectStops: "Use disconnect to end the temporary Transfer Session"
\* (README.md:103): an attempt the user disconnects gives up App.current.
DisconnectStops ==
    \A a \in Attempts : stopping[a] ~> (current # a)
=============================================================================
