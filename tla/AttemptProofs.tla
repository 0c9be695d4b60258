--------------------------- MODULE AttemptProofs ---------------------------
(***************************************************************************)
(* What holds of App.current, the prompt, the connections and the          *)
(* advertisement for every number of attempts. The inductive invariant is  *)
(* IInv; its parts are about different pieces of state but lean on each    *)
(* other, so that they are proved together, action by action.              *)
(***************************************************************************)
EXTENDS AttemptLifecycle, TLAPS

\* The variables that are functions are functions of the attempts.
Shape ==
    /\ current \in Attempts \cup {0}
    /\ begun \in Nat
    /\ DOMAIN pc = Attempts
    /\ DOMAIN role = Attempts
    /\ DOMAIN stopping = Attempts
    /\ DOMAIN conn = Attempts
    /\ DOMAIN secure = Attempts
    /\ DOMAIN waiting = Attempts
    /\ DOMAIN answer = Attempts
    /\ DOMAIN asking = Attempts
    /\ DOMAIN confirmed = Attempts

\* Attempts are begun in their order, and before the prompt nobody is asked.
Early == {"unused", "begun", "dialing", "attaching", "handshake", "hello", "availability"}
Fresh ==
    \A a \in Attempts :
        /\ a > begun => pc[a] = "unused"
        /\ pc[a] \in Early => asking[a] = "off"

\* An answer is given once, at the prompt, and taken once; a session is kept
\* only behind both confirmations.
Late == {"serving", "cleanup", "publishing", "advertising", "done"}
Asking ==
    \A a \in Attempts :
        /\ waiting[a] => asking[a] = "asking" /\ answer[a] = "none"
        /\ asking[a] \in {"off", "start"} => answer[a] = "none"
        /\ "local" \in confirmed[a] => asking[a] = "answered" /\ answer[a] = "yes"
        /\ pc[a] \in {"opened", "serving", "cleanup"} => confirmed[a] = {"local", "peer"}
        /\ secure[a] => pc[a] \in Late /\ confirmed[a] = {"local", "peer"}

\* Who has no connection yet, and who has closed it.
Closed ==
    \A a \in Attempts :
        /\ pc[a] \in {"dialing", "failing", "publishing", "advertising", "done"}
              => conn[a] # "open"
        /\ pc[a] = "begun" /\ role[a] = "outbound" => conn[a] # "open"

\* The lock of SetAvailable belongs to the goroutine that advertises, and the
\* root context ends only after shutdown has set App.closed.
Advertising ==
    /\ \A a \in Attempts : pc[a] = "advertising" => availabilityMu = a /\ available
    /\ rootDone => closed
    /\ input \in {"closing", "waiting", "stopped"} => closed

IInv ==
    /\ Shape
    /\ Fresh
    /\ Asking
    /\ Closed
    /\ Advertising
    /\ OneAttemptAtATime
    /\ PromptIsCurrent
    /\ IdlePeerIsAvailable

\* The initial states.
LEMMA InitIInv == Init => IInv
  BY MaxAttemptsAssumption
  DEF Init, DiscoveryInit, IInv, Attempts, Shape, Fresh, Early, Asking, Late, Closed, Advertising,
      OneAttemptAtATime, Finished, PromptIsCurrent, IdlePeerIsAvailable

\* beginAttempt, called by connect without a connection or by the accept loop
\* with one: nobody else is active, because App.current is nil.
LEMMA BeginAttemptIInv ==
    ASSUME IInv, NEW a \in Attempts, NEW r, NEW c, BeginAttempt(a, r, c),
           r = "outbound" => c = "none",
           input' \in {input, "withdrawing"}
    PROVE  IInv'
<1> USE MaxAttemptsAssumption
    DEF Attempts, Shape, Fresh, Early, Asking, Late, Closed, Advertising, OneAttemptAtATime,
        Finished, PromptIsCurrent, IdlePeerIsAvailable, appVars, attemptVars, openVars,
        discoveryVars
<1>0. \A b \in Attempts : pc[b] \in Finished
  BY DEF IInv, BeginAttempt, CanBegin
<1>1. Shape'
  BY <1>0 DEF IInv, BeginAttempt, CanBegin, Goto
<1>2. Fresh'
  BY <1>0 DEF IInv, BeginAttempt, CanBegin, Goto
<1>3. Asking'
  BY <1>0 DEF IInv, BeginAttempt, CanBegin, Goto
<1>4. Closed'
  BY <1>0 DEF IInv, BeginAttempt, CanBegin, Goto
<1>5. Advertising'
  BY <1>0 DEF IInv, BeginAttempt, CanBegin, Goto
<1>6. OneAttemptAtATime'
  BY <1>0 DEF IInv, BeginAttempt, CanBegin, Goto
<1>7. PromptIsCurrent'
  BY <1>0 DEF IInv, BeginAttempt, CanBegin, Goto
<1>8. IdlePeerIsAvailable'
  BY <1>0 DEF IInv, BeginAttempt, CanBegin, Goto
<1> QED BY <1>1, <1>2, <1>3, <1>4, <1>5, <1>6, <1>7, <1>8 DEF IInv

\* The way to an attached connection.
LEMMA AttachIInv ==
    ASSUME IInv, NEW a \in Attempts,
           Withdraw(a) \/ Dial(a) \/ Attach(a)
    PROVE  IInv'
<1> USE MaxAttemptsAssumption
    DEF Attempts, Shape, Fresh, Early, Asking, Late, Closed, Advertising, OneAttemptAtATime,
        Finished, PromptIsCurrent, IdlePeerIsAvailable, appVars, attemptVars, openVars,
        discoveryVars
<1>1. CASE Withdraw(a)
  BY <1>1 DEF IInv, Withdraw, SetAvailable, Goto
<1>2. CASE Dial(a)
  BY <1>2 DEF IInv, Dial, Goto
<1>3. CASE Attach(a)
  <2>a. CASE Attachable(a)
    <3>0. Goto(a, "handshake") /\ UNCHANGED <<appVars, conn, role, stopping, secure, openVars, discoveryVars>>
      BY <1>3, <2>a DEF Attach
    <3>1. Shape'
      BY <1>3, <3>0 DEF IInv, Attach, Goto
    <3>2. Fresh'
      BY <1>3, <3>0 DEF IInv, Attach, Goto
    <3>3. Asking'
      BY <1>3, <3>0 DEF IInv, Attach, Goto
    <3>4. Closed'
      BY <1>3, <3>0 DEF IInv, Attach, Goto
    <3>5. Advertising'
      BY <1>3, <3>0 DEF IInv, Attach, Goto
    <3>6. OneAttemptAtATime'
      BY <1>3, <3>0 DEF IInv, Attach, Goto
    <3>7. PromptIsCurrent'
      BY <1>3, <3>0 DEF IInv, Attach, Goto
    <3>8. IdlePeerIsAvailable'
      BY <1>3, <3>0 DEF IInv, Attach, Goto
    <3> QED BY <3>1, <3>2, <3>3, <3>4, <3>5, <3>6, <3>7, <3>8 DEF IInv
  <2>b. CASE ~Attachable(a)
    BY <1>3, <2>b DEF IInv, Attach, Goto, CloseConn
  <2> QED BY <2>a, <2>b
<1> QED BY <1>1, <1>2, <1>3

\* session.Open and what establish does with its result.
LEMMA OpenIInv ==
    ASSUME IInv, NEW a \in Attempts,
           Negotiate(a) \/ OpenFails(a) \/ AskUser(a) \/ UserAnswered(a) \/
           TakeAnswer(a) \/ TakePeerConfirmation(a) \/ Open(a) \/ Establish(a)
    PROVE  IInv'
<1> USE MaxAttemptsAssumption
    DEF Attempts, Shape, Fresh, Early, Asking, Late, Closed, Advertising, OneAttemptAtATime,
        Finished, PromptIsCurrent, IdlePeerIsAvailable, appVars, attemptVars, openVars,
        discoveryVars
<1>1. CASE Negotiate(a)
  BY <1>1 DEF IInv, Negotiate, Goto
<1>2. CASE OpenFails(a)
  BY <1>2 DEF IInv, OpenFails, Goto, CloseConn, Opening
<1>3. CASE AskUser(a)
  <2>a. CASE current # a \/ closed
    BY <1>3, <2>a DEF IInv, AskUser
  <2>b. CASE current = a /\ ~closed
    <3>1. Shape'
      BY <1>3, <2>b DEF IInv, AskUser
    <3>2. Fresh'
      BY <1>3, <2>b DEF IInv, AskUser
    <3>3. Asking'
      BY <1>3, <2>b DEF IInv, AskUser
    <3>4. Closed'
      BY <1>3, <2>b DEF IInv, AskUser
    <3>5. Advertising'
      BY <1>3, <2>b DEF IInv, AskUser
    <3>6. OneAttemptAtATime'
      BY <1>3, <2>b DEF IInv, AskUser
    <3>7. PromptIsCurrent'
      BY <1>3, <2>b DEF IInv, AskUser
    <3>8. IdlePeerIsAvailable'
      BY <1>3, <2>b DEF IInv, AskUser
    <3> QED BY <3>1, <3>2, <3>3, <3>4, <3>5, <3>6, <3>7, <3>8 DEF IInv
  <2> QED BY <2>a, <2>b
<1>4. CASE UserAnswered(a)
  BY <1>4 DEF IInv, UserAnswered
<1>5. CASE TakeAnswer(a)
  BY <1>5 DEF IInv, TakeAnswer
<1>6. CASE TakePeerConfirmation(a)
  BY <1>6 DEF IInv, TakePeerConfirmation
<1>7. CASE Open(a)
  BY <1>7 DEF IInv, Open, Goto
<1>8. CASE Establish(a)
  <2>a. CASE Attachable(a)
    <3>1. Shape'
      BY <1>8, <2>a DEF IInv, Establish, Attachable, Goto
    <3>2. Fresh'
      BY <1>8, <2>a DEF IInv, Establish, Attachable, Goto
    <3>3. Asking'
      BY <1>8, <2>a DEF IInv, Establish, Attachable, Goto
    <3>4. Closed'
      BY <1>8, <2>a DEF IInv, Establish, Attachable, Goto
    <3>5. Advertising'
      BY <1>8, <2>a DEF IInv, Establish, Attachable, Goto
    <3>6. OneAttemptAtATime'
      BY <1>8, <2>a DEF IInv, Establish, Attachable, Goto
    <3>7. PromptIsCurrent'
      BY <1>8, <2>a DEF IInv, Establish, Attachable, Goto
    <3>8. IdlePeerIsAvailable'
      BY <1>8, <2>a DEF IInv, Establish, Attachable, Goto
    <3> QED BY <3>1, <3>2, <3>3, <3>4, <3>5, <3>6, <3>7, <3>8 DEF IInv
  <2>b. CASE ~Attachable(a)
    BY <1>8, <2>b DEF IInv, Establish, Goto, CloseConn
  <2> QED BY <2>a, <2>b
<1> QED BY <1>1, <1>2, <1>3, <1>4, <1>5, <1>6, <1>7, <1>8

\* The verified session, its end and the idle monitor.
LEMMA SessionIInv ==
    ASSUME IInv, NEW a \in Attempts,
           Receive(a) \/ TransferStarts(a) \/ TransferFinishes(a) \/
           ServeEnds(a) \/ FinishSession(a) \/ FinishFailed(a) \/ Publish(a) \/
           Advertised(a) \/ MonitorEnds(a) \/ MonitorRuns(a) \/
           SessionExpires(a) \/ CloseExpired(a)
    PROVE  IInv'
<1> USE MaxAttemptsAssumption
    DEF Attempts, Shape, Fresh, Early, Asking, Late, Closed, Advertising, OneAttemptAtATime,
        Finished, PromptIsCurrent, IdlePeerIsAvailable, appVars, attemptVars, openVars,
        discoveryVars
<1>1. CASE Receive(a)
  BY <1>1 DEF IInv, Receive, NoteActivity, Serving
<1>2. CASE TransferStarts(a)
  BY <1>2 DEF IInv, TransferStarts, StartTransfer, Serving
<1>3. CASE TransferFinishes(a)
  BY <1>3 DEF IInv, TransferFinishes, FinishTransfer, NoteActivity, Serving
<1>4. CASE ServeEnds(a)
  BY <1>4 DEF IInv, ServeEnds, Goto, Serving
<1>5. CASE FinishSession(a)
  BY <1>5 DEF IInv, FinishSession, Release, Goto, CloseConn
<1>6. CASE FinishFailed(a)
  BY <1>6 DEF IInv, FinishFailed, Release, Goto
<1>7. CASE Publish(a)
  BY <1>7 DEF IInv, Publish, SetAvailable, Goto
<1>8. CASE Advertised(a)
  BY <1>8 DEF IInv, Advertised, Advertise, Goto
<1>9. CASE MonitorEnds(a)
  BY <1>9 DEF IInv, MonitorEnds, MonitorReturns, Unattended
<1>10. CASE MonitorRuns(a)
  BY <1>10 DEF IInv, MonitorRuns, Unattended, AwaitTransfer, Warn, AwaitTimer, Wake, Deadline
<1>11. CASE SessionExpires(a)
  BY <1>11 DEF IInv, SessionExpires, Unattended, Expire
<1>12. CASE CloseExpired(a)
  BY <1>12 DEF IInv, CloseExpired, CloseConn, MonitorReturns
<1> QED BY <1>1, <1>2, <1>3, <1>4, <1>5, <1>6, <1>7, <1>8, <1>9, <1>10, <1>11, <1>12

\* The input loop, refused connections, the root context and time.
LEMMA AppIInv ==
    ASSUME IInv,
           AcceptBusy \/ RejectBusy \/ ReadLine \/ AnswerCode \/ ReadCommand \/
           OtherCommand \/ Disconnect \/ DisconnectCloses \/ Shutdown \/
           ShutdownCloses \/ ShutdownReturns \/ Watch \/ TimePasses
    PROVE  IInv'
<1> USE MaxAttemptsAssumption
    DEF Attempts, Shape, Fresh, Early, Asking, Late, Closed, Advertising, OneAttemptAtATime,
        Finished, PromptIsCurrent, IdlePeerIsAvailable, appVars, attemptVars, openVars,
        discoveryVars
<1>1. CASE AcceptBusy
  BY <1>1 DEF IInv, AcceptBusy, Accepting, CanBegin
<1>2. CASE RejectBusy
  BY <1>2 DEF IInv, RejectBusy
<1>3. CASE ReadLine
  BY <1>3 DEF IInv, ReadLine, Input, Verified, NoteActivity
<1>4. CASE AnswerCode
  BY <1>4 DEF IInv, AnswerCode, HasLine, Prompted
<1>5. CASE ReadCommand
  BY <1>5 DEF IInv, ReadCommand, HasLine, Prompted
<1>6. CASE OtherCommand
  BY <1>6 DEF IInv, OtherCommand, Input
<1>7. CASE Disconnect
  BY <1>7 DEF IInv, Disconnect, Input
<1>8. CASE DisconnectCloses
  BY <1>8 DEF IInv, DisconnectCloses, Input, CloseTarget
<1>9. CASE Shutdown
  BY <1>9 DEF IInv, Shutdown, Input
<1>10. CASE ShutdownCloses
  BY <1>10 DEF IInv, ShutdownCloses, Input, CloseTarget
<1>11. CASE ShutdownReturns
  BY <1>11 DEF IInv, ShutdownReturns, Input
<1>12. CASE Watch
  BY <1>12 DEF IInv, Watch, WatchContext, SetAvailable
<1>13. CASE TimePasses
  BY <1>13 DEF IInv, TimePasses, Tick, Timed
<1> QED BY <1>1, <1>2, <1>3, <1>4, <1>5, <1>6, <1>7, <1>8, <1>9, <1>10, <1>11, <1>12, <1>13

\* Every step of Next is one of the groups above.
LEMMA NextIInv == IInv /\ [Next]_vars => IInv'
<1> SUFFICES ASSUME IInv, [Next]_vars PROVE IInv'
  OBVIOUS
<1>1. ASSUME NEW a \in Attempts, AttemptNext(a) PROVE IInv'
  <2>1. CASE Connect(a)
    BY <2>1, BeginAttemptIInv DEF Connect
  <2>2. CASE Accept(a)
    BY <2>2, BeginAttemptIInv DEF Accept
  <2> QED
    BY <1>1, <2>1, <2>2, AttachIInv, OpenIInv, SessionIInv DEF AttemptNext
<1>2. CASE AcceptBusy \/ RejectBusy \/ InputLoop \/ Watch \/ TimePasses
  BY <1>2, AppIInv DEF InputLoop
<1>3. CASE UNCHANGED vars
  BY <1>3 DEF vars, appVars, attemptVars, openVars, idleVars, discoveryVars, IInv, Shape, Fresh,
              Asking, Closed, Advertising, OneAttemptAtATime, PromptIsCurrent,
              IdlePeerIsAvailable
<1> QED BY <1>1, <1>2, <1>3 DEF Next

\* The inductive invariant holds of every reachable state of the App.
THEOREM IInvHolds == Spec => []IInv
  BY InitIInv, NextIInv, PTL DEF Spec

\* OneAttemptAtATime, for every number of attempts: whoever dials, opens or
\* serves holds App.current, unless shutdown has taken it and stopped him
\* (beginAttempt, finishFailed, establish, shutdown).
THEOREM OneAttemptAtATimeHolds == Spec => []OneAttemptAtATime
  BY IInvHolds, PTL DEF IInv

\* VerifiedByBoth: a session is kept only after the local user's yes to this
\* attempt's code and the Peer's confirmation (exchangeConfirmation).
THEOREM VerifiedByBothHolds == Spec => []VerifiedByBoth
<1>1. IInv => VerifiedByBoth
  BY DEF IInv, Asking, VerifiedByBoth
<1> QED BY <1>1, IInvHolds, PTL

\* PromptIsCurrent: the code on the screen is that of App.current, although the
\* goroutine that shows it runs beside the one that may fail the attempt.
THEOREM PromptIsCurrentHolds == Spec => []PromptIsCurrent
  BY IInvHolds, PTL DEF IInv

\* NoConnectionLeaks: every way out of connect, acceptConnections and establish
\* closes the connection.
THEOREM NoConnectionLeaksHolds == Spec => []NoConnectionLeaks
<1>1. IInv => NoConnectionLeaks
  BY DEF IInv, Closed, NoConnectionLeaks
<1> QED BY <1>1, IInvHolds, PTL

\* IdlePeerIsAvailable: whatever the order of the calls of SetAvailable, a Peer
\* without an attempt ends up available (finishFailed, establish).
THEOREM IdlePeerIsAvailableHolds == Spec => []IdlePeerIsAvailable
  BY IInvHolds, PTL DEF IInv

---------------------------------------------------------------------------
(***************************************************************************)
(* The idle monitor loses no wake-up, for every warning delay, every       *)
(* timeout and every number of attempts. Only the steps of IdleMonitor     *)
(* matter: every step of the App is one of them or leaves idleVars alone.  *)
(***************************************************************************)

IdleInv == IdleTypeOK /\ NoWakeIsLost

\* What the App does to the idle clock of attempt a.
IdleStep(a) ==
    \/ StartMonitor(a)
    \/ NoteActivity(a) /\ UNCHANGED <<monitor, timer, transferActive>>
    \/ StartTransfer(a)
    \/ FinishTransfer(a)
    \/ MonitorReturns(a)
    \/ AwaitTransfer(a)
    \/ Expire(a)
    \/ Warn(a)
    \/ AwaitTimer(a)
    \/ Wake(a)

IdleNext == Tick \/ \E a \in Attempts : IdleStep(a)

\* Every step of the App is a step of its idle clocks.
LEMMA AppStepsIdle == ASSUME [Next]_vars PROVE [IdleNext]_idleVars
<1>1. ASSUME NEW a \in Attempts, AttemptNext(a) PROVE IdleStep(a) \/ UNCHANGED idleVars
  BY <1>1 DEF AttemptNext, IdleStep, Connect, Accept, BeginAttempt, Withdraw, Dial, Attach,
              Negotiate, OpenFails, AskUser, UserAnswered, TakeAnswer, TakePeerConfirmation, Open,
              Establish, Receive, TransferStarts, TransferFinishes, ServeEnds, FinishSession,
              FinishFailed, Publish, Advertised, MonitorEnds, MonitorRuns, SessionExpires,
              CloseExpired
<1>2. CASE ReadLine
  BY <1>2 DEF ReadLine, Verified, IdleNext, IdleStep
<1>3. CASE TimePasses
  BY <1>3 DEF TimePasses, IdleNext
<1>4. CASE AcceptBusy \/ RejectBusy \/ Watch
  BY <1>4 DEF AcceptBusy, RejectBusy, Watch
<1>5. CASE InputLoop /\ ~ReadLine
  BY <1>5 DEF InputLoop, AnswerCode, ReadCommand, OtherCommand, Disconnect, DisconnectCloses,
              Shutdown, ShutdownCloses, ShutdownReturns
<1>6. CASE UNCHANGED vars
  BY <1>6 DEF vars
<1> QED BY <1>1, <1>2, <1>3, <1>4, <1>5, <1>6 DEF Next, IdleNext

\* The types of the clocks: a timer never runs longer than the timeout.
LEMMA IdleTypes == ASSUME IdleTypeOK, [IdleNext]_idleVars PROVE IdleTypeOK'
<1> USE MaxAttemptsAssumption, IdleAssumption DEF IdleTypeOK, MonitorStates
<1>1. CASE Tick
  BY <1>1 DEF Tick
<1>2. ASSUME NEW a \in Attempts, IdleStep(a) PROVE IdleTypeOK'
  <2>1. CASE StartMonitor(a)
    BY <2>1 DEF StartMonitor
  <2>2. CASE NoteActivity(a) /\ UNCHANGED <<monitor, timer, transferActive>>
    BY <2>2 DEF NoteActivity
  <2>3. CASE StartTransfer(a)
    BY <2>3 DEF StartTransfer
  <2>4. CASE FinishTransfer(a)
    BY <2>4 DEF FinishTransfer, NoteActivity
  <2>5. CASE MonitorReturns(a)
    BY <2>5 DEF MonitorReturns
  <2>6. CASE AwaitTransfer(a) \/ Expire(a)
    BY <2>6 DEF AwaitTransfer, Expire
  <2>7. CASE Warn(a)
    BY <2>7 DEF Warn
  <2>8. CASE AwaitTimer(a)
    BY <2>8 DEF AwaitTimer, Deadline
  <2>9. CASE Wake(a)
    <3>1. /\ monitor' = [monitor EXCEPT ![a] = "check"]
          /\ timer' = [timer EXCEPT ![a] = 0]
          /\ UNCHANGED <<age, idleWarned, transferActive>>
      BY <2>9 DEF Wake
    <3>2. CASE idleWake' = idleWake
      BY <3>1, <3>2
    <3>3. CASE idleWake' = [idleWake EXCEPT ![a] = FALSE]
      BY <3>1, <3>3
    <3> QED BY <2>9, <3>2, <3>3 DEF Wake
  <2> QED BY <1>2, <2>1, <2>2, <2>3, <2>4, <2>5, <2>6, <2>7, <2>8, <2>9 DEF IdleStep
<1>3. CASE UNCHANGED idleVars
  BY <1>3 DEF idleVars
<1> QED BY <1>1, <1>2, <1>3 DEF IdleNext

\* Whoever moves a deadline under a sleeping monitor leaves a token, and time
\* moves the age and the timer together.
LEMMA IdleWakes == ASSUME IdleInv, [IdleNext]_idleVars PROVE NoWakeIsLost'
<1> USE MaxAttemptsAssumption, IdleAssumption DEF IdleInv, IdleTypeOK, NoWakeIsLost, Deadline
<1>1. CASE Tick
  BY <1>1 DEF Tick, Timed
<1>2. ASSUME NEW a \in Attempts, IdleStep(a) PROVE NoWakeIsLost'
  <2>1. CASE StartMonitor(a)
    BY <2>1 DEF StartMonitor
  <2>2. CASE NoteActivity(a) /\ UNCHANGED <<monitor, timer, transferActive>>
    BY <2>2 DEF NoteActivity
  <2>3. CASE StartTransfer(a)
    BY <2>3 DEF StartTransfer
  <2>4. CASE FinishTransfer(a)
    BY <2>4 DEF FinishTransfer, NoteActivity
  <2>5. CASE MonitorReturns(a)
    BY <2>5 DEF MonitorReturns
  <2>6. CASE AwaitTransfer(a) \/ Expire(a)
    BY <2>6 DEF AwaitTransfer, Expire
  <2>7. CASE Warn(a)
    BY <2>7 DEF Warn
  <2>8. CASE AwaitTimer(a)
    BY <2>8 DEF AwaitTimer
  <2>9. CASE Wake(a)
    BY <2>9 DEF Wake
  <2> QED BY <1>2, <2>1, <2>2, <2>3, <2>4, <2>5, <2>6, <2>7, <2>8, <2>9 DEF IdleStep
<1>3. CASE UNCHANGED idleVars
  BY <1>3 DEF idleVars
<1> QED BY <1>1, <1>2, <1>3 DEF IdleNext

\* NoWakeIsLost: a sleeping monitor without a token sleeps to the deadline that
\* applies, and without a timer only during a transfer (monitorIdleSession,
\* noteSessionActivityLocked, startTransfer, finishTransferLocked).
THEOREM NoWakeIsLostHolds == Spec => []NoWakeIsLost
<1>1. Init => IdleInv
  BY MaxAttemptsAssumption, IdleAssumption
  DEF Init, IdleInit, IdleInv, IdleTypeOK, MonitorStates, NoWakeIsLost
<1>2. IdleInv /\ [Next]_vars => IdleInv'
  BY AppStepsIdle, IdleTypes, IdleWakes DEF IdleInv
<1>3. IdleInv => NoWakeIsLost
  BY DEF IdleInv
<1> QED BY <1>1, <1>2, <1>3, PTL DEF Spec

\* The types of App, of the attempts and of the advertisement: what an attempt
\* does.
LEMMA AttemptStepTypes ==
    ASSUME AppTypeOK, DiscoveryTypeOK(Attempts), NEW a \in Attempts, AttemptNext(a)
    PROVE  AppTypeOK' /\ DiscoveryTypeOK(Attempts)'
<1> USE DEF AppTypeOK, DiscoveryTypeOK, AttemptStates, InputStates, Opening, appVars, attemptVars,
            openVars, discoveryVars, Goto, CloseConn
<1>1. CASE Connect(a) \/ Accept(a)
  BY <1>1 DEF Connect, Accept, BeginAttempt
<1>2. CASE Withdraw(a)
  BY <1>2 DEF Withdraw, SetAvailable
<1>3. CASE Dial(a)
  BY <1>3 DEF Dial
<1>4. CASE Attach(a)
  <2>1. CASE Attachable(a)
    <3>1. /\ pc' = [pc EXCEPT ![a] = "handshake"]
          /\ raw' = [raw EXCEPT ![a] = TRUE]
          /\ UNCHANGED <<appVars, role, canceled, stopping, conn, secure, openVars, discoveryVars>>
      BY <1>4, <2>1 DEF Attach
    <3> QED BY <3>1
  <2>2. CASE ~Attachable(a)
    BY <1>4, <2>2 DEF Attach
  <2> QED BY <2>1, <2>2
<1>5. CASE Negotiate(a)
  BY <1>5 DEF Negotiate
<1>6. CASE OpenFails(a)
  BY <1>6 DEF OpenFails
<1>7. CASE AskUser(a)
  <2>1. CASE waiting' = waiting
    BY <1>7, <2>1 DEF AskUser
  <2>2. CASE waiting' = [waiting EXCEPT ![a] = TRUE]
    BY <1>7, <2>2 DEF AskUser
  <2> QED BY <1>7, <2>1, <2>2 DEF AskUser
<1>8. CASE UserAnswered(a)
  <2>1. CASE waiting' = waiting
    BY <1>8, <2>1 DEF UserAnswered
  <2>2. CASE waiting' = [waiting EXCEPT ![a] = FALSE]
    BY <1>8, <2>2 DEF UserAnswered
  <2> QED BY <1>8, <2>1, <2>2 DEF UserAnswered
<1>9. CASE TakeAnswer(a)
  BY <1>9 DEF TakeAnswer
<1>10. CASE TakePeerConfirmation(a)
  BY <1>10 DEF TakePeerConfirmation
<1>11. CASE Open(a)
  BY <1>11 DEF Open
<1>12. CASE Establish(a)
  <2>1. CASE Attachable(a)
    <3>1. /\ pc' = [pc EXCEPT ![a] = "serving"]
          /\ secure' = [secure EXCEPT ![a] = TRUE]
          /\ waiting' = [waiting EXCEPT ![a] = FALSE]
          /\ UNCHANGED <<appVars, role, canceled, stopping, raw, conn, answer, asking, confirmed,
                         discoveryVars>>
      BY <1>12, <2>1 DEF Establish
    <3> QED BY <3>1
  <2>2. CASE ~Attachable(a)
    BY <1>12, <2>2 DEF Establish
  <2> QED BY <2>1, <2>2
<1>13. CASE Receive(a) \/ TransferStarts(a) \/ TransferFinishes(a)
  BY <1>13 DEF Receive, TransferStarts, TransferFinishes
<1>14. CASE ServeEnds(a)
  BY <1>14 DEF ServeEnds
<1>15. CASE FinishSession(a) \/ FinishFailed(a)
  <2>1. CASE FinishSession(a)
    BY <2>1 DEF FinishSession, Release
  <2>2. CASE FinishFailed(a)
    BY <2>2 DEF FinishFailed, Release
  <2> QED BY <1>15, <2>1, <2>2
<1>16. CASE Publish(a)
  BY <1>16 DEF Publish, SetAvailable
<1>17. CASE Advertised(a)
  <2>1. /\ pc' = [pc EXCEPT ![a] = "done"] /\ registration' \in {FALSE, ~rootDone}
        /\ availabilityMu' = 0 /\ UNCHANGED available
    BY <1>17 DEF Advertised, Advertise
  <2>2. UNCHANGED <<appVars, role, canceled, stopping, raw, conn, secure, openVars, rootDone, watcher>>
    BY <1>17 DEF Advertised
  <2>3. pc' \in [Attempts -> AttemptStates]
    BY <2>1
  <2>4. DiscoveryTypeOK(Attempts)'
    BY <2>1, <2>2
  <2>5. UNCHANGED <<closed, current, begun, input, target, rejecting, waiting, answer, asking, confirmed>>
    BY <2>2
  <2> QED BY <2>2, <2>3, <2>4, <2>5
<1>18. CASE MonitorEnds(a) \/ MonitorRuns(a)
  BY <1>18 DEF MonitorEnds, MonitorRuns
<1>19. CASE SessionExpires(a) \/ CloseExpired(a)
  <2>1. CASE SessionExpires(a)
    BY <2>1 DEF SessionExpires
  <2>2. CASE CloseExpired(a)
    BY <2>2 DEF CloseExpired
  <2> QED BY <1>19, <2>1, <2>2
<1> QED
  BY <1>1, <1>2, <1>3, <1>4, <1>5, <1>6, <1>7, <1>8, <1>9, <1>10, <1>11, <1>12, <1>13, <1>14,
     <1>15, <1>16, <1>17, <1>18, <1>19 DEF AttemptNext

\* The same for the input loop, the refused connections, the root context and
\* time.
LEMMA AppStepTypes ==
    ASSUME AppTypeOK, DiscoveryTypeOK(Attempts),
           AcceptBusy \/ RejectBusy \/ InputLoop \/ Watch \/ TimePasses
    PROVE  AppTypeOK' /\ DiscoveryTypeOK(Attempts)'
<1> USE MaxRejectingAssumption
    DEF AppTypeOK, DiscoveryTypeOK, AttemptStates, InputStates, Opening, appVars, attemptVars,
        openVars, discoveryVars, CloseConn, Input
<1>1. CASE AcceptBusy \/ RejectBusy
  BY <1>1 DEF AcceptBusy, RejectBusy
<1>2. CASE ReadLine
  BY <1>2 DEF ReadLine
<1>3. CASE AnswerCode
  <2>1. CASE UNCHANGED <<waiting, answer>>
    BY <1>3, <2>1 DEF AnswerCode
  <2>2. ASSUME NEW v \in {"yes", "no"}, waiting' = [waiting EXCEPT ![current] = FALSE],
               answer' = [answer EXCEPT ![current] = v]
        PROVE  AppTypeOK' /\ DiscoveryTypeOK(Attempts)'
    BY <1>3, <2>2 DEF AnswerCode, Prompted
  <2> QED BY <1>3, <2>1, <2>2 DEF AnswerCode
<1>4. CASE ReadCommand \/ OtherCommand
  BY <1>4 DEF ReadCommand, OtherCommand
<1>5. CASE Disconnect \/ DisconnectCloses
  <2>1. CASE Disconnect
    BY <2>1 DEF Disconnect
  <2>2. CASE DisconnectCloses
    BY <2>2 DEF DisconnectCloses, CloseTarget
  <2> QED BY <1>5, <2>1, <2>2
<1>6. CASE Shutdown \/ ShutdownCloses \/ ShutdownReturns
  <2>1. CASE Shutdown
    BY <2>1 DEF Shutdown
  <2>2. CASE ShutdownCloses
    BY <2>2 DEF ShutdownCloses, CloseTarget
  <2>3. CASE ShutdownReturns
    BY <2>3 DEF ShutdownReturns
  <2> QED BY <1>6, <2>1, <2>2, <2>3
<1>7. CASE Watch
  BY <1>7 DEF Watch, WatchContext, SetAvailable
<1>8. CASE TimePasses
  BY <1>8 DEF TimePasses
<1> QED BY <1>1, <1>2, <1>3, <1>4, <1>5, <1>6, <1>7, <1>8 DEF InputLoop

\* TypeOK: App, its attempts, their clocks and the advertisement keep their
\* types for any number of attempts, delays and refused connections.
THEOREM AttemptTypes == Spec => []TypeOK
<1>1. Init => TypeOK
  <2>1. Init => AppTypeOK
    <3> SUFFICES ASSUME Init PROVE AppTypeOK
      OBVIOUS
    <3>0. closed \in BOOLEAN
      BY DEF Init
    <3>1. /\ input \in InputStates
          /\ {current, begun, target} \subseteq Attempts \cup {0} /\ rejecting \in 0..MaxRejecting
      BY MaxRejectingAssumption DEF Init, InputStates
    <3>2. /\ pc \in [Attempts -> AttemptStates]
          /\ role \in [Attempts -> {"none", "outbound", "inbound"}]
          /\ conn \in [Attempts -> {"none", "open", "closed"}]
          /\ answer \in [Attempts -> {"none", "yes", "no"}]
          /\ asking \in [Attempts -> {"off", "start", "asking", "answered", "failed"}]
      BY DEF Init, AttemptStates
    <3>3. {canceled, stopping, raw, secure, waiting} \subseteq [Attempts -> BOOLEAN]
      BY DEF Init
    <3>4. confirmed \in [Attempts -> SUBSET {"local", "peer"}]
      BY DEF Init
    <3> QED BY <3>0, <3>1, <3>2, <3>3, <3>4 DEF AppTypeOK
  <2>2. Init => IdleTypeOK
    BY MaxAttemptsAssumption, IdleAssumption DEF Init, IdleInit, IdleTypeOK, MonitorStates
  <2>3. Init => DiscoveryTypeOK(Attempts)
    BY DEF Init, DiscoveryInit, DiscoveryTypeOK
  <2> QED BY <2>1, <2>2, <2>3 DEF TypeOK
<1>2. TypeOK /\ [Next]_vars => TypeOK'
  <2> SUFFICES ASSUME TypeOK, [Next]_vars PROVE TypeOK'
    OBVIOUS
  <2>1. IdleTypeOK'
    BY AppStepsIdle, IdleTypes DEF TypeOK
  <2>2. CASE UNCHANGED vars
    BY <2>1, <2>2 DEF TypeOK, vars, appVars, attemptVars, openVars, discoveryVars, AppTypeOK,
                      DiscoveryTypeOK
  <2>3. CASE Next
    BY <2>1, <2>3, AttemptStepTypes, AppStepTypes DEF TypeOK, Next
  <2> QED BY <2>2, <2>3
<1> QED BY <1>1, <1>2, PTL DEF Spec
=============================================================================
