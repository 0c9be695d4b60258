---------------------------- MODULE IdleMonitor ----------------------------
(***************************************************************************)
(* The idle clock of a Transfer Session: internal/terminal/idle.go. The    *)
(* monitor sleeps on a timer for an absolute deadline, or, during a        *)
(* transfer, on the wake channel alone; everybody who moves the deadline   *)
(* puts a token into the channel of capacity one.                          *)
(*                                                                         *)
(* Time is relative: age is the time since lastActivity, counted up to     *)
(* IdleTimeoutAfter, and timer what is left of the timer.                  *)
(***************************************************************************)
EXTENDS Naturals

CONSTANTS
    MaxAttempts,       \* attempts of one run of the program
    Lasting,           \* the attempts in whose sessions time passes and files move
    IdleWarningAfter,  \* config.IdleWarningAfter, in ticks
    IdleTimeoutAfter   \* config.IdleTimeoutAfter, in ticks

Attempts == 1 .. MaxAttempts

ASSUME MaxAttemptsAssumption == MaxAttempts \in Nat
ASSUME LastingAssumption == Lasting \subseteq Attempts
\* What New demands of the configuration.
ASSUME IdleAssumption ==
    /\ IdleWarningAfter \in Nat \ {0}
    /\ IdleTimeoutAfter \in Nat
    /\ IdleWarningAfter < IdleTimeoutAfter

VARIABLES
    monitor,        \* monitor[a]: where monitorIdleSession is
    age,            \* age[a]: time since current.lastActivity
    timer,          \* timer[a]: time until the monitor's timer fires
    idleWake,       \* idleWake[a]: the wake channel holds its token
    idleWarned,     \* idleWarned[a]
    transferActive  \* transferActive[a]

idleVars == <<monitor, age, timer, idleWake, idleWarned, transferActive>>

MonitorStates == {"off", "check", "timer", "transfer", "expiring", "done"}

IdleInit ==
    /\ monitor = [a \in Attempts |-> "off"]
    /\ age = [a \in Attempts |-> 0]
    /\ timer = [a \in Attempts |-> 0]
    /\ idleWake = [a \in Attempts |-> FALSE]
    /\ idleWarned = [a \in Attempts |-> FALSE]
    /\ transferActive = [a \in Attempts |-> FALSE]

\* The deadline the monitor sleeps to.
Deadline(a) == IF idleWarned[a] THEN IdleTimeoutAfter ELSE IdleWarningAfter

\* establish starts the monitor and the clock.
StartMonitor(a) ==
    /\ monitor' = [monitor EXCEPT ![a] = "check"]
    /\ age' = [age EXCEPT ![a] = 0]
    /\ UNCHANGED <<timer, idleWake, idleWarned, transferActive>>

\* noteSessionActivityLocked.
NoteActivity(a) ==
    /\ age' = [age EXCEPT ![a] = 0]
    /\ idleWarned' = [idleWarned EXCEPT ![a] = FALSE]
    /\ idleWake' = [idleWake EXCEPT ![a] = TRUE]

\* BUG VARIANT: a transfer starts without waking the monitor.
StartTransferSilently(a) ==
    /\ a \in Lasting
    /\ transferActive' = [transferActive EXCEPT ![a] = TRUE]
    /\ UNCHANGED <<monitor, age, timer, idleWake, idleWarned>>

\* startTransfer.
StartTransfer(a) ==
    /\ a \in Lasting
    /\ transferActive' = [transferActive EXCEPT ![a] = TRUE]
    /\ idleWake' = [idleWake EXCEPT ![a] = TRUE]
    /\ UNCHANGED <<monitor, age, timer, idleWarned>>

\* BUG VARIANT: a transfer ends without waking the monitor.
FinishTransferSilently(a) ==
    /\ transferActive' = [transferActive EXCEPT ![a] = FALSE]
    /\ age' = [age EXCEPT ![a] = 0]
    /\ UNCHANGED <<monitor, timer, idleWake, idleWarned>>

\* finishTransferLocked.
FinishTransfer(a) ==
    /\ transferActive' = [transferActive EXCEPT ![a] = FALSE]
    /\ NoteActivity(a)
    /\ UNCHANGED <<monitor, timer>>

MonitorReturns(a) ==
    /\ monitor' = [monitor EXCEPT ![a] = "done"]
    /\ timer' = [timer EXCEPT ![a] = 0]
    /\ UNCHANGED <<age, idleWake, idleWarned, transferActive>>

\* One round of the monitor's loop, under App.mu, for an attempt that is still
\* current and not stopping: wait for the end of a transfer, ...
AwaitTransfer(a) ==
    /\ monitor[a] = "check"
    /\ transferActive[a]
    /\ monitor' = [monitor EXCEPT ![a] = "transfer"]
    /\ UNCHANGED <<age, timer, idleWake, idleWarned, transferActive>>

\* ... give up the session, ...
Expire(a) ==
    /\ monitor[a] = "check"
    /\ ~transferActive[a]
    /\ age[a] >= IdleTimeoutAfter
    /\ monitor' = [monitor EXCEPT ![a] = "expiring"]
    /\ UNCHANGED <<age, timer, idleWake, idleWarned, transferActive>>

\* ... warn and look again, ...
Warn(a) ==
    /\ monitor[a] = "check"
    /\ ~transferActive[a]
    /\ age[a] \in IdleWarningAfter .. IdleTimeoutAfter - 1
    /\ ~idleWarned[a]
    /\ idleWarned' = [idleWarned EXCEPT ![a] = TRUE]
    /\ UNCHANGED <<monitor, age, timer, idleWake, transferActive>>

\* ... or sleep until the next deadline. The timer is made after the unlock,
\* but for a deadline read under the lock.
AwaitTimer(a) ==
    /\ monitor[a] = "check"
    /\ ~transferActive[a]
    /\ age[a] < Deadline(a)
    /\ monitor' = [monitor EXCEPT ![a] = "timer"]
    /\ timer' = [timer EXCEPT ![a] = Deadline(a) - age[a]]
    /\ UNCHANGED <<age, idleWake, idleWarned, transferActive>>

\* The select statements: a token in the wake channel or the timer, which is
\* stopped in both cases.
Wake(a) ==
    /\ \/ /\ monitor[a] \in {"timer", "transfer"}
          /\ idleWake[a]
          /\ idleWake' = [idleWake EXCEPT ![a] = FALSE]
       \/ /\ monitor[a] = "timer"
          /\ timer[a] = 0
          /\ UNCHANGED idleWake
    /\ monitor' = [monitor EXCEPT ![a] = "check"]
    /\ timer' = [timer EXCEPT ![a] = 0]
    /\ UNCHANGED <<age, idleWarned, transferActive>>

\* Attempts whose clock somebody still reads.
Timed(a) == a \in Lasting /\ monitor[a] \in {"check", "timer", "transfer"}

\* Time passes. An age at IdleTimeoutAfter has reached every deadline.
Tick ==
    /\ \E a \in Attempts : Timed(a) /\ age[a] < IdleTimeoutAfter
    /\ age' = [a \in Attempts |->
                 IF Timed(a) /\ age[a] < IdleTimeoutAfter THEN age[a] + 1 ELSE age[a]]
    /\ timer' = [a \in Attempts |->
                   IF Timed(a) /\ timer[a] > 0 THEN timer[a] - 1 ELSE timer[a]]
    /\ UNCHANGED <<monitor, idleWake, idleWarned, transferActive>>

IdleTypeOK ==
    /\ monitor \in [Attempts -> MonitorStates]
    /\ age \in [Attempts -> 0 .. IdleTimeoutAfter]
    /\ timer \in [Attempts -> 0 .. IdleTimeoutAfter]
    /\ idleWake \in [Attempts -> BOOLEAN]
    /\ idleWarned \in [Attempts -> BOOLEAN]
    /\ transferActive \in [Attempts -> BOOLEAN]

\* NoWakeIsLost: while the monitor sleeps and no token waits for it, its timer
\* is exactly what is left to the deadline that now applies, and it sleeps
\* without a timer only during a transfer (idle.go:84-127). Otherwise activity,
\* a started or a finished transfer would leave it sleeping to a wrong time.
NoWakeIsLost ==
    \A a \in Attempts : ~idleWake[a] =>
        /\ monitor[a] = "transfer" => transferActive[a]
        /\ monitor[a] = "timer" =>
              /\ ~transferActive[a]
              /\ timer[a] = IF age[a] < Deadline(a) THEN Deadline(a) - age[a] ELSE 0
=============================================================================
