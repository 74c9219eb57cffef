--------------------------- MODULE CaptureWatchdog ---------------------------
(***************************************************************************)
(* What the user is told of the capture worker (src/capture.rs): the worker *)
(* with its heartbeat and its CaptureHealthState, the watchdog thread that   *)
(* reads the heartbeat, the recovery waits of the supervisor's loop, and the *)
(* one displayed CaptureHealth they all write.                               *)
(*                                                                           *)
(* A read of the clipboard and a write to the history may take for ever;     *)
(* sleeps end on time.  Which recovery the supervisor picks (module          *)
(* CaptureSupervisor) and when the resource budget is exceeded are left      *)
(* open.  A tick is about a second.                                          *)
(***************************************************************************)
EXTENDS Integers, FiniteSetsExt

CONSTANTS
    MinPoll, MaxPoll,  \* bounds of the poll interval, in ticks
    StallTimeout,      \* watchdog_timeout
    RecoveryDelay,     \* [recovery action -> ticks]
    ReadFailureLimit   \* MAX_CONSECUTIVE_READ_FAILURES

\* watchdog_timeout is at least eight poll intervals and five seconds, the
\* longest poll interval the configured one or 900 ms.
ASSUME WatchdogAssumption ==
    /\ {MinPoll, MaxPoll, StallTimeout, ReadFailureLimit} \subseteq Nat \ {0}
    /\ MinPoll <= MaxPoll /\ MaxPoll < StallTimeout
    /\ RecoveryDelay \in [{"resubscribe", "restart", "degrade"} -> Nat \ {0}]

VARIABLES
    workerAt,    \* "sleep", "read", "store", or "recover" between two run_worker
    sleepLeft,   \* ticks of its sleep
    beatAge,     \* ticks since the last heartbeat, up to StallTimeout
    interval,    \* AdaptivePollScheduler::current
    workerPaused,
    storageBad, unproven,  \* CaptureHealthState
    readFails,   \* consecutive_read_failures
    alarm,       \* the watchdog found the heartbeat stale and is to publish it
    health       \* AppState::capture_health

wdVars == <<workerAt, sleepLeft, beatAge, interval, workerPaused, storageBad, unproven,
            readFails, alarm, health>>

Blocking == {"read", "store"}

\* CaptureHealthState::healthy_baseline
Baseline(doubted) == IF doubted THEN "source unproven" ELSE "watching"

WdInit ==
    /\ workerAt = "recover" /\ sleepLeft = 0 /\ beatAge = 0 /\ interval = MinPoll
    /\ workerPaused = FALSE /\ storageBad = FALSE /\ unproven = FALSE /\ readFails = 0
    /\ alarm = FALSE /\ health = "starting"

\* Defective variant of Beats: the recovery wait is one long sleep.
BeatsNever == FALSE

\* sleep_with_heartbeat beats twice a second; the poll sleep does not.
Beats == workerAt = "recover"

WdTick ==
    /\ \/ workerAt \in Blocking /\ beatAge < StallTimeout /\ UNCHANGED sleepLeft
       \/ sleepLeft > 0 /\ sleepLeft' = sleepLeft - 1
    /\ beatAge' = IF Beats THEN 0 ELSE Min({beatAge + 1, StallTimeout})
    /\ UNCHANGED <<workerAt, interval, workerPaused, storageBad, unproven, readFails, alarm,
                   health>>

WdTogglePause ==
    /\ workerPaused' = ~workerPaused
    /\ UNCHANGED <<workerAt, sleepLeft, beatAge, interval, storageBad, unproven, readFails,
                   alarm, health>>

-----------------------------------------------------------------------------
(* The worker *)

\* AdaptivePollScheduler: activity polls fast, a stable clipboard ever more
\* slowly unless there was activity lately; back_off doubles the interval.
Observed(seen) ==
    IF seen = "stable" THEN {interval, Min({interval + (interval + 1) \div 2, MaxPoll})}
                       ELSE {MinPoll}
Spaced(seen) == LET now == Observed(seen) IN now \cup {Min({2 * i, MaxPoll}) : i \in now}

\* The head of the loop: a beat, and the sleep until the next poll.
SleepAgain(seen) ==
    /\ interval' \in Spaced(seen) /\ sleepLeft' = interval'
    /\ workerAt' = "sleep" /\ beatAge' = 0

\* The end of a run_worker: spawn asks the supervisor and waits.
Leaves ==
    /\ \E recovery \in DOMAIN RecoveryDelay :
          /\ sleepLeft' = RecoveryDelay[recovery]
          /\ health' = CASE recovery = "resubscribe" -> "read error"
                         [] recovery = "restart" -> "stalled"
                         [] recovery = "degrade" -> "unavailable"
    /\ workerAt' = "recover" /\ beatAge' = 0
    /\ UNCHANGED <<interval, workerPaused, storageBad, unproven, readFails, alarm>>

\* A new run_worker, with a new CaptureHealthState.
WorkerBegins ==
    /\ workerAt = "recover" /\ sleepLeft = 0
    /\ workerAt' = "sleep" /\ beatAge' = 0
    /\ health' = "watching" /\ storageBad' = FALSE /\ unproven' = FALSE /\ readFails' = 0
    /\ interval' \in MinPoll..MaxPoll /\ sleepLeft' = interval'
    /\ UNCHANGED <<workerPaused, alarm>>

\* system_clipboard fails: the worker is gone before its first poll.
ClipboardUnavailable == workerAt = "recover" /\ sleepLeft = 0 /\ Leaves

PollPaused ==
    /\ workerAt = "sleep" /\ sleepLeft = 0 /\ workerPaused
    /\ SleepAgain("stable")
    /\ UNCHANGED <<workerPaused, storageBad, unproven, readFails, alarm, health>>

PollReads ==
    /\ workerAt = "sleep" /\ sleepLeft = 0 /\ ~workerPaused
    /\ workerAt' = "read" /\ beatAge' = 0
    /\ UNCHANGED <<sleepLeft, interval, workerPaused, storageBad, unproven, readFails, alarm,
                   health>>

\* CaptureHealthState::read_succeeded
ReadSucceeded == health' = IF storageBad THEN health ELSE Baseline(unproven)

\* Nothing to store: empty, unchanged, skipped, shed or rejected.
ReadOfNothing ==
    /\ workerAt = "read" /\ readFails' = 0
    /\ ReadSucceeded
    /\ \E seen \in {"stable", "change"} : SleepAgain(seen)
    /\ UNCHANGED <<workerPaused, storageBad, unproven, alarm>>

\* The backend proves no source: once per worker, on its first read of a
\* content and so before its first write, the user is told if rules rely on it.
JudgeSource ==
    /\ workerAt = "read" /\ ~unproven /\ ~storageBad
    /\ readFails' = 0 /\ unproven' = TRUE /\ health' = "source unproven"
    /\ \/ workerAt' = "store" /\ UNCHANGED <<sleepLeft, beatAge, interval>>
       \/ SleepAgain("change")
    /\ UNCHANGED <<workerPaused, storageBad, alarm>>

ReadOfClip ==
    /\ workerAt = "read" /\ readFails' = 0
    /\ ReadSucceeded
    /\ workerAt' = "store"
    /\ UNCHANGED <<sleepLeft, beatAge, interval, workerPaused, storageBad, unproven, alarm>>

\* CaptureHealthState::read_failed; too many in a row end the worker.
ReadFails ==
    /\ workerAt = "read" /\ readFails + 1 < ReadFailureLimit
    /\ readFails' = readFails + 1
    /\ health' = IF storageBad THEN health ELSE "read error"
    /\ SleepAgain("missed")
    /\ UNCHANGED <<workerPaused, storageBad, unproven, alarm>>
ReadFailsAgain == workerAt = "read" /\ readFails + 1 >= ReadFailureLimit /\ Leaves

StoreSucceeds ==
    /\ workerAt = "store"
    /\ storageBad' = FALSE /\ health' = Baseline(unproven)
    /\ SleepAgain("change")
    /\ UNCHANGED <<workerPaused, unproven, readFails, alarm>>
StoreFails ==
    /\ workerAt = "store"
    /\ storageBad' = TRUE /\ health' = "storage error"
    /\ SleepAgain("change")
    /\ UNCHANGED <<workerPaused, unproven, readFails, alarm>>

\* catch_unwind
Panics == workerAt \in Blocking /\ Leaves

-----------------------------------------------------------------------------
(* The watchdog: it looks, and publishes what it saw in a step of its own. *)

\* watchdog_health
FindsStale ==
    /\ ~alarm /\ ~workerPaused /\ beatAge >= StallTimeout
    /\ alarm' = TRUE
    /\ UNCHANGED <<workerAt, sleepLeft, beatAge, interval, workerPaused, storageBad, unproven,
                   readFails, health>>

PublishesStall ==
    /\ alarm /\ alarm' = FALSE /\ health' = "stalled"
    /\ UNCHANGED <<workerAt, sleepLeft, beatAge, interval, workerPaused, storageBad, unproven,
                   readFails>>

Wakes == WorkerBegins \/ ClipboardUnavailable \/ PollPaused \/ PollReads
Returns ==
    ReadOfNothing \/ JudgeSource \/ ReadOfClip \/ ReadFails \/ ReadFailsAgain
        \/ StoreSucceeds \/ StoreFails \/ Panics
Watches == FindsStale \/ PublishesStall

WdNext == WdTick \/ WdTogglePause \/ Wakes \/ Returns \/ Watches

WdTypeOK ==
    /\ workerAt \in Blocking \cup {"sleep", "recover"} /\ sleepLeft \in Nat
    /\ beatAge \in 0..StallTimeout /\ interval \in MinPoll..MaxPoll
    /\ workerPaused \in BOOLEAN /\ storageBad \in BOOLEAN
    /\ unproven \in BOOLEAN /\ alarm \in BOOLEAN
    /\ readFails \in 0..(ReadFailureLimit - 1)
    /\ health \in {"starting", "watching", "source unproven", "read error", "storage error",
                   "unavailable", "stalled"}

-----------------------------------------------------------------------------
(* Properties *)

\* A heartbeat the watchdog finds stale is that of a worker stuck in a read or
\* a write, never of one that sleeps between polls, was told to back off, or
\* waits half a minute for its recovery (watchdog_timeout, sleep_with_heartbeat).
OnlyStuckIsStale == beatAge >= StallTimeout => workerAt \in Blocking

\* While a worker has not stored anything since a failed write, no good read,
\* failed read or stale alarm makes the display say that capture is fine
\* (CaptureHealthState).
FailedWriteShows ==
    storageBad /\ workerAt # "recover" => health \in {"storage error", "stalled"}

\* A worker that stays stuck is shown as stalled, whatever it published last
\* (spawn_watchdog).
StallIsShown == <>[](workerAt \in Blocking /\ ~workerPaused) => <>[](health = "stalled")

\* An alarm published late, over what the worker published since, is taken
\* back: a worker that goes on reading is in the end shown as it is.
WorkerIsFine ==
    /\ workerAt # "recover" /\ ~workerPaused /\ beatAge < StallTimeout
    /\ ~storageBad /\ readFails = 0
RecoveryIsShown == <>[]WorkerIsFine => <>[](health = Baseline(unproven))

\* All of it, as the display's promise to the user.
HealthIsHonest == [](OnlyStuckIsStale /\ FailedWriteShows) /\ StallIsShown /\ RecoveryIsShown
=============================================================================
