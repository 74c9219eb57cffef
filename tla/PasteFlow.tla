------------------------------ MODULE PasteFlow ------------------------------
(***************************************************************************)
(* The paste-back path: PasteCoordinator (src/paste.rs), the event-loop     *)
(* handlers that drive it (src/app.rs) and the target bookkeeping of        *)
(* ConfirmedPaste (vbuff-platform/src/confirmed_paste.rs).                   *)
(*                                                                           *)
(* The coordinator lives on one event-loop thread.  The desktop does not:   *)
(* other applications copy, take the focus and exit between any two calls   *)
(* the coordinator makes, so the last due poll is split at each of its      *)
(* system calls (pc).  Instants are modelled as the ticks that remain.      *)
(***************************************************************************)
EXTENDS Naturals

CONSTANTS
    Clips,            \* the clips a user can select, one per fingerprint
    Sensitive,        \* the clips whose meta.sensitive is set
    Unverifiable,     \* the clips PasteGuardFingerprint::from_flavors refuses
    Other,            \* clipboard contents vbuff did not select, or none
    Apps,             \* the applications of the session
    Picker,           \* vbuff's own window, as a foreground application
    NoClip, NoApp,    \* None
    PasteDelay,       \* PASTE_DELAY, in ticks
    ConfirmDelay,     \* FOCUS_CONFIRM_DELAY
    ConfirmTimeout    \* FOCUS_CONFIRM_TIMEOUT

ASSUME ClipAssumption ==
    /\ Sensitive \subseteq Clips
    /\ Unverifiable \subseteq Clips
    /\ Other \notin Clips
    /\ NoClip \notin Clips
ASSUME AppAssumption == Picker \notin Apps /\ NoApp \notin Apps
ASSUME DelayAssumption ==
    /\ PasteDelay \in Nat \ {0}
    /\ ConfirmDelay \in Nat \ {0}
    /\ ConfirmTimeout \in Nat \ {0}

VARIABLES
    clipboard,    \* what the system clipboard holds
    holder,       \* who wrote it: "other", "vbuff", or "excluded" (vbuff,
                  \* with the history-exclusion hint on the contents)
    foreground,   \* the application that receives keystrokes
    running,      \* the applications that have not exited
    backends,     \* which of the writer and the paste backend were opened
    target,       \* ConfirmedPaste.target
    ready,        \* target_ready: a captured target no selection has used
    stage,        \* pending_stage
    guard,        \* pending_guard, then poll's local `expected`
    due,          \* ticks until pending_at
    deadline,     \* ticks until the ConfirmTarget deadline
    pc,           \* where the last poll of a paste stands between its calls
    popup,        \* the picker is visible
    notice,       \* the last notice shown to the user
    intent,       \* ghost: the paste the user is still waiting for
    written,      \* ghost: the clip of the latest copy(), NoClip if it failed
    raced         \* ghost: what the desktop changed after the poll checked it

world == <<clipboard, holder, foreground, running>>
pending == <<stage, guard, due, deadline>>
ghosts == <<intent, written, raced>>
vars == <<world, backends, target, ready, pending, pc, popup, notice, ghosts>>

Contents == Clips \union {Other}
NoIntent == [clip |-> NoClip, app |-> NoApp]

TypeOK ==
    /\ clipboard \in Contents
    /\ holder \in {"other", "vbuff", "excluded"}
    /\ foreground \in Apps \union {Picker}
    /\ running \in SUBSET Apps
    /\ backends \in SUBSET {"writer", "paste"}
    /\ target \in Apps \union {NoApp}
    /\ ready \in BOOLEAN
    /\ stage \in {"none", "restore", "confirm"}
    /\ guard \in Clips \union {NoClip}
    /\ due \in Nat
    /\ deadline \in Nat
    /\ pc \in {"idle", "guard", "inject", "send"}
    /\ popup \in BOOLEAN
    /\ notice \in {"none", "copy_failed", "paste_failed", "sent"}
    /\ intent \in [clip : Clips \union {NoClip}, app : Apps \union {NoApp}]
    /\ written \in Clips \union {NoClip}
    /\ raced \in SUBSET {"clipboard", "focus"}

Init ==
    /\ clipboard = Other
    /\ holder = "other"
    /\ foreground \in Apps
    /\ running = Apps
    /\ backends \in SUBSET {"writer", "paste"}
    /\ target = NoApp
    /\ ready = FALSE
    /\ stage = "none" /\ guard = NoClip /\ due = 0 /\ deadline = 0
    /\ pc = "idle"
    /\ popup = FALSE
    /\ notice = "none"
    /\ intent = NoIntent
    /\ written = NoClip
    /\ raced = {}

-----------------------------------------------------------------------------
(* The desktop *)

\* Another application, or the user inside one, puts c on the clipboard.
AppCopies(c) ==
    /\ clipboard' = c
    /\ holder' = "other"
    /\ raced' = IF pc \in {"inject", "send"} THEN raced \union {"clipboard"} ELSE raced
    /\ UNCHANGED <<foreground, running, backends, target, ready, pending, pc,
                   popup, notice, intent, written>>

\* The user or the window manager brings a to the front.
FocusMoves(a) ==
    /\ a \in running \/ (a = Picker /\ popup)
    /\ a # foreground
    /\ foreground' = a
    /\ raced' = IF pc = "send" THEN raced \union {"focus"} ELSE raced
    /\ UNCHANGED <<clipboard, holder, running, backends, target, ready, pending,
                   pc, popup, notice, intent, written>>

\* A background application exits.
AppExits(a) ==
    /\ a \in running \ {foreground}
    /\ running' = running \ {a}
    /\ UNCHANGED <<clipboard, holder, foreground, backends, target, ready,
                   pending, pc, popup, notice, ghosts>>

\* Time passes for the armed paste.
Tick ==
    /\ due > 0 \/ deadline > 0
    /\ due' = IF due > 0 THEN due - 1 ELSE 0
    /\ deadline' = IF deadline > 0 THEN deadline - 1 ELSE 0
    /\ UNCHANGED <<world, backends, target, ready, stage, guard, pc, popup,
                   notice, ghosts>>

-----------------------------------------------------------------------------
(* Helpers of the coordinator *)

\* cancel_pending
Disarmed == stage' = "none" /\ guard' = NoClip /\ due' = 0 /\ deadline' = 0

\* cancel_target: the armed paste, if any, stays armed without a target.
TargetDropped == ready' = FALSE /\ target' = NoApp

Writer == "writer" \in backends
Paster == "paste" \in backends

\* Defective variant: the exclusion receipt of a sensitive write is ignored.
ReceiptIgnored(c) ==
    /\ Writer
    /\ clipboard' = c
    /\ holder' \in {"vbuff", "excluded"}
    /\ written' = c

\* copy(): what the clipboard write leaves behind.  A sensitive clip asks for
\* RequireExcludeFromSystemHistory, and copy() takes no receipt for it but
\* RetentionHintApplied.
CopySucceeds(c) ==
    /\ Writer
    /\ clipboard' = c
    /\ holder' \in IF c \in Sensitive THEN {"excluded"} ELSE {"vbuff", "excluded"}
    /\ written' = c

\* copy() returns an error: there is no writer or the backend refused the clip
\* before it placed a byte; the backend failed halfway and left something else;
\* or the clip is on the clipboard after all, because the backend failed after
\* it placed the clip or answered with a receipt copy() does not accept.
CopyFails(c) ==
    /\ written' = NoClip
    /\ \/ UNCHANGED <<clipboard, holder>>
       \/ Writer /\ clipboard' = Other /\ holder' = "vbuff"
       \/ Writer /\ clipboard' = c /\ holder' \in {"vbuff", "excluded"}

-----------------------------------------------------------------------------
(* The event loop between polls *)

\* Defective variant: vbuff's own window is remembered as the target.
CapturesPicker ==
    /\ pc = "idle"
    /\ Disarmed
    /\ IF Paster THEN target' = foreground /\ ready' = TRUE ELSE TargetDropped
    /\ popup' = TRUE
    /\ intent' = NoIntent
    /\ UNCHANGED <<world, backends, pc, notice, written, raced>>

\* show_popup(GlobalHotkey): prepare_target remembers the foreground
\* application, and refuses vbuff's own window.
HotkeyShow ==
    /\ pc = "idle"
    /\ Disarmed
    /\ IF Paster /\ foreground \in running
         THEN target' = foreground /\ ready' = TRUE
         ELSE TargetDropped
    /\ popup' = TRUE
    /\ intent' = NoIntent
    /\ UNCHANGED <<world, backends, pc, notice, written, raced>>

\* show_popup(Unverified): the tray or a second launch summons the picker.
UnverifiedShow ==
    /\ pc = "idle"
    /\ TargetDropped
    /\ popup' = TRUE
    /\ intent' = NoIntent
    /\ UNCHANGED <<world, backends, pending, pc, notice, written, raced>>

\* Defective variant: hiding the picker forgets to abandon the target.
DismissKeepsTarget ==
    /\ pc = "idle"
    /\ popup' = FALSE
    /\ intent' = NoIntent
    /\ UNCHANGED <<world, backends, target, ready, pending, pc, notice, written,
                   raced>>

\* UiAction::Hide, an OS close request, UiAction::Quit: all abandon the target.
Dismiss ==
    /\ pc = "idle"
    /\ TargetDropped
    /\ popup' = FALSE
    /\ intent' = NoIntent
    /\ UNCHANGED <<world, backends, pending, pc, notice, written, raced>>

\* start_paste_flavors -> schedule, automatic: the write succeeded and a
\* keystroke is armed for the target this picker was summoned from.
SelectArmed(c) ==
    /\ pc = "idle" /\ popup /\ Paster /\ ready
    /\ c \notin Unverifiable
    /\ CopySucceeds(c)
    /\ ready' = FALSE
    /\ stage' = "restore" /\ guard' = c /\ due' = PasteDelay /\ deadline' = 0
    /\ popup' = FALSE
    /\ notice' = "none"
    /\ intent' = [clip |-> c, app |-> target]
    /\ UNCHANGED <<foreground, running, backends, target, pc, raced>>

\* schedule without a ready target: the clip is only copied.
SelectCopied(c) ==
    /\ pc = "idle" /\ popup /\ ~(Paster /\ ready)
    /\ CopySucceeds(c)
    /\ Disarmed
    /\ TargetDropped
    /\ popup' = FALSE
    /\ notice' = "none"
    /\ intent' = NoIntent
    /\ UNCHANGED <<foreground, running, backends, pc, raced>>

\* schedule fails in the guard or in copy(); the picker stays open.  An
\* unverifiable clip is refused before copy(), so before cancel_pending.
SelectFails(c) ==
    /\ pc = "idle" /\ popup
    /\ IF Paster /\ ready /\ c \in Unverifiable
         THEN UNCHANGED <<pending, clipboard, holder, written>>
         ELSE Disarmed /\ CopyFails(c)
    /\ TargetDropped
    /\ notice' = "copy_failed"
    /\ intent' = NoIntent
    /\ UNCHANGED <<foreground, running, backends, pc, popup, raced>>

\* Defective variant: only a successful copy() disarms the older paste.
FailedCopyStaysArmed(c) ==
    /\ pc = "idle"
    /\ \/ CopySucceeds(c) /\ Disarmed /\ notice' = "none"
       \/ CopyFails(c) /\ notice' = "copy_failed" /\ UNCHANGED pending
    /\ intent' = NoIntent
    /\ UNCHANGED <<foreground, running, backends, target, ready, pc, popup, raced>>

\* AppCommand::CopyLatest from the tray: copy() and nothing else.
CopyLatest(c) ==
    /\ pc = "idle"
    /\ Disarmed
    /\ \/ CopySucceeds(c) /\ notice' = "none"
       \/ CopyFails(c) /\ notice' = "copy_failed"
    /\ intent' = NoIntent
    /\ UNCHANGED <<foreground, running, backends, target, ready, pc, popup, raced>>

-----------------------------------------------------------------------------
(* poll, one system call at a time *)

PollFails ==
    /\ Disarmed
    /\ TargetDropped
    /\ pc' = "idle"
    /\ notice' = "paste_failed"
    /\ intent' = NoIntent
    /\ raced' = {}
    /\ UNCHANGED <<world, backends, popup, written>>

\* PendingStage::RestoreTarget: ask the desktop to activate the target.
PollRestore ==
    /\ pc = "idle" /\ stage = "restore" /\ due = 0
    /\ \/ /\ target \in running
          /\ stage' = "confirm"
          /\ due' = ConfirmDelay
          /\ deadline' = ConfirmTimeout
          /\ UNCHANGED <<world, backends, target, ready, guard, pc, popup,
                         notice, ghosts>>
       \/ PollFails

TargetInFront == target # NoApp /\ target \in running /\ foreground = target

\* PendingStage::ConfirmTarget, target in front: the paste is no longer armed.
PollConfirmed ==
    /\ pc = "idle" /\ stage = "confirm" /\ due = 0
    /\ TargetInFront
    /\ stage' = "none" /\ due' = 0 /\ deadline' = 0
    /\ pc' = "guard"
    /\ UNCHANGED <<world, backends, target, ready, guard, popup, notice, ghosts>>

\* Defective variant: the wait for focus has no deadline.
WaitsForever ==
    /\ pc = "idle" /\ stage = "confirm" /\ due = 0
    /\ target # NoApp /\ ~TargetInFront
    /\ due' = ConfirmDelay
    /\ UNCHANGED <<world, backends, target, ready, stage, guard, deadline, pc,
                   popup, notice, ghosts>>

\* The target is not in front yet and the deadline has not passed.
PollWaits ==
    /\ pc = "idle" /\ stage = "confirm" /\ due = 0
    /\ target # NoApp /\ ~TargetInFront
    /\ deadline > 0
    /\ due' = ConfirmDelay
    /\ UNCHANGED <<world, backends, target, ready, stage, guard, deadline, pc,
                   popup, notice, ghosts>>

\* The target was abandoned, or never came to the front before the deadline.
PollGivesUp ==
    /\ pc = "idle" /\ stage = "confirm" /\ due = 0
    /\ target = NoApp \/ (~TargetInFront /\ deadline = 0)
    /\ PollFails

\* Re-read the clipboard and compare it with the selected clip; an
\* unreadable clipboard blocks like a changed one.
GuardAllows ==
    /\ pc = "guard"
    /\ clipboard = guard
    /\ pc' = "inject"
    /\ UNCHANGED <<world, backends, target, ready, pending, popup, notice, ghosts>>
GuardBlocks ==
    /\ pc = "guard"
    /\ PollFails

\* ConfirmedPaste::paste asks for the foreground application once more.
Reconfirmed ==
    /\ pc = "inject"
    /\ TargetInFront
    /\ pc' = "send"
    /\ UNCHANGED <<world, backends, target, ready, pending, popup, notice, ghosts>>
ReconfirmFails ==
    /\ pc = "inject"
    /\ ~TargetInFront
    /\ PollFails

\* The injector sends the paste shortcut, or fails to.
SendKeys ==
    /\ pc = "send"
    /\ Disarmed
    /\ TargetDropped
    /\ pc' = "idle"
    /\ notice' = "sent"
    /\ intent' = NoIntent
    /\ raced' = {}
    /\ UNCHANGED <<world, backends, popup, written>>
SendFails ==
    /\ pc = "send"
    /\ PollFails

-----------------------------------------------------------------------------
Desktop ==
    \/ \E c \in Contents : AppCopies(c)
    \/ \E a \in Apps \union {Picker} : FocusMoves(a)
    \/ \E a \in Apps : AppExits(a)

User ==
    \/ HotkeyShow
    \/ UnverifiedShow
    \/ Dismiss
    \/ \E c \in Clips : SelectArmed(c) \/ SelectCopied(c) \/ SelectFails(c)
                        \/ CopyLatest(c)

Poll ==
    \/ PollRestore \/ PollConfirmed \/ PollWaits \/ PollGivesUp
    \/ GuardAllows \/ GuardBlocks
    \/ Reconfirmed \/ ReconfirmFails
    \/ SendKeys \/ SendFails

Next == Desktop \/ Tick \/ User \/ Poll

\* poll_pending_paste runs on every frame, and asks for the next frame within
\* PASTE_REPAINT_INTERVAL while a paste is armed; the clock always advances.
Fairness == WF_vars(Tick) /\ WF_vars(Poll)

Spec == Init /\ [][Next]_vars
FairSpec == Spec /\ Fairness

-----------------------------------------------------------------------------
(* Properties *)

\* When the shortcut is about to be sent, the user is still waiting for this
\* paste (no dismissal, no newer copy, no newer summons since the selection),
\* the application in front is the one the picker was summoned from, and the
\* clipboard holds the selected clip; the desktop can only falsify the last
\* two in the gap after the poll's own final check of each (schedule, poll,
\* prepare_target, cancel_target and ConfirmedPaste::paste together).
KeystrokeServesIntent ==
    pc = "send" =>
        /\ intent # NoIntent
        /\ foreground = intent.app \/ "focus" \in raced
        /\ clipboard = intent.clip \/ "clipboard" \in raced

\* An armed paste always verifies against the clip of the latest copy(), and
\* that write succeeded: a failed or newer write leaves no older keystroke
\* armed (the comment in copy(): "cannot leave an older keystroke armed").
ArmedOnLatestWrite ==
    (stage # "none" \/ pc # "idle") => (guard = written /\ written # NoClip)

\* A sensitive clip that is on the clipboard without the OS-history exclusion
\* is never pasted from there: a write that went through without the exclusion
\* is one copy() reported as failed, and no keystroke is armed or being polled
\* over it, although poll's guard compares contents and would let an older paste
\* of the same clip through (copy() withdraws the pending paste before it writes
\* and refuses the receipt after it wrote).
UnexcludedIsNeverPasted ==
    holder = "vbuff" /\ clipboard \in Sensitive
        => written = NoClip /\ stage = "none" /\ pc = "idle"

\* Every armed paste is answered: the keystroke is sent, the user is told it
\* failed, or a newer action withdraws it; a target that never comes to the
\* front cannot keep it armed (the FOCUS_CONFIRM_TIMEOUT deadline of poll).
ArmedPasteIsAnswered == (stage # "none") ~> (stage = "none" /\ pc = "idle")
=============================================================================
