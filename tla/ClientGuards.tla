----------------------------- MODULE ClientGuards -----------------------------
(***************************************************************************)
(* One-shot messages (vbuff-types/src/replay.rs and its four users): callback*)
(* tokens, item capabilities, remote paste leases and webhook events are     *)
(* presented late, again and in any order, at a clock that may step back.    *)
(* Each user remembers what it accepted in a bounded window of its own.      *)
(* Signatures hold and bindings match: what is left is time and repetition.  *)
(*                                                                           *)
(* And what a client of the local interface may take: requests per window    *)
(* and token (operations/rate_limit.rs) and events from the retained part of *)
(* a stream (operations/runtime.rs).                                         *)
(***************************************************************************)
EXTENDS Integers, Sequences, FiniteSets

CONSTANTS
    Messages,      \* what was issued: [user, key, id, from, until]
    Capacity,      \* MAX_REPLAY_ENTRIES
    GuardMaxNow    \* bound: the last instant the clocks show

Users == {"callback", "capability", "remote", "webhook"}
Windows == Users \cup {"revocations"}

\* Nonces are random: a key names one message.  A request may be leased again
\* and an endpoint sends many events, told apart by their increasing ids.
ASSUME MessageAssumption ==
    /\ \A m \in Messages :
         /\ m.user \in Users /\ m.id \in Nat \ {0}
         /\ m.from \in Nat /\ m.until \in Nat /\ m.from < m.until
    /\ \A m, n \in Messages :
         /\ m.user = n.user /\ m.key = n.key
         /\ m.user \in {"callback", "capability"} \/ (m.user = "webhook" /\ m.id = n.id)
         => m = n
    /\ Capacity \in Nat /\ GuardMaxNow \in Nat

VARIABLES
    entries,     \* [window -> [recorded keys -> [state, until]]]
    floor,       \* [window -> clock_floor_ms]
    accepted,    \* ghost: [message -> how often it was accepted]
    reopened,    \* ghost: events accepted below an id whose event was still fresh
    revokedTo    \* ghost: [capability key -> until when it was revoked]

guardVars == <<entries, floor, accepted, reopened, revokedTo>>

Keys == {m.key : m \in Messages}
KeysOf(user) == {m.key : m \in {n \in Messages : n.user = user}}

GuardInit ==
    /\ entries = [w \in Windows |-> [k \in {} |-> {}]]
    /\ floor = [w \in Windows |-> 0]
    /\ accepted = [m \in Messages |-> 0]
    /\ reopened = {}
    /\ revokedTo = [k \in KeysOf("capability") |-> 0]

Latest(a, b) == IF a < b THEN b ELSE a

\* advance_to: what is left of a window at the clamped clock
Advanced(window, now) == [k \in {j \in DOMAIN window : window[j].until > now} |-> window[k]]

\* record: a live key keeps the longer retention, a new one needs room.
HasRoom(window, key) == key \in DOMAIN window \/ Cardinality(DOMAIN window) < Capacity

RecordedIn(window, key, state, until) ==
    [k \in DOMAIN window \cup {key} |->
        IF k # key THEN window[k]
        ELSE [state |-> state,
              until |-> IF k \in DOMAIN window THEN Latest(window[k].until, until) ELSE until]]

Fresh(m, now) == now < m.until /\ (m.user # "capability" => m.from <= now)

\* Defective variant of Unspent: the revocations are not consulted.
UnspentUnlessUsed(m, own, revoked) ==
    IF m.user = "webhook" THEN m.key \in DOMAIN own => own[m.key].state < m.id
    ELSE m.key \notin DOMAIN own

\* What each user asks of its window.  A capability is also looked up among the
\* revocations; an event must be above the last one of its endpoint.
Unspent(m, own, revoked) ==
    CASE m.user \in {"callback", "remote"} -> m.key \notin DOMAIN own
      [] m.user = "capability" -> m.key \notin DOMAIN own \cup DOMAIN revoked
      [] m.user = "webhook" -> m.key \in DOMAIN own => own[m.key].state < m.id

Below(m, now) ==
    \E n \in Messages :
        n.user = "webhook" /\ n.key = m.key /\ accepted[n] > 0 /\ m.id <= n.id /\ now < n.until

\* verify_and_consume, verify_and_accept
Present(m, clock) ==
    LET now == Latest(floor[m.user], clock)
        own == Advanced(entries[m.user], now)
        revoked == Advanced(entries["revocations"], now)
        swept == IF m.user = "capability"
                 THEN [entries EXCEPT ![m.user] = own, !["revocations"] = revoked]
                 ELSE [entries EXCEPT ![m.user] = own]
        accepts == Fresh(m, now) /\ Unspent(m, own, revoked) /\ HasRoom(own, m.key)
    IN
    /\ floor' = IF m.user = "capability"
                THEN [floor EXCEPT ![m.user] = now, !["revocations"] = now]
                ELSE [floor EXCEPT ![m.user] = now]
    /\ entries' = IF accepts
                  THEN [swept EXCEPT ![m.user] = RecordedIn(own, m.key, m.id, m.until)]
                  ELSE swept
    /\ accepted' = IF accepts THEN [accepted EXCEPT ![m] = @ + 1] ELSE accepted
    /\ reopened' = IF accepts /\ m.user = "webhook" /\ Below(m, now)
                   THEN reopened \cup {m} ELSE reopened
    /\ UNCHANGED revokedTo

\* CapabilityVerifier::revoke, for as long as its caller says; it does not sweep.
Revoke(k, until) ==
    /\ HasRoom(entries["revocations"], k)
    /\ entries' = [entries EXCEPT !["revocations"] = RecordedIn(@, k, 0, until)]
    /\ revokedTo' = [revokedTo EXCEPT ![k] = Latest(@, until)]
    /\ UNCHANGED <<floor, accepted, reopened>>

\* The users share nothing.
GuardStep(user) ==
    \/ \E m \in Messages, clock \in 0..GuardMaxNow : m.user = user /\ Present(m, clock)
    \/ \E k \in KeysOf("capability"), until \in 0..GuardMaxNow :
          user = "capability" /\ Revoke(k, until)

GuardNext == \E user \in Users : GuardStep(user)

GuardSpec == GuardInit /\ [][GuardNext]_guardVars

-----------------------------------------------------------------------------
GuardTypeOK ==
    /\ \A w \in Windows :
         /\ floor[w] \in Nat
         /\ DOMAIN entries[w] \subseteq Keys
         /\ \A k \in DOMAIN entries[w] : entries[w][k].until \in Nat /\ entries[w][k].state \in Nat
    /\ accepted \in [Messages -> Nat]
    /\ reopened \subseteq Messages

\* No message is accepted twice, however late, often and at whatever clock it
\* is presented, nor when the window is full (replay.rs:7-16).
AcceptedOnce == \A m \in Messages : accepted[m] <= 1

\* What makes forgetting safe: a message that was accepted is remembered until
\* it is refused as expired, at a clock that does not go back
\* (ReplayGuard::advance_to).
SpentIsRemembered ==
    \A m \in Messages : accepted[m] > 0 /\ floor[m.user] < m.until =>
        /\ m.key \in DOMAIN entries[m.user]
        /\ entries[m.user][m.key].until >= m.until
        /\ m.user = "webhook" => entries[m.user][m.key].state >= m.id

\* An endpoint's events are accepted in the order of their ids as long as the
\* later one could still be replayed (WebhookReplayWindow).
OrderIsKept == reopened = {}

\* A window never holds more than it may.
WindowsAreBounded == \A w \in Windows : Cardinality(DOMAIN entries[w]) <= Capacity

\* A capability is not accepted while it is revoked (CapabilityVerifier::revoke).
RevokedIsRefused ==
    [][\A m \in Messages :
         m.user = "capability" /\ accepted'[m] > accepted[m] =>
            floor'["revocations"] >= revokedTo[m.key]]_guardVars

GuardSafety ==
    GuardTypeOK /\ AcceptedOnce /\ SpentIsRemembered /\ OrderIsKept /\ WindowsAreBounded

-----------------------------------------------------------------------------
(* The rate limiter and the event stream. *)

CONSTANTS
    Tokens,          \* hashes of the clients' tokens
    QuotaOf,         \* [kind of request -> how many per window]
    MaxTokens,       \* MAX_RATE_LIMIT_TOKENS
    MaxWindow,       \* bound: the last window the clock shows
    MaxEvents,       \* bound: events of the stream
    Retention        \* how many events the stream keeps

Kinds == DOMAIN QuotaOf

ASSUME QuotaAssumption ==
    /\ QuotaOf \in [Kinds -> Nat \ {0}]
    /\ IsFiniteSet(Tokens) /\ MaxTokens \in Nat
    /\ MaxWindow \in Nat /\ MaxEvents \in Nat /\ Retention \in Nat \ {0}

VARIABLES
    windows,     \* [known tokens -> [id, counts]]
    latest,      \* latest_window_id, -1 for none
    granted,     \* ghost: [token, kind, window -> requests let through]
    refusedLive, \* ghost: a client within its quota was refused at a good clock
    produced,    \* the sequence number of the last event
    cursor,      \* EventReplayCursor::next_sequence
    taken,       \* the events the client was handed
    expired      \* the client was told CursorExpired

quotaVars == <<windows, latest, granted, refusedLive>>
streamVars == <<produced, cursor, taken, expired>>

QuotaInit ==
    /\ windows = [t \in {} |-> {}] /\ latest = -1 /\ refusedLive = FALSE
    /\ granted = [slot \in Tokens \X Kinds \X (0..MaxWindow) |-> 0]

StreamInit == produced = 0 /\ cursor = 1 /\ taken = <<>> /\ expired = FALSE

NoCounts == [k \in Kinds |-> 0]

\* A new token makes room: windows before the last one are forgotten.
Remembered(t, w) ==
    IF t \in DOMAIN windows THEN windows
    ELSE [u \in {v \in DOMAIN windows : windows[v].id >= w - 1} |-> windows[u]]

\* The count of a token in window w, reset when its window is an older one.
Rolled(known, t, w) ==
    [u \in DOMAIN known \cup {t} |->
        IF u # t THEN known[u]
        ELSE IF t \in DOMAIN known /\ known[t].id = w THEN known[t]
        ELSE [id |-> w, counts |-> NoCounts]]

\* admit in the window w of the caller's clock
Admit(t, k, w) ==
    LET known == Remembered(t, w)
        rolled == Rolled(known, t, w)
        full == t \notin DOMAIN known /\ Cardinality(DOMAIN known) >= MaxTokens
        spent == rolled[t].counts[k] >= QuotaOf[k]
    IN
    IF w < latest
    THEN UNCHANGED quotaVars                     \* the clock moved back
    ELSE
    /\ latest' = w
    /\ windows' = IF full THEN known
                  ELSE IF spent THEN rolled
                  ELSE [rolled EXCEPT ![t].counts[k] = @ + 1]
    /\ granted' = IF full \/ spent THEN granted ELSE [granted EXCEPT ![<<t, k, w>>] = @ + 1]
    /\ refusedLive' = (refusedLive \/
                       (granted[<<t, k, w>>] < QuotaOf[k] /\ (full \/ spent)
                        /\ Cardinality({u \in Tokens \ {t} : \E j \in Kinds, v \in {w - 1, w} :
                                           v >= 0 /\ granted[<<u, j, v>>] > 0}) < MaxTokens))

QuotaNext == \E t \in Tokens, k \in Kinds, w \in 0..MaxWindow : Admit(t, k, w)

-----------------------------------------------------------------------------
Oldest == IF produced > Retention THEN produced - Retention + 1 ELSE 1

Produce == produced < MaxEvents /\ produced' = produced + 1 /\ UNCHANGED <<cursor, taken, expired>>

\* select; the client moves its cursor past what it got.
Select(limit) ==
    /\ ~expired
    /\ IF cursor < Oldest
       THEN expired' = TRUE /\ UNCHANGED <<cursor, taken>>
       ELSE LET last == IF cursor + limit - 1 < produced THEN cursor + limit - 1 ELSE produced IN
            /\ taken' = taken \o [i \in 1..(last - cursor + 1) |-> cursor + i - 1]
            /\ cursor' = last + 1
            /\ UNCHANGED expired
    /\ UNCHANGED produced

StreamNext == Produce \/ \E limit \in 1..MaxEvents : Select(limit)

-----------------------------------------------------------------------------
QuotaTypeOK ==
    /\ DOMAIN windows \subseteq Tokens /\ Cardinality(DOMAIN windows) <= MaxTokens
    /\ \A t \in DOMAIN windows : windows[t].id \in 0..latest /\ windows[t].counts \in [Kinds -> Nat]
    /\ produced \in 0..MaxEvents /\ cursor \in 1..produced + 1

\* No token gets more of a kind than its quota in one window, whoever else
\* makes room for himself in between (TokenRateLimiter::admit).
QuotaHolds == \A t \in Tokens, k \in Kinds, w \in 0..MaxWindow : granted[<<t, k, w>>] <= QuotaOf[k]

\* A client within its quota is turned away only where as many others as the
\* limiter can remember were served in this window or the one before.
QuotaIsGiven == ~refusedLive

\* A client gets every event once and in order, or is told that its cursor
\* expired (EventReplayCursor::select).
NoEventIsSkipped == taken = [i \in 1..Len(taken) |-> i] /\ cursor = Len(taken) + 1

QuotaSafety == QuotaTypeOK /\ QuotaHolds /\ QuotaIsGiven /\ NoEventIsSkipped
=============================================================================
