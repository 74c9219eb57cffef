----------------------------- MODULE MCPasteFlow -----------------------------
(***************************************************************************)
(* The popup: what a start of the application does to raise it                *)
(* (SingleInstance), what its list shows (HistoryWindow) and what becomes of  *)
(* a paste chosen in it (PasteFlow).  The three share no state, so a          *)
(* behaviour is of one of them, chosen at the start.                          *)
(*                                                                            *)
(* Pastes: two applications, a plain, a sensitive and an unverifiable clip;   *)
(* delays of 2, 1 and 3 ticks let the target miss the front three times       *)
(* before the deadline.  List: three clips of which the middle one expires,   *)
(* a list of two, a query that two of them match.  Starts: three processes,   *)
(* so that one quits or dies while one starts and one calls.                  *)
(***************************************************************************)
EXTENDS PasteFlow, HistoryWindow, SingleInstance

CONSTANTS safari, editor, plain, secret, blob, other, picker, noClip, noApp
CONSTANTS first, second, third

MCClips == {plain, secret, blob}
MCSensitive == {secret}
MCUnverifiable == {blob}
MCApps == {safari, editor}
MCDies == [c \in {1, 2, 3} |-> IF c = 2 THEN 1 ELSE 9]

\* A start while another quits; a query of the resident; a start while a query
\* holds the endpoint.
MCPurposes ==
    { [p \in {first, second, third} |->
          CASE p = first -> s[1] [] p = second -> s[2] [] p = third -> s[3]] :
        s \in {<<"show", "show", "show">>, <<"show", "ping", "ask">>, <<"ask", "ask", "show">>} }

VARIABLE part

popupSpecVars == <<part, vars, winVars, instVars>>

\* The parts that stand still start in one of their initial states.
PopupInit ==
    /\ part \in {"paste", "list", "start"} /\ Init /\ WinInit /\ InstInit
    /\ part # "list" => inStore = {}
    /\ part # "paste" => foreground = safari /\ backends = {}
    /\ part # "start" => os = "unix" /\ purpose = [p \in Processes |-> "show"]

PopupNext ==
    /\ UNCHANGED part
    /\ \/ part = "paste" /\ Next /\ UNCHANGED <<winVars, instVars>>
       \/ part = "list" /\ WinNext /\ UNCHANGED <<vars, instVars>>
       \/ part = "start" /\ InstNext /\ UNCHANGED <<vars, winVars>>

\* At rest neither the list nor a process that is not started has a step that
\* must happen.
PopupSpec ==
    /\ PopupInit /\ [][PopupNext]_popupSpecVars
    /\ WF_vars(part = "paste" /\ Tick) /\ WF_vars(part = "paste" /\ Poll)
    /\ WinFairness /\ InstFairness

\* The user is never left waiting: an armed paste is sent or given up, a search
\* gets its result, a start of the application ends.
UserIsAnswered == ArmedPasteIsAnswered /\ SearchIsAnswered /\ LaunchesEnd
=============================================================================
