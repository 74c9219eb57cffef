------------------------------- MODULE Settings -------------------------------
(***************************************************************************)
(* One configuration file with several writers (src/config.rs, main.rs,      *)
(* app.rs, autostart.rs): the resident, which reads it once and then saves the*)
(* copy in its memory, `vbuff config` commands, one at a time, which read,    *)
(* check and write, and the user's editor.  A write is atomic but may fail;   *)
(* any process may die between two steps; the login entry of the operating    *)
(* system has to follow the file.                                             *)
(***************************************************************************)
EXTENDS Integers, FiniteSets

CONSTANTS
    Sizes,       \* capture limits
    ProfileSize, \* the soft limit of a default profile
    Typed,       \* the files a user types, and other machines hand over
    MaxEdits     \* bound: edits

ASSUME SettingsAssumption ==
    Sizes \subseteq Nat \ {0} /\ ProfileSize \in Sizes /\ MaxEdits \in Nat

VARIABLES
    file,       \* config.toml, or NoFile
    savedBy,    \* ghost: "vbuff", when a save wrote it, or "other"
    rollback,   \* the copy a migration leaves, or NoFile
    migrated,   \* ghost: what the last migration rewrote, or NoFile
    mem,        \* the resident's Config, or NoFile when it does not run
    before,     \* set_autostart: the Config to go back to, or NoFile
    behind,     \* ghost: another writer's file, or one that could not be put back
    entry,      \* the operating system starts vbuff at login
    unsure,     \* ghost: a call to the operating system failed to do what it said
    command,    \* the `vbuff config` command: [step, text]
    edits

setVars == <<file, savedBy, rollback, migrated, mem, before, behind, entry, unsure,
             command, edits>>

Legacy == 1
Current == 2
Unknown == 3
NoFile == [schema |-> 0]
Idle == [step |-> "none", text |-> NoFile]

\* A file as the program tells it apart: Unknown is a newer schema, or keys that
\* it does not know.
Configs == [schema : {Legacy, Current, Unknown}, preview : Sizes, soft : Sizes,
            login : BOOLEAN, prefs : BOOLEAN]
DefaultConfig == [schema |-> Current, preview |-> ProfileSize, soft |-> ProfileSize,
                  login |-> FALSE, prefs |-> FALSE]

ASSUME TypedAssumption == Typed \subseteq Configs

\* parse_runtime_config, validate
Parses(c) == c.schema \in {Legacy, Current}
LimitsFit(c) == c.preview <= c.soft
Loadable(c) == Parses(c) /\ c.schema = Current /\ LimitsFit(c)

SetInit ==
    /\ file = NoFile /\ savedBy = "other" /\ rollback = NoFile /\ migrated = NoFile
    /\ mem = NoFile /\ before = NoFile /\ behind = FALSE /\ entry = FALSE
    /\ unsure = FALSE /\ command = Idle /\ edits = 0

Running == mem # NoFile
Ready == Running /\ before = NoFile
Quiet == UNCHANGED <<rollback, migrated, command, edits>>

\* save: nothing invalid is written, and a write leaves the old file or the new.
Saves(c) == Loadable(c) /\ file' = c /\ savedBy' = "vbuff"
SaveFails == UNCHANGED <<file, savedBy>>

TakenBack(c) == mem' = mem

\* A change of the running program: written, or taken back.
Changes(c) ==
    \/ Saves(c) /\ mem' = c /\ behind' = FALSE
    \/ SaveFails /\ TakenBack(c) /\ UNCHANGED behind

-----------------------------------------------------------------------------
\* load_or_create, then the login entry is made to follow.
StartApp ==
    /\ ~Running
    /\ \/ file = NoFile /\ Saves(DefaultConfig) /\ mem' = DefaultConfig
       \/ Loadable(file) /\ SaveFails /\ mem' = file
    /\ \/ entry' = mem'.login /\ unsure' = FALSE
       \/ UNCHANGED entry /\ unsure' = TRUE
    /\ behind' = FALSE
    /\ UNCHANGED before /\ Quiet

StopApp ==
    /\ Running /\ mem' = NoFile /\ before' = NoFile
    /\ UNCHANGED <<file, savedBy, behind, entry, unsure>> /\ Quiet

\* SetUiPreferences
SetPreferences ==
    /\ Ready /\ Changes([mem EXCEPT !.prefs = ~@])
    /\ UNCHANGED <<before, entry, unsure>> /\ Quiet

\* Config::apply_default_profile
WithProfile(c) ==
    [c EXCEPT !.soft = ProfileSize,
              !.preview = IF c.preview < ProfileSize THEN c.preview ELSE ProfileSize]

ApplyDefaultProfile ==
    /\ Ready /\ Changes(WithProfile(mem))
    /\ UNCHANGED <<before, entry, unsure>> /\ Quiet

\* set_autostart: the file first,
SetAutostart ==
    /\ Ready
    /\ LET c == [mem EXCEPT !.login = ~@] IN
       \/ Saves(c) /\ mem' = c /\ behind' = FALSE /\ before' = mem
       \/ SaveFails /\ UNCHANGED <<mem, behind, before>>
    /\ UNCHANGED <<entry, unsure>> /\ Quiet

\* memory goes back in any case, the file if it can be written;
GoesBack(c) ==
    /\ mem' = c
    /\ \/ Saves(c) /\ behind' = FALSE
       \/ SaveFails /\ behind' = TRUE

\* then the operating system, whose failure takes both back.
AutostartAnswers ==
    /\ Running /\ before # NoFile /\ before' = NoFile
    /\ \/ /\ entry' = mem.login /\ unsure' = FALSE
          /\ SaveFails /\ UNCHANGED <<mem, behind>>
       \/ UNCHANGED <<entry, unsure>> /\ GoesBack(before)
       \/ entry' = mem.login /\ unsure' = TRUE /\ GoesBack(before)
    /\ Quiet

-----------------------------------------------------------------------------
\* The user's editor.
EditFile ==
    /\ edits < MaxEdits /\ edits' = edits + 1
    /\ file' \in Typed /\ savedBy' = "other" /\ behind' = TRUE
    /\ UNCHANGED <<rollback, migrated, mem, before, entry, unsure, command>>

RestOfApp == UNCHANGED <<mem, before, entry, unsure>>
Begins(step, text) ==
    /\ command = Idle /\ command' = [step |-> step, text |-> text]

\* vbuff config apply: what is shared, on top of what it reads.
ReadForApply ==
    /\ Loadable(file)
    /\ \E shared \in Typed :
        /\ LimitsFit(shared)
        /\ Begins("write", [file EXCEPT !.preview = shared.preview, !.soft = shared.soft,
                                        !.login = shared.login])
    /\ UNCHANGED <<file, savedBy, behind, rollback, migrated, edits>> /\ RestOfApp

\* vbuff config handoff apply: a whole setup, checked by its own hash.
ReadHandoff ==
    /\ \E c \in Typed : Loadable(c) /\ Begins("write", c)
    /\ UNCHANGED <<file, savedBy, behind, rollback, migrated, edits>> /\ RestOfApp

WriteConfig ==
    /\ command.step = "write" /\ command' = Idle
    /\ \/ Saves(command.text) /\ behind' = TRUE
       \/ SaveFails /\ UNCHANGED behind
    /\ UNCHANGED <<rollback, migrated, edits>> /\ RestOfApp

\* vbuff config migrate apply: reads,
ReadForMigration ==
    /\ Parses(file) /\ file.schema # Current /\ Begins("backup", file)
    /\ UNCHANGED <<file, savedBy, behind, rollback, migrated, edits>> /\ RestOfApp

\* leaves a copy, or finds the same one,
BackedUp(text) == rollback \in {NoFile, text} /\ rollback' = text

BackUp ==
    /\ command.step = "backup"
    /\ \/ BackedUp(command.text) /\ command' = [command EXCEPT !.step = "migrate"]
       \/ UNCHANGED rollback /\ command' = Idle
    /\ UNCHANGED <<file, savedBy, behind, migrated, edits>> /\ RestOfApp

\* and rewrites what it read: the values stay.
Migrate ==
    /\ command.step = "migrate" /\ command' = Idle
    /\ \/ /\ file' = [command.text EXCEPT !.schema = Current]
          /\ migrated' = command.text /\ savedBy' = "other" /\ behind' = TRUE
       \/ SaveFails /\ UNCHANGED <<migrated, behind>>
    /\ UNCHANGED <<rollback, edits>> /\ RestOfApp

StopCommand ==
    /\ command # Idle /\ command' = Idle
    /\ UNCHANGED <<file, savedBy, behind, rollback, migrated, edits>> /\ RestOfApp

SetNext ==
    \/ StartApp \/ StopApp \/ SetPreferences \/ ApplyDefaultProfile
    \/ SetAutostart \/ AutostartAnswers \/ EditFile
    \/ ReadForApply \/ ReadHandoff \/ WriteConfig
    \/ ReadForMigration \/ BackUp \/ Migrate \/ StopCommand

SetSpec == SetInit /\ [][SetNext]_setVars

-----------------------------------------------------------------------------
SetTypeOK ==
    /\ {file, rollback, migrated, mem, before, command.text} \subseteq Configs \cup {NoFile}
    /\ command.step \in {"none", "write", "backup", "migrate"}

\* What the program saves it can load again, and a profile fits any limits it
\* may find (Config::save, apply_default_profile).
SavedIsLoadable ==
    /\ savedBy = "vbuff" => Loadable(file)
    /\ Running => Loadable(mem) /\ Loadable(WithProfile(mem))

\* A migration can be undone: the copy is of the very file it rewrote, however
\* many were tried, stopped or edited in between (MigrateApply).
MigrationIsReversible == migrated # NoFile => rollback = migrated

\* What the program shows is what it will find at its next start, unless someone
\* else wrote the file or it could not be put back (the handlers' rollbacks).
MemoryIsSaved == Ready /\ ~behind => file = mem

\* The login entry is what the settings show, unless the operating system did
\* not do what it said (set_autostart, main).
LoginIsAsShown == Ready /\ ~unsure => entry = mem.login

SettingsSafety ==
    /\ SetTypeOK /\ SavedIsLoadable /\ MigrationIsReversible /\ MemoryIsSaved
    /\ LoginIsAsShown
=============================================================================
