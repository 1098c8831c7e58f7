------------------------------ MODULE ConfigFile ------------------------------
(***************************************************************************)
(* The shared configuration file on pmxcfs, which every node sees: "init"  *)
(* creates it (writeNewConfig in init.go), "rotate" and "migrate" replace  *)
(* it (replaceConfig in rotate.go), and every command and every turn of    *)
(* the service chooses between it and the local file of its host and loads *)
(* the one it has chosen (preferredConfigPath in main.go, loadConfig in    *)
(* config.go).  No lock is taken by anybody.                               *)
(***************************************************************************)

CONSTANTS
    Content,        \* configurations that are complete and valid
    Nothing,        \* no file
    Partial,        \* a file that has been created and not, or not wholly, written
    Local,          \* the local file: a member of Content, or Nothing
    Installer,      \* who runs "init"
    Reader          \* who loads a configuration

ASSUME ConfigFileAssumption ==
    /\ Nothing \notin Content /\ Partial \notin Content /\ Nothing # Partial
    /\ Local \in Content \cup {Nothing}

VARIABLES
    shared,         \* the shared file
    pmxcfs,         \* on the nodes in question, see Mount
    installing,     \* installing[i]: how far i's init has come; "wrote": it has succeeded
    leftBehind,     \* an init could not remove the file it had created
    staged,         \* the temporary file of a replaceConfig that is under way
    choice,         \* choice[r]: the file r has chosen
    loaded          \* loaded[r]: the configuration r works with

fileVars == <<shared, pmxcfs, installing, leftBehind, staged, choice, loaded>>
writers == <<installing, leftBehind, staged>>
readers == <<choice, loaded>>

\* A file system that is mounted may still fail every access with an error; where
\* it is not mounted, /etc/pve is an empty directory and its files do not exist.
Mount == {"mounted", "failing", "unmounted"}

UnderWay == {"writing", "closing"}

FileTypeOK ==
    /\ shared \in Content \cup {Nothing, Partial}
    /\ pmxcfs \in Mount
    /\ installing \in [Installer -> UnderWay \cup {"idle", "wrote"}]
    /\ leftBehind \in BOOLEAN
    /\ staged \in Content \cup {Nothing}
    /\ choice \in [Reader -> {"none", "shared", "local"}]
    /\ loaded \in [Reader -> Content \cup {Nothing}]

FileInit ==
    /\ shared = Nothing
    /\ pmxcfs = "mounted"
    /\ installing = [i \in Installer |-> "idle"]
    /\ leftBehind = FALSE
    /\ staged = Nothing
    /\ choice = [r \in Reader |-> "none"]
    /\ loaded = [r \in Reader |-> Nothing]

-----------------------------------------------------------------------------
(* init.                                                                   *)

Now(i, state) == installing' = [installing EXCEPT ![i] = state]

\* Variant of CreateFile: the file is opened without O_EXCL, and truncated.
CreateOrTruncate(i) ==
    /\ installing[i] = "idle"
    /\ IF pmxcfs = "mounted"
       THEN shared' = Partial /\ Now(i, "writing")
       ELSE UNCHANGED <<shared, installing>>
    /\ UNCHANGED <<pmxcfs, leftBehind, staged, readers>>

\* runInit finds /etc/pve/priv and creates the file exclusively: one that is
\* there already, even a partial one, is left alone.  pmxcfs is taken not to be
\* unmounted between the two.
CreateFile(i) ==
    /\ installing[i] = "idle"
    /\ IF pmxcfs = "mounted" /\ shared = Nothing
       THEN shared' = Partial /\ Now(i, "writing")
       ELSE UNCHANGED <<shared, installing>>
    /\ UNCHANGED <<pmxcfs, leftBehind, staged, readers>>

\* i writes to the file that it has created, not to one that a replacement has
\* put in its place since.
WriteFile(i, c) ==
    /\ installing[i] = "writing"
    /\ pmxcfs = "mounted"
    /\ shared' = IF shared = Partial THEN c ELSE shared
    /\ Now(i, "closing")
    /\ UNCHANGED <<pmxcfs, leftBehind, staged, readers>>

CloseFile(i) ==
    /\ installing[i] = "closing"
    /\ pmxcfs = "mounted"
    /\ Now(i, "wrote")
    /\ UNCHANGED <<shared, pmxcfs, leftBehind, staged, readers>>

\* Variant of InstallFails: the file is not removed.
InstallFailsOnly(i) ==
    /\ installing[i] \in UnderWay
    /\ Now(i, "idle")
    /\ UNCHANGED <<shared, pmxcfs, leftBehind, staged, readers>>

\* Write or Close returns an error: the file of this name is removed, if it can
\* be.  The error of os.Remove is ignored.
InstallFails(i) ==
    /\ installing[i] \in UnderWay
    /\ Now(i, "idle")
    /\ IF pmxcfs = "mounted"
       THEN shared' = Nothing /\ UNCHANGED leftBehind
       ELSE leftBehind' = TRUE /\ UNCHANGED shared
    /\ UNCHANGED <<pmxcfs, staged, readers>>

\* The process is killed, or its node dies.
InstallKilled(i) ==
    /\ installing[i] \in UnderWay
    /\ Now(i, "idle")
    /\ leftBehind' = TRUE
    /\ UNCHANGED <<shared, pmxcfs, staged, readers>>

\* An operator removes what a failed init has left, when none is running.
CleanUp ==
    /\ leftBehind /\ pmxcfs = "mounted"
    /\ \A i \in Installer : installing[i] \notin UnderWay
    /\ shared' = Nothing
    /\ leftBehind' = FALSE
    /\ UNCHANGED <<pmxcfs, installing, staged, readers>>

-----------------------------------------------------------------------------
(* replaceConfig.                                                          *)

\* A command has loaded the file and writes the new content to a temporary one
\* beside it, which stays whatever becomes of the other.
Stage(c) ==
    /\ pmxcfs = "mounted" /\ shared \in Content
    /\ staged = Nothing
    /\ staged' = c
    /\ UNCHANGED <<shared, pmxcfs, installing, leftBehind, readers>>

\* Variant of Rename: the content is copied over the file.
CopyOver ==
    /\ staged # Nothing /\ pmxcfs = "mounted"
    /\ shared' = IF shared = Partial THEN staged ELSE Partial
    /\ staged' = IF shared = Partial THEN Nothing ELSE staged
    /\ UNCHANGED <<pmxcfs, installing, leftBehind, readers>>

Rename ==
    /\ staged # Nothing /\ pmxcfs = "mounted"
    /\ shared' = staged
    /\ staged' = Nothing
    /\ UNCHANGED <<pmxcfs, installing, leftBehind, readers>>

\* An error, or the end of the process, before the rename.
ReplaceFails ==
    /\ staged # Nothing
    /\ staged' = Nothing
    /\ UNCHANGED <<shared, pmxcfs, installing, leftBehind, readers>>

-----------------------------------------------------------------------------
(* Readers.                                                                *)

\* What os.Stat says of the shared file.
StatError == pmxcfs = "failing"
DoesNotExist == pmxcfs = "unmounted" \/ (pmxcfs = "mounted" /\ shared = Nothing)

\* Variant of Prefers: any error of os.Stat leads to the local file.
PrefersWhatAnswers == IF DoesNotExist \/ StatError THEN "local" ELSE "shared"

\* preferredConfigPath: only "does not exist" leads to the local file.
Prefers == IF DoesNotExist THEN "local" ELSE "shared"

ChooseFile(r) ==
    /\ choice[r] = "none"
    /\ choice' = [choice EXCEPT ![r] = Prefers]
    /\ UNCHANGED <<shared, pmxcfs, writers, loaded>>

\* Variant of Readable: a file that ends early is taken as it is.
ReadableInPart(r) ==
    IF choice[r] = "local" THEN Local
    ELSE IF pmxcfs = "mounted" THEN shared ELSE Nothing

\* What opening and decoding the chosen file gives; a partial file is no JSON.
Readable(r) ==
    IF choice[r] = "local" THEN Local
    ELSE IF pmxcfs = "mounted" /\ shared # Partial THEN shared ELSE Nothing

\* loadConfig: on an error the command ends, and watch waits for its next turn.
Load(r) ==
    /\ choice[r] # "none" /\ loaded[r] = Nothing
    /\ loaded' = [loaded EXCEPT ![r] = Readable(r)]
    /\ choice' = [choice EXCEPT ![r] = IF Readable(r) = Nothing THEN "none" ELSE @]
    /\ UNCHANGED <<shared, pmxcfs, writers>>

\* Variant of Finish: the file is chosen once, before the first turn.
FinishWithChoice(r) ==
    /\ loaded[r] # Nothing
    /\ loaded' = [loaded EXCEPT ![r] = Nothing]
    /\ UNCHANGED <<shared, pmxcfs, writers, choice>>

\* The command or the turn has ended; the next one chooses anew.
Finish(r) ==
    /\ loaded[r] # Nothing
    /\ loaded' = [loaded EXCEPT ![r] = Nothing]
    /\ choice' = [choice EXCEPT ![r] = "none"]
    /\ UNCHANGED <<shared, pmxcfs, writers>>

-----------------------------------------------------------------------------
\* pmxcfs is stopped, started, stops answering or answers again.
MountChanges ==
    /\ pmxcfs' \in Mount \ {pmxcfs}
    /\ UNCHANGED <<shared, writers, readers>>

Install ==
    \/ \E i \in Installer :
        \/ CreateFile(i) \/ CloseFile(i)
        \/ InstallFails(i) \/ InstallKilled(i)
        \/ \E c \in Content : WriteFile(i, c)
    \/ CleanUp

Replace == (\E c \in Content : Stage(c)) \/ Rename \/ ReplaceFails

-----------------------------------------------------------------------------
(* Properties.                                                             *)

\* An init that has reported success has installed a complete configuration,
\* and it is there as long as nobody replaces it: no other init, started at
\* the same time, refused, failed or killed, tears or removes it.  (README
\* "refuses to overwrite an existing configuration"; O_EXCL and the two calls
\* of os.Remove in writeNewConfig.)
ReportedMeansInstalled ==
    \A i \in Installer : installing[i] = "wrote" => shared \in Content

\* A partial file is an init under way, or what was left by one that could
\* not clean up: neither an init that just failed nor a replacement of the
\* file leaves one.  (os.Remove in writeNewConfig, os.Rename in replaceConfig,
\* README "atomically updates the configuration".)
PartialIsExplained ==
    shared = Partial => leftBehind \/ \E i \in Installer : installing[i] = "writing"
=============================================================================
