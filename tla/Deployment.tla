------------------------------ MODULE Deployment ------------------------------
(***************************************************************************)
(* How a cluster is set up: init installs the shared configuration,        *)
(* bootstrap loads a configuration and creates the users it names, and the *)
(* service loads it at every turn, while the file is replaced, pmxcfs is   *)
(* stopped or does not answer, and runs of every command fail.  Nothing    *)
(* forces an order on them.                                                *)
(***************************************************************************)
EXTENDS ConfigFile, Bootstrap

CONSTANTS
    Wanted,         \* Wanted[c]: the users that configuration c names
    MaxFaults       \* bound on what goes wrong

ASSUME DeploymentAssumption ==
    /\ Bootstrapper \subseteq Reader
    /\ Wanted \in [Content -> (SUBSET User) \ {{}}]
    /\ MaxFaults \in Nat

VARIABLE faults     \* what has gone wrong so far

vars == <<shared, pmxcfs, installing, leftBehind, staged, choice, loaded,
          key, caps, step, left, faults>>

TypeOK == FileTypeOK /\ BootstrapTypeOK /\ faults \in 0..MaxFaults

Init == FileInit /\ BootstrapInit /\ faults = 0

\* A turn of the service, from the choice of the file to its end.
Serve(r) ==
    /\ ChooseFile(r) \/ Load(r) \/ Finish(r)
    /\ UNCHANGED <<bootstrapVars, faults>>

\* runBootstrap: the configuration first, then the users it names.
Prepare(b) ==
    /\ step[b] = "idle"
    /\ ChooseFile(b) \/ Load(b)
    /\ UNCHANGED <<bootstrapVars, faults>>

Begin(b) ==
    /\ loaded[b] # Nothing
    /\ BeginBootstrap(b, Wanted[loaded[b]])
    /\ UNCHANGED <<fileVars, faults>>

Proceed(b) == BootstrapStep(b) /\ UNCHANGED <<fileVars, faults>>

\* The process exits, with or without success, and may be run again.
Exit(b) ==
    /\ step[b] \in {"done", "failed"}
    /\ Finish(b)
    /\ step' = [step EXCEPT ![b] = "idle"]
    /\ UNCHANGED <<key, caps, left, faults>>

Disturb ==
    /\ faults < MaxFaults
    /\ faults' = faults + 1
    /\ \/ MountChanges /\ UNCHANGED bootstrapVars
       \/ (\E u \in User : SomebodyCreates(u)) /\ UNCHANGED fileVars
       \/ (\E b \in Bootstrapper : LookUpFails(b) \/ BootstrapFails(b)) /\ UNCHANGED fileVars

Next ==
    \/ (Install \/ Replace) /\ UNCHANGED <<bootstrapVars, faults>>
    \/ \E r \in Reader \ Bootstrapper : Serve(r)
    \/ \E b \in Bootstrapper : Prepare(b) \/ Begin(b) \/ Proceed(b) \/ Exit(b)
    \/ Disturb

\* The service goes on to its next turn.  An operator runs bootstrap again and
\* again; its commands end.
Fairness ==
    /\ \A r \in Reader \ Bootstrapper : WF_vars(Serve(r))
    /\ \A b \in Bootstrapper :
        WF_vars(Prepare(b)) /\ WF_vars(Begin(b)) /\ WF_vars(Proceed(b)) /\ WF_vars(Exit(b))

Spec == Init /\ [][Next]_vars /\ Fairness

-----------------------------------------------------------------------------
(* Properties.                                                             *)

\* A run that has reported success has found or created every user that its
\* configuration names, with the capability an RGW user needs, although
\* another run or an operator may have created it first.  (bootstrap and
\* EnsureRGWAdmin.)
DoneMeansComplete ==
    \A b \in Bootstrapper : step[b] = "done" =>
        \A u \in Wanted[loaded[b]] : Complete(u)

\* Once a shared configuration is there to stay, and pmxcfs is not unmounted any
\* more, nobody goes on working with anything else: with what was there before,
\* or with the local file, which the program takes both when there is no shared
\* file yet and when pmxcfs is not mounted.  If pmxcfs answers, the service
\* and a command that is run again come to work with it; if it does not, turns fail.  (README
\* "falls back to ... when the shared file does not exist" and "Shared
\* configuration ... changes are picked up by every node during polling";
\* preferredConfigPath in syncOnce.)
SharedIsFollowed ==
    \A c \in Content, r \in Reader :
        /\ <>[](shared = c /\ pmxcfs # "unmounted") => <>[](loaded[r] \in {c, Nothing})
        /\ <>[](shared = c /\ pmxcfs = "mounted") => []<>(loaded[r] = c)

\* Wherever earlier runs have stopped, running bootstrap again completes the
\* users of the configuration that is in force, unless it names an entity
\* that bootstrap refuses to create.  (README "creates or reuses"; the lookup
\* before each creation.)
BootstrapCompletes ==
    \A c \in Content :
        Wanted[c] \subseteq StandardUser \cup RGWUser =>
            (<>[](shared = c /\ pmxcfs = "mounted") => <>[](\A u \in Wanted[c] : Complete(u)))
=============================================================================
