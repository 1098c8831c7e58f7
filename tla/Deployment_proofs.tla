-------------------------- MODULE Deployment_proofs --------------------------
(***************************************************************************)
(* The safety properties of Deployment, for any number of processes,       *)
(* users, configurations and faults.  Those of the file follow from        *)
(* FileInv, those of bootstrap from UsersInv; the two speak of different   *)
(* variables and meet in the configuration that a run has loaded.          *)
(***************************************************************************)
EXTENDS Deployment, TLAPS

\* One init at a time is between creating the file and closing it.
OneInstaller ==
    \A i, j \in Installer :
        (installing[i] \in UnderWay /\ installing[j] # "idle") => i = j

\* What the file holds at each stage of an init: nobody removes it, but a
\* replacement may have put a complete one in its place.
InstallerHolds ==
    \A i \in Installer :
        /\ installing[i] = "writing" => shared \in Content \cup {Partial}
        /\ installing[i] \in {"closing", "wrote"} => shared \in Content
        /\ installing[i] # "idle" => ~leftBehind

\* What a failed init leaves is a file, and a partial one has a reason.
RestHolds ==
    /\ leftBehind => shared # Nothing
    /\ shared = Partial => leftBehind \/ \E i \in Installer : installing[i] = "writing"

FileInv == FileTypeOK /\ OneInstaller /\ InstallerHolds /\ RestHolds

\* A run that has begun knows its configuration, and has completed the users
\* that it does not visit any more.
RunHolds ==
    \A b \in Bootstrapper : step[b] \in Busy \cup {"done"} =>
        /\ loaded[b] \in Content
        /\ \A u \in Wanted[loaded[b]] : u \in left[b] \/ Complete(u)
        /\ step[b] = "done" => left[b] = {}

\* The user that is visited is of the kind that the next step expects.
VisitHolds ==
    \A b \in Bootstrapper, u \in User : Visits(b, u) =>
        /\ step[b] = "create" => u \in StandardUser \cup RGWUser
        /\ step[b] = "add caps" => u \in RGWUser /\ Exists(u)

UsersInv == BootstrapTypeOK /\ RunHolds /\ VisitHolds

Inv == FileInv /\ UsersInv /\ faults \in 0..MaxFaults

USE ConfigFileAssumption, BootstrapAssumption, DeploymentAssumption

LEMMA InvInit == Init => Inv
<1> SUFFICES ASSUME Init
             PROVE  Inv
  OBVIOUS
<1>1. FileInv
  BY DEF Init, FileInit, FileInv, FileTypeOK, OneInstaller, InstallerHolds, RestHolds,
         UnderWay, Mount
<1>2. BootstrapTypeOK
  BY DEF Init, BootstrapInit, BootstrapTypeOK, Cap
<1>3. RunHolds /\ VisitHolds
  BY DEF Init, BootstrapInit, RunHolds, VisitHolds, Busy
<1> QED
  BY <1>1, <1>2, <1>3 DEF Init, Inv, UsersInv

-----------------------------------------------------------------------------
(* The file.                                                               *)

LEMMA InstallKeeps == FileInv /\ Install => FileInv'
<1> SUFFICES ASSUME FileInv, Install
             PROVE  FileInv'
  OBVIOUS
<1> USE DEF FileInv, FileTypeOK, OneInstaller, InstallerHolds, RestHolds, UnderWay, Now
<1>1. UNCHANGED readers
  BY DEF Install, CreateFile, CloseFile, InstallFails, InstallKilled, WriteFile, CleanUp
<1> USE <1>1 DEF readers
<1>3. ASSUME NEW i \in Installer, CreateFile(i)
      PROVE  (FileTypeOK /\ OneInstaller /\ InstallerHolds /\ RestHolds)'
  <2>1. CASE pmxcfs = "mounted" /\ shared = Nothing
    <3>1. \A j \in Installer : installing[j] = "idle"
      BY <2>1
    <3> QED
      BY <1>3, <2>1, <3>1 DEF CreateFile
  <2>2. CASE ~(pmxcfs = "mounted" /\ shared = Nothing)
    BY <1>3, <2>2 DEF CreateFile
  <2> QED
    BY <2>1, <2>2
<1>4. ASSUME NEW i \in Installer, CloseFile(i)
      PROVE  (FileTypeOK /\ OneInstaller /\ InstallerHolds /\ RestHolds)'
  BY <1>4 DEF CloseFile
<1>5. ASSUME NEW i \in Installer, InstallFails(i)
      PROVE  (FileTypeOK /\ OneInstaller /\ InstallerHolds /\ RestHolds)'
  <2>1. \A j \in Installer : installing'[j] = "idle"
    BY <1>5 DEF InstallFails
  <2>2. shared # Nothing
    BY <1>5 DEF InstallFails
  <2>3. CASE pmxcfs = "mounted"
    BY <1>5, <2>1, <2>2, <2>3 DEF InstallFails
  <2>4. CASE pmxcfs # "mounted"
    BY <1>5, <2>1, <2>2, <2>4 DEF InstallFails
  <2> QED
    BY <2>3, <2>4 DEF FileTypeOK
<1>6. ASSUME NEW i \in Installer, InstallKilled(i)
      PROVE  (FileTypeOK /\ OneInstaller /\ InstallerHolds /\ RestHolds)'
  BY <1>6 DEF InstallKilled
<1>7. ASSUME NEW i \in Installer, NEW c \in Content, WriteFile(i, c)
      PROVE  (FileTypeOK /\ OneInstaller /\ InstallerHolds /\ RestHolds)'
  BY <1>7 DEF WriteFile
<1>8. CASE CleanUp
  BY <1>8 DEF CleanUp
<1> QED
  BY <1>3, <1>4, <1>5, <1>6, <1>7, <1>8 DEF Install

LEMMA ReplaceKeeps == FileInv /\ Replace => FileInv'
<1> SUFFICES ASSUME FileInv, Replace
             PROVE  FileInv'
  OBVIOUS
<1> USE DEF FileInv, FileTypeOK, OneInstaller, InstallerHolds, RestHolds, UnderWay,
            readers
<1>1. ASSUME NEW c \in Content, Stage(c)
      PROVE  FileInv'
  BY <1>1 DEF Stage
<1>2. CASE Rename
  BY <1>2 DEF Rename
<1>3. CASE ReplaceFails
  BY <1>3 DEF ReplaceFails
<1> QED
  BY <1>1, <1>2, <1>3 DEF Replace

\* Readers change nothing but what they know.
LEMMA ReadKeeps ==
    ASSUME FileInv, NEW r \in Reader, ChooseFile(r) \/ Load(r) \/ Finish(r)
    PROVE  FileInv' /\ UNCHANGED <<shared, pmxcfs, writers>>
<1>1. UNCHANGED <<shared, pmxcfs, writers>>
  BY DEF ChooseFile, Load, Finish
<1>2. (OneInstaller /\ InstallerHolds /\ RestHolds)'
  BY <1>1 DEF FileInv, OneInstaller, InstallerHolds, RestHolds, writers, UnderWay
<1>3. CASE ChooseFile(r)
  <2>1. Prefers \in {"shared", "local"}
    BY DEF Prefers
  <2> QED
    BY <1>1, <1>2, <1>3, <2>1 DEF ChooseFile, FileInv, FileTypeOK, writers
<1>4. CASE Load(r)
  <2>1. Readable(r) \in Content \cup {Nothing}
    BY DEF Readable, FileInv, FileTypeOK
  <2> QED
    BY <1>1, <1>2, <1>4, <2>1 DEF Load, FileInv, FileTypeOK, writers
<1>5. CASE Finish(r)
  BY <1>1, <1>2, <1>5 DEF Finish, FileInv, FileTypeOK, writers
<1> QED
  BY <1>1, <1>3, <1>4, <1>5

LEMMA MountKeeps == FileInv /\ MountChanges => FileInv'
BY DEF MountChanges, writers, readers, FileInv, FileTypeOK, OneInstaller, InstallerHolds,
       RestHolds, UnderWay

-----------------------------------------------------------------------------
(* The users.                                                              *)

\* The loop visits one user at a time.
LEMMA VisitsOne ==
    ASSUME BootstrapTypeOK, NEW b \in Bootstrapper, NEW u \in User, NEW v \in User,
           Visits(b, u), Visits(b, v)
    PROVE  u = v
BY DEF Visits, BootstrapTypeOK

\* What a step of a run may do to the users, for the run and for the others:
\* nobody is removed, and nothing is taken from a user.
Grows ==
    \A u \in User : Exists(u) =>
        /\ key'[u] = key[u]
        /\ caps[u] \subseteq caps'[u]
        /\ caps'[u] \ caps[u] \subseteq IF u \in RGWUser THEN {"info"} ELSE {}

\* A step of b that leaves b in order leaves everybody in order.
LEMMA OthersKeep ==
    ASSUME UsersInv, NEW b \in Bootstrapper,
           BootstrapTypeOK', Grows, UNCHANGED loaded,
           \A c \in Bootstrapper \ {b} : step'[c] = step[c] /\ left'[c] = left[c],
           step'[b] \in Busy \cup {"done"} =>
               /\ loaded[b] \in Content
               /\ \A u \in Wanted[loaded[b]] : u \in left'[b] \/ Complete(u)'
               /\ step'[b] = "done" => left'[b] = {},
           \A u \in User : Visits(b, u)' =>
               /\ step'[b] = "create" => u \in StandardUser \cup RGWUser
               /\ step'[b] = "add caps" => u \in RGWUser /\ Exists(u)'
    PROVE  UsersInv'
<1>1. \A u \in User : Complete(u) => Complete(u)'
  BY DEF Grows, Complete, Exists
<1>2. RunHolds'
  BY <1>1 DEF UsersInv, RunHolds
<1>3. VisitHolds'
  <2> SUFFICES ASSUME NEW c \in Bootstrapper, NEW u \in User, Visits(c, u)'
               PROVE  (/\ step[c] = "create" => u \in StandardUser \cup RGWUser
                       /\ step[c] = "add caps" => u \in RGWUser /\ Exists(u))'
    BY DEF VisitHolds
  <2>1. CASE c = b
    BY <2>1
  <2>2. CASE c # b
    <3>1. step'[c] = step[c] /\ left'[c] = left[c]
      BY <2>2
    <3>2. Visits(c, u)
      BY <3>1 DEF Visits
    <3>3. Exists(u) => Exists(u)'
      BY DEF Grows, Exists
    <3> QED
      BY <3>1, <3>2, <3>3 DEF UsersInv, VisitHolds
  <2> QED
    BY <2>1, <2>2
<1> QED
  BY <1>2, <1>3 DEF UsersInv

\* A step that gives one user a key, or a capability, takes nothing away.
LEMMA CreatedGrows ==
    ASSUME BootstrapTypeOK, NEW u \in User, ~Exists(u), NEW k \in Key, NEW given \in SUBSET Cap,
           key' = [key EXCEPT ![u] = k], caps' = [caps EXCEPT ![u] = given]
    PROVE  /\ Grows /\ Exists(u)'
           /\ key' \in [User -> Key \cup {NoKey}] /\ caps' \in [User -> SUBSET Cap]
BY DEF BootstrapTypeOK, Grows, Exists

LEMMA NothingGrows == UNCHANGED <<key, caps>> => Grows
BY DEF Grows

LEMMA LookUpKeeps ==
    ASSUME Inv, NEW b \in Bootstrapper, LookUp(b), UNCHANGED fileVars
    PROVE  UsersInv' /\ Grows
<1>1. PICK u \in User :
        /\ Visits(b, u)
        /\ IF u \in RGWUser
           THEN Goto(b, IF Exists(u) THEN "add caps" ELSE "create")
           ELSE IF u \notin StandardUser
           THEN Fail(b)
           ELSE IF Exists(u) THEN NextUser(b, u) ELSE Goto(b, "create")
  BY DEF LookUp
<1>2. step[b] = "look" /\ UNCHANGED <<key, caps, loaded>>
  BY DEF LookUp, fileVars
<1>3. Grows
  BY <1>2, NothingGrows
<1>4. /\ \A v \in User : Visits(b, v) => v = u
      /\ \A v \in User : Complete(v)' <=> Complete(v)
      /\ Exists(u)' <=> Exists(u)
  BY <1>1, <1>2, VisitsOne DEF Inv, UsersInv, Complete, Exists
<1> USE DEF Inv, UsersInv, BootstrapTypeOK, RunHolds, Busy
<1>5. ASSUME NEW s \in {"create", "add caps"}, Goto(b, s),
             u \in StandardUser \cup RGWUser, s = "add caps" => u \in RGWUser /\ Exists(u)
      PROVE  UsersInv'
  <2>1. BootstrapTypeOK'
    BY <1>2, <1>5 DEF Goto
  <2>2. \A v \in User : Visits(b, v)' => v = u
    BY <1>4, <1>5 DEF Goto, Visits
  <2> QED
    BY <1>2, <1>3, <1>4, <1>5, <2>1, <2>2, OthersKeep DEF Goto
<1>6. CASE Fail(b)
  <2>1. BootstrapTypeOK'
    BY <1>2, <1>6 DEF Fail
  <2> QED
    BY <1>2, <1>3, <1>6, <2>1, OthersKeep DEF Fail
<1>7. CASE NextUser(b, u) /\ Complete(u)
  <2>1. BootstrapTypeOK'
    BY <1>2, <1>7 DEF NextUser
  <2>2. step'[b] \in {"done", "look"} /\ (step'[b] = "done" => left'[b] = {})
    BY <1>7 DEF NextUser
  <2>3. \A v \in Wanted[loaded[b]] : v \in left'[b] \/ Complete(v)'
    BY <1>2, <1>4, <1>7 DEF NextUser
  <2> QED
    BY <1>2, <1>3, <1>7, <2>1, <2>2, <2>3, OthersKeep DEF NextUser
<1> QED
  BY <1>1, <1>3, <1>5, <1>6, <1>7 DEF Complete

LEMMA LookUpFailsKeeps ==
    ASSUME Inv, NEW b \in Bootstrapper, LookUpFails(b), UNCHANGED fileVars
    PROVE  UsersInv' /\ Grows
<1>1. PICK u \in StandardUser \cup RGWUser : Visits(b, u)
  BY DEF LookUpFails
<1>2. /\ step[b] = "look" /\ UNCHANGED <<key, caps, loaded, left>>
      /\ step' = [step EXCEPT ![b] = "create"]
  BY DEF LookUpFails, Goto, fileVars
<1>3. Grows
  BY <1>2, NothingGrows
<1>4. BootstrapTypeOK'
  BY <1>2 DEF Inv, UsersInv, BootstrapTypeOK, Busy
<1>5. \A v \in User : Visits(b, v)' => v = u
  BY <1>1, <1>2, VisitsOne DEF Visits, Inv, UsersInv
<1>6. /\ loaded[b] \in Content
      /\ \A v \in Wanted[loaded[b]] : v \in left'[b] \/ Complete(v)'
  BY <1>2 DEF Inv, UsersInv, RunHolds, Busy, Complete, Exists
<1>7. step'[b] = "create" /\ \A c \in Bootstrapper \ {b} : step'[c] = step[c] /\ left'[c] = left[c]
  BY <1>2 DEF Inv, UsersInv, BootstrapTypeOK
<1> QED
  BY <1>1, <1>2, <1>3, <1>4, <1>5, <1>6, <1>7, OthersKeep DEF Inv

LEMMA FailsKeeps ==
    ASSUME Inv, NEW b \in Bootstrapper, BootstrapFails(b), UNCHANGED fileVars
    PROVE  UsersInv' /\ Grows
<1>1. UNCHANGED <<key, caps, loaded>>
  BY DEF BootstrapFails, fileVars
<1>2. Grows
  BY <1>1, NothingGrows
<1>3. BootstrapTypeOK'
  BY <1>1 DEF BootstrapFails, Fail, Inv, UsersInv, BootstrapTypeOK, Busy
<1>4. step'[b] = "failed" /\ \A c \in Bootstrapper \ {b} : step'[c] = step[c] /\ left'[c] = left[c]
  BY DEF BootstrapFails, Fail, Inv, UsersInv, BootstrapTypeOK
<1> QED
  BY <1>1, <1>2, <1>3, <1>4, OthersKeep DEF Inv, Busy

\* b is done with a user that is complete.
LEMMA NextUserKeeps ==
    ASSUME Inv, NEW b \in Bootstrapper, NEW u \in User, step[b] \in Busy,
           NextUser(b, u), UNCHANGED loaded, Grows, Complete(u)',
           key' \in [User -> Key \cup {NoKey}], caps' \in [User -> SUBSET Cap]
    PROVE  UsersInv'
<1> USE DEF Inv, UsersInv, BootstrapTypeOK
<1>1. /\ step'[b] \in {"done", "look"} /\ (step'[b] = "done" => left'[b] = {})
      /\ left'[b] = left[b] \ {u}
      /\ \A c \in Bootstrapper \ {b} : step'[c] = step[c] /\ left'[c] = left[c]
  BY DEF NextUser
<1>2. BootstrapTypeOK'
  BY DEF NextUser, Busy
<1>3. loaded[b] \in Content /\ \A v \in Wanted[loaded[b]] : v \in left'[b] \/ Complete(v)'
  <2>1. \A v \in User : Complete(v) => Complete(v)'
    BY DEF Grows, Complete, Exists
  <2>2. loaded[b] \in Content /\ \A v \in Wanted[loaded[b]] : v \in User /\ (v \in left[b] \/ Complete(v))
    BY DEF RunHolds
  <2> QED
    BY <1>1, <2>1, <2>2
<1> QED
  BY <1>1, <1>2, <1>3, OthersKeep

LEMMA CreateKeeps ==
    ASSUME Inv, NEW b \in Bootstrapper, Create(b), UNCHANGED fileVars
    PROVE  UsersInv' /\ Grows
<1> USE DEF Inv, UsersInv, BootstrapTypeOK
<1>1. PICK u \in User :
        /\ Visits(b, u)
        /\ IF ~Exists(u)
           THEN /\ \E k \in Key : key' = [key EXCEPT ![u] = k]
                /\ caps' = [caps EXCEPT ![u] = Created(u)]
                /\ IF u \in RGWUser THEN Goto(b, "add caps") ELSE NextUser(b, u)
           ELSE /\ IF u \in StandardUser /\ caps[u] = Created(u)
                   THEN NextUser(b, u)
                   ELSE Fail(b)
                /\ UNCHANGED <<key, caps>>
  BY DEF Create
<1>2. step[b] = "create" /\ UNCHANGED loaded /\ u \in StandardUser \cup RGWUser
  BY <1>1 DEF Create, fileVars, VisitHolds
<1>3. CASE ~Exists(u)
  <2>1. Created(u) \in SUBSET Cap
    BY DEF Created, Cap
  <2>2. /\ Grows /\ Exists(u)'
        /\ key' \in [User -> Key \cup {NoKey}] /\ caps' \in [User -> SUBSET Cap]
    BY <1>1, <1>3, <2>1, CreatedGrows
  <2>3. CASE u \notin RGWUser
    BY <1>1, <1>2, <1>3, <2>2, <2>3, NextUserKeeps DEF Complete, Busy
  <2>4. CASE u \in RGWUser
    <3>1. /\ step' = [step EXCEPT ![b] = "add caps"] /\ UNCHANGED left
      BY <1>1, <1>3, <2>4 DEF Goto
    <3>2. BootstrapTypeOK' /\ \A c \in Bootstrapper \ {b} : step'[c] = step[c] /\ left'[c] = left[c]
      BY <2>2, <3>1 DEF Busy
    <3>3. \A v \in User : Visits(b, v)' => v = u
      BY <1>1, <3>1, VisitsOne DEF Visits
    <3>4. loaded[b] \in Content /\ \A v \in Wanted[loaded[b]] : v \in left'[b] \/ Complete(v)'
      BY <1>2, <2>2, <3>1 DEF RunHolds, Grows, Complete, Exists, Busy
    <3>5. step'[b] = "add caps"
      BY <3>1
    <3> QED
      BY <1>2, <2>2, <2>4, <3>2, <3>3, <3>4, <3>5, OthersKeep
  <2> QED
    BY <2>2, <2>3, <2>4
<1>4. CASE Exists(u)
  <2>1. UNCHANGED <<key, caps>> /\ Grows
    BY <1>1, <1>4, NothingGrows
  <2>2. CASE NextUser(b, u) /\ u \in StandardUser
    <3>1. Complete(u)'
      BY <1>4, <2>1, <2>2 DEF Complete, Exists
    <3> QED
      BY <1>2, <2>1, <2>2, <3>1, NextUserKeeps DEF Busy
  <2>3. CASE Fail(b)
    <3>1. BootstrapFails(b)
      BY <1>2, <2>1, <2>3 DEF BootstrapFails, Busy
    <3> QED
      BY <3>1, FailsKeeps
  <2> QED
    BY <1>1, <1>4, <2>1, <2>2, <2>3
<1> QED
  BY <1>3, <1>4

LEMMA AddCapsKeeps ==
    ASSUME Inv, NEW b \in Bootstrapper, AddCaps(b), UNCHANGED fileVars
    PROVE  UsersInv' /\ Grows
<1> USE DEF Inv, UsersInv, BootstrapTypeOK
<1>1. PICK u \in User :
        Visits(b, u) /\ caps' = [caps EXCEPT ![u] = @ \cup {"info"}] /\ NextUser(b, u)
  BY DEF AddCaps
<1>2. step[b] = "add caps" /\ UNCHANGED <<key, loaded>> /\ u \in RGWUser /\ Exists(u)
  BY <1>1 DEF AddCaps, fileVars, VisitHolds
<1>3. caps' \in [User -> SUBSET Cap] /\ Grows /\ Complete(u)'
  BY <1>1, <1>2 DEF Cap, Grows, Complete, Exists
<1> QED
  BY <1>1, <1>2, <1>3, NextUserKeeps DEF Busy

LEMMA SomebodyKeeps ==
    ASSUME Inv, NEW u \in User, SomebodyCreates(u), UNCHANGED fileVars
    PROVE  UsersInv' /\ Grows
<1> USE DEF Inv, UsersInv, BootstrapTypeOK
<1>1. PICK k \in Key, given \in {Created(u), {"own"}} :
        key' = [key EXCEPT ![u] = k] /\ caps' = [caps EXCEPT ![u] = given]
  BY DEF SomebodyCreates
<1>2. given \in SUBSET Cap
  BY DEF Created, Cap
<1>3. UNCHANGED <<step, left, loaded>> /\ ~Exists(u)
  BY DEF SomebodyCreates, fileVars
<1>4. /\ Grows
      /\ key' \in [User -> Key \cup {NoKey}] /\ caps' \in [User -> SUBSET Cap]
  BY <1>1, <1>2, <1>3, CreatedGrows
<1>5. RunHolds'
  <2>1. \A v \in User : Complete(v) => Complete(v)'
    BY <1>4 DEF Grows, Complete, Exists
  <2> QED
    BY <1>3, <2>1 DEF RunHolds
<1>6. VisitHolds'
  BY <1>3, <1>4 DEF VisitHolds, Visits, Grows, Exists
<1> QED
  BY <1>3, <1>4, <1>5, <1>6

\* A run that knows nothing yet, or does not any more, may forget or learn its
\* configuration.
LEMMA ReadingKeepsRuns ==
    ASSUME UsersInv, UNCHANGED bootstrapVars,
           \A b \in Bootstrapper : step[b] \in Busy \cup {"done"} => loaded'[b] = loaded[b]
    PROVE  UsersInv' /\ Grows
<1> USE DEF bootstrapVars
<1>1. Grows
  BY NothingGrows
<1>2. RunHolds'
  BY DEF UsersInv, RunHolds, Complete, Exists
<1>3. VisitHolds'
  BY DEF UsersInv, VisitHolds, Visits, Exists
<1> QED
  BY <1>1, <1>2, <1>3 DEF UsersInv, BootstrapTypeOK

LEMMA BeginKeeps ==
    ASSUME Inv, NEW b \in Bootstrapper, Begin(b)
    PROVE  UsersInv' /\ Grows
<1> USE DEF Inv, UsersInv, BootstrapTypeOK, Begin, BeginBootstrap, fileVars
<1>1. Grows
  BY NothingGrows
<1>2. loaded[b] \in Content /\ Wanted[loaded[b]] \in SUBSET User
  BY DEF FileInv, FileTypeOK
<1>3. BootstrapTypeOK'
  BY <1>2 DEF Busy
<1>4. /\ step'[b] = "look" /\ left'[b] = Wanted[loaded[b]] /\ UNCHANGED loaded
      /\ \A c \in Bootstrapper \ {b} : step'[c] = step[c] /\ left'[c] = left[c]
  OBVIOUS
<1> QED
  BY <1>1, <1>2, <1>3, <1>4, OthersKeep

LEMMA ExitKeeps ==
    ASSUME Inv, NEW b \in Bootstrapper, Exit(b)
    PROVE  UsersInv' /\ Grows
<1> USE DEF Inv, UsersInv, BootstrapTypeOK
<1>1. UNCHANGED <<key, caps, left>> /\ step' = [step EXCEPT ![b] = "idle"]
  BY DEF Exit
<1>2. \A c \in Bootstrapper \ {b} : step'[c] = step[c] /\ loaded'[c] = loaded[c]
  BY <1>1 DEF Exit, Finish, FileInv, FileTypeOK
<1>3. step'[b] = "idle"
  BY <1>1
<1>4. RunHolds'
  BY <1>1, <1>2, <1>3 DEF RunHolds, Busy, Complete, Exists
<1>5. VisitHolds'
  BY <1>1, <1>2, <1>3 DEF VisitHolds, Visits, Exists
<1> QED
  BY <1>1, <1>4, <1>5, NothingGrows DEF Busy

-----------------------------------------------------------------------------
\* Files and users together: every step of Deployment keeps the invariant, and
\* takes nothing from a user.
LEMMA StepKeeps == Inv /\ Next => Inv' /\ Grows
<1> SUFFICES ASSUME Inv, Next
             PROVE  Inv' /\ Grows
  OBVIOUS
<1>1. CASE (Install \/ Replace) /\ UNCHANGED <<bootstrapVars, faults>>
  <2>1. FileInv'
    BY <1>1, InstallKeeps, ReplaceKeeps DEF Inv
  <2>2. UNCHANGED loaded
    BY <1>1 DEF Install, CreateFile, CloseFile, InstallFails, InstallKilled, WriteFile, CleanUp,
                Replace, Stage, Rename, ReplaceFails, readers
  <2> QED
    BY <1>1, <2>1, <2>2, ReadingKeepsRuns DEF Inv
<1>2. ASSUME NEW r \in Reader \ Bootstrapper, Serve(r)
      PROVE  Inv' /\ Grows
  <2>1. FileInv' /\ UNCHANGED <<bootstrapVars, faults>>
    BY <1>2, ReadKeeps DEF Serve, Inv
  <2>2. \A b \in Bootstrapper : loaded'[b] = loaded[b]
    BY <1>2 DEF Serve, ChooseFile, Load, Finish, Inv, FileInv, FileTypeOK
  <2> QED
    BY <2>1, <2>2, ReadingKeepsRuns DEF Inv
<1>3. ASSUME NEW b \in Bootstrapper, Prepare(b)
      PROVE  Inv' /\ Grows
  <2>1. FileInv' /\ UNCHANGED <<bootstrapVars, faults>> /\ step[b] = "idle"
    BY <1>3, ReadKeeps DEF Prepare, Inv
  <2>2. \A c \in Bootstrapper \ {b} : loaded'[c] = loaded[c]
    BY <1>3 DEF Prepare, ChooseFile, Load, Inv, FileInv, FileTypeOK
  <2> QED
    BY <2>1, <2>2, ReadingKeepsRuns DEF Inv, Busy
<1>4. ASSUME NEW b \in Bootstrapper, Begin(b)
      PROVE  Inv' /\ Grows
  <2>1. UsersInv' /\ Grows
    BY <1>4, BeginKeeps
  <2> QED
    BY <1>4, <2>1 DEF Begin, Inv, fileVars, FileInv, FileTypeOK, OneInstaller, InstallerHolds,
                      RestHolds
<1>5. ASSUME NEW b \in Bootstrapper, Proceed(b)
      PROVE  Inv' /\ Grows
  <2>1. UsersInv' /\ Grows
    BY <1>5, LookUpKeeps, CreateKeeps, AddCapsKeeps DEF Proceed, BootstrapStep
  <2> QED
    BY <1>5, <2>1 DEF Proceed, Inv, fileVars, FileInv, FileTypeOK, OneInstaller, InstallerHolds,
                      RestHolds
<1>6. ASSUME NEW b \in Bootstrapper, Exit(b)
      PROVE  Inv' /\ Grows
  <2>1. UsersInv' /\ Grows /\ faults' = faults
    BY <1>6, ExitKeeps DEF Exit
  <2>2. FileInv'
    BY <1>6, ReadKeeps DEF Exit, Inv
  <2> QED
    BY <2>1, <2>2 DEF Inv
<1>7. CASE Disturb
  <2>1. faults' \in 0..MaxFaults
    BY <1>7 DEF Disturb, Inv
  <2>2. CASE MountChanges /\ UNCHANGED bootstrapVars
    <3>1. UNCHANGED loaded
      BY <2>2 DEF MountChanges, readers
    <3> QED
      BY <2>1, <2>2, <3>1, MountKeeps, ReadingKeepsRuns DEF Inv
  <2>3. CASE UNCHANGED fileVars /\ UsersInv' /\ Grows
    BY <2>1, <2>3 DEF Inv, fileVars, FileInv, FileTypeOK, OneInstaller, InstallerHolds,
                      RestHolds
  <2> QED
    BY <1>7, <2>2, <2>3, SomebodyKeeps, LookUpFailsKeeps, FailsKeeps DEF Disturb
<1> QED
  BY <1>1, <1>2, <1>3, <1>4, <1>5, <1>6, <1>7 DEF Next

LEMMA StutterKeeps == Inv /\ UNCHANGED vars => Inv' /\ UNCHANGED bootstrapVars
<1> SUFFICES ASSUME Inv, UNCHANGED vars
             PROVE  Inv' /\ UNCHANGED bootstrapVars
  OBVIOUS
<1>1. FileInv'
  BY DEF vars, Inv, FileInv, FileTypeOK, OneInstaller, InstallerHolds, RestHolds
<1>2. UNCHANGED bootstrapVars
  BY DEF vars, bootstrapVars
<1>3. UsersInv'
  BY <1>2, ReadingKeepsRuns DEF Inv, vars
<1> QED
  BY <1>1, <1>2, <1>3 DEF Inv, vars

\* Inv holds in every reachable state: every step keeps it.
THEOREM Invariance == Spec => []Inv
<1>1. Inv /\ [Next]_vars => Inv'
  BY StepKeeps, StutterKeeps
<1> QED
  BY <1>1, InvInit, PTL DEF Spec

-----------------------------------------------------------------------------
(* The properties of the runs.                                             *)

\* Every variable has its type: no process loads, and no init leaves behind,
\* anything but a complete configuration, a partial file or none.
THEOREM TypeCorrect == Spec => []TypeOK
<1>1. Inv => TypeOK
  BY DEF Inv, FileInv, UsersInv, TypeOK
<1> QED
  BY <1>1, Invariance, PTL

\* An init that has reported success keeps what it installed, for any number of
\* inits at the same time, however they end.
THEOREM InstalledStays == Spec => []ReportedMeansInstalled
<1>1. Inv => ReportedMeansInstalled
  BY DEF Inv, FileInv, InstallerHolds, ReportedMeansInstalled
<1> QED
  BY <1>1, Invariance, PTL

\* A partial file has an init under way, or one that could not clean up, to
\* blame; a replacement never leaves one.
THEOREM PartialHasAReason == Spec => []PartialIsExplained
<1>1. Inv => PartialIsExplained
  BY DEF Inv, FileInv, RestHolds, PartialIsExplained
<1> QED
  BY <1>1, Invariance, PTL

\* Success of bootstrap means that every user is there, for any number of runs
\* at the same time and any number of users.
THEOREM SuccessIsComplete == Spec => []DoneMeansComplete
<1>1. Inv => DoneMeansComplete
  BY DEF Inv, UsersInv, RunHolds, DoneMeansComplete
<1> QED
  BY <1>1, Invariance, PTL

\* No step, of any run and after any failure, takes or changes what a user
\* has that exists.
THEOREM ExistingUsersStay == Spec => UsersAreLeftAlone
<1>1. Inv /\ [Next]_vars =>
        [\A u \in User : Exists(u) =>
            /\ key'[u] = key[u]
            /\ caps[u] \subseteq caps'[u]
            /\ caps'[u] \ caps[u] \subseteq IF u \in RGWUser THEN {"info"} ELSE {}]_bootstrapVars
  BY StepKeeps, StutterKeeps DEF Grows
<1> QED
  BY <1>1, Invariance, PTL DEF Spec, UsersAreLeftAlone
=============================================================================
