------------------------- MODULE Configuration_proofs -------------------------
(***************************************************************************)
(* The safety of Configuration for any servers, texts, environments, files *)
(* that operators write, rotations and edits.                              *)
(*                                                                         *)
(* The argument is about applyDefaults: it leaves nothing open but a       *)
(* namespace and a CA bundle, so what a rotation saves is changed by no    *)
(* other environment in any field that has to be valid (LoadedAgain).      *)
(***************************************************************************)
EXTENDS Configuration, TLAPS

-----------------------------------------------------------------------------
(* applyDefaults.                                                          *)

LEMMA EnvTypes == Environment \subseteq Env /\ NoEnv \in Env
<1>1. NoEnv = [address |-> NoURL, namespace |-> "", ca_cert |-> ""]
  BY DEF NoEnv
<1>2. NoURL \in Address
  BY DEF NoURL, Address
<1> QED
  BY <1>1, <1>2, ConfigurationAssumption DEF Env

LEMMA WrittenTypes == Written \subseteq Config
BY ConfigurationAssumption

\* An address that has a URL is not the absent one.
LEMMA NoURLHasNone == NoURL.url = ""
BY DEF NoURL

LEMMA AuthDefaultsTypes ==
    ASSUME NEW auth \in Auth
    PROVE  AuthDefaults(auth) \in Auth
<1>1. CASE auth = NoAuth
  BY <1>1 DEF AuthDefaults
<1>2. CASE auth \in [method : Methods \cup {""}, mount : Text \cup Methods \cup {""},
                     account : BOOLEAN] /\ auth # NoAuth
  <2>1. PICK method : method = Or(auth.method, "token")
    OBVIOUS
  <2>2. method \in Methods
    BY <1>2, <2>1 DEF Or, Methods
  <2>3. Or(auth.mount, method) \in Text \cup Methods \cup {""}
    BY <1>2, <2>2 DEF Or
  <2>4. AuthDefaults(auth)
            = [auth EXCEPT !.method = method, !.mount = Or(auth.mount, method)]
    BY <1>2, <2>1 DEF AuthDefaults
  <2> QED
    BY <1>2, <2>2, <2>3, <2>4 DEF Auth
<1> QED
  BY <1>1, <1>2 DEF Auth

\* A section with its defaults keeps them.
LEMMA AuthDefaultsTwice ==
    ASSUME NEW auth \in Auth
    PROVE  AuthDefaults(AuthDefaults(auth)) = AuthDefaults(auth)
<1>1. CASE auth = NoAuth
  BY <1>1 DEF AuthDefaults
<1>2. CASE auth \in [method : Methods \cup {""}, mount : Text \cup Methods \cup {""},
                     account : BOOLEAN] /\ auth # NoAuth
  <2>1. PICK method, mount : /\ method = Or(auth.method, "token")
                             /\ mount = Or(auth.mount, method)
    OBVIOUS
  <2>2. method \in Methods /\ method # "" /\ mount # "" /\ method # "none"
    BY <1>2, <2>1 DEF Or, Methods
  <2>3. AuthDefaults(auth) = [auth EXCEPT !.method = method, !.mount = mount]
    BY <1>2, <2>1 DEF AuthDefaults
  <2>4. PICK twice : twice = AuthDefaults(auth)
    OBVIOUS
  <2>5. /\ twice.method = method /\ twice.mount = mount
        /\ twice = [method |-> method, mount |-> mount, account |-> auth.account]
    BY <1>2, <2>3, <2>4
  <2>6. twice # NoAuth
    <3>1. NoAuth.method = "none"
      BY DEF NoAuth
    <3> QED
      BY <2>2, <2>5, <3>1
  <2>7. Or(twice.method, "token") = method /\ Or(twice.mount, method) = mount
    BY <2>2, <2>5 DEF Or
  <2>8. AuthDefaults(twice) = [twice EXCEPT !.method = method, !.mount = mount]
    BY <2>6, <2>7 DEF AuthDefaults
  <2>9. AuthDefaults(twice) = twice
    BY <2>5, <2>8
  <2> QED
    BY <2>4, <2>9
<1> QED
  BY <1>1, <1>2 DEF Auth

\* The fields of a configuration with its defaults.
LEMMA Defaulted ==
    ASSUME NEW c \in Config, NEW e \in Env
    PROVE  /\ ApplyDefaults(c, e) \in Config
           /\ ApplyDefaults(c, e).transport \in Transports
           /\ ApplyDefaults(c, e).coordination # ""
           /\ ~ApplyDefaults(c, e).address.slash
           /\ ApplyDefaults(c, e).gen = c.gen
           /\ AuthDefaults(ApplyDefaults(c, e).auth) = ApplyDefaults(c, e).auth
<1>1. PICK transport, coordination, address, namespace, ca_cert, auth :
          /\ transport = Or(c.transport, IF c.host = "" THEN "local" ELSE "ssh")
          /\ coordination = Or(c.coordination, "active-manager")
          /\ address = Trimmed(OrAddress(c.address, e.address))
          /\ namespace = Or(c.namespace, e.namespace)
          /\ ca_cert = Or(c.ca_cert, e.ca_cert)
          /\ auth = AuthDefaults(c.auth)
  OBVIOUS
<1>2. ApplyDefaults(c, e) =
          [c EXCEPT !.transport = transport, !.coordination = coordination,
                    !.address = address, !.namespace = namespace,
                    !.ca_cert = ca_cert, !.auth = auth]
  BY <1>1 DEF ApplyDefaults
<1>3. transport \in Transports /\ coordination \in Coordinations /\ coordination # ""
  BY <1>1 DEF Config, Or, Transports, Coordinations
<1>4. address \in Address /\ ~address.slash
  BY <1>1 DEF Config, Env, OrAddress, Trimmed, Address
<1>5. namespace \in Text \cup {""} /\ ca_cert \in Text \cup {""}
  BY <1>1 DEF Config, Env, Or
<1>6. auth \in Auth /\ AuthDefaults(auth) = auth
  BY <1>1, AuthDefaultsTypes, AuthDefaultsTwice DEF Config
<1>7. ApplyDefaults(c, e) \in Config
  BY <1>2, <1>3, <1>4, <1>5, <1>6 DEF Config, Transports, Coordinations
<1>8. /\ ApplyDefaults(c, e).transport = transport
      /\ ApplyDefaults(c, e).coordination = coordination
      /\ ApplyDefaults(c, e).address = address /\ ApplyDefaults(c, e).auth = auth
      /\ ApplyDefaults(c, e).gen = c.gen
  BY <1>2 DEF Config
<1> QED
  BY <1>3, <1>4, <1>6, <1>7, <1>8

\* What a process works with and saves, another one works with again, but for a
\* namespace and a CA bundle, which it may add.
Settled(c) ==
    /\ c \in Config
    /\ c.transport # "" /\ c.coordination # ""
    /\ c.address.url # "" /\ ~c.address.slash
    /\ AuthDefaults(c.auth) = c.auth

LEMMA LoadedAgain ==
    ASSUME NEW c, Settled(c), NEW e \in Env
    PROVE  ApplyDefaults(c, e) = [c EXCEPT !.namespace = Or(@, e.namespace),
                                           !.ca_cert = Or(@, e.ca_cert)]
<1>1. /\ Or(c.transport, IF c.host = "" THEN "local" ELSE "ssh") = c.transport
      /\ Or(c.coordination, "active-manager") = c.coordination
      /\ AuthDefaults(c.auth) = c.auth
  BY DEF Settled, Or
<1>2. Trimmed(OrAddress(c.address, e.address)) = c.address
  BY NoURLHasNone DEF Settled, Config, Address, Trimmed, OrAddress
<1> QED
  BY <1>1, <1>2 DEF ApplyDefaults, Settled, Config

\* A namespace or a CA bundle makes no configuration invalid.
LEMMA ValidAgain ==
    ASSUME NEW c \in Config, Valid(c), NEW namespace, NEW ca_cert
    PROVE  Valid([c EXCEPT !.namespace = namespace, !.ca_cert = ca_cert])
BY DEF Valid, Config

\* Two environments make the same of a file that names its server, but for the
\* namespace and the CA bundle.
LEMMA ValidEverywhere ==
    ASSUME NEW c \in Config, c.address.url # "", NEW e1 \in Env, NEW e2 \in Env,
           Valid(ApplyDefaults(c, e1))
    PROVE  Valid(ApplyDefaults(c, e2))
<1>1. /\ OrAddress(c.address, e1.address) = c.address
      /\ OrAddress(c.address, e2.address) = c.address
  BY NoURLHasNone DEF OrAddress
<1>2. PICK d, namespace, ca_cert : /\ d = ApplyDefaults(c, e1)
                                   /\ namespace = Or(c.namespace, e2.namespace)
                                   /\ ca_cert = Or(c.ca_cert, e2.ca_cert)
  OBVIOUS
<1>3. ApplyDefaults(c, e2) = [d EXCEPT !.namespace = namespace, !.ca_cert = ca_cert]
  BY <1>1, <1>2 DEF ApplyDefaults, Config
<1>4. d \in Config /\ Valid(d)
  BY <1>2, Defaulted
<1>5. Valid([d EXCEPT !.namespace = namespace, !.ca_cert = ca_cert])
  BY <1>4, ValidAgain
<1> QED
  BY <1>3, <1>5

\* What a rotation saves.
LEMMA AdvancedSettled ==
    ASSUME NEW c \in Config, NEW e \in Env, c.gen < MaxGeneration,
           Valid(ApplyDefaults(c, e))
    PROVE  Settled(Advanced(ApplyDefaults(c, e))) /\ Valid(Advanced(ApplyDefaults(c, e)))
<1>1. PICK d : d = ApplyDefaults(c, e)
  OBVIOUS
<1>2. /\ d \in Config /\ d.transport \in Transports /\ d.coordination # ""
      /\ ~d.address.slash /\ d.gen = c.gen /\ AuthDefaults(d.auth) = d.auth
  BY <1>1, Defaulted
<1>3. d.transport # "" /\ d.address.url # ""
  BY <1>1, <1>2, ConfigurationAssumption DEF Valid, Transports
<1>4. d.gen + 1 \in 0..MaxGeneration
  <2>1. c.gen \in 0..MaxGeneration
    BY DEF Config
  <2>2. d.gen = c.gen
    BY <1>2
  <2> QED
    BY <2>1, <2>2, BoundsAssumption
<1>5. Advanced(d) \in Config
  BY <1>2, <1>4 DEF Advanced, Config
<1>6. Settled(Advanced(d))
  BY <1>2, <1>3, <1>5 DEF Settled, Advanced, Config
<1>7. Valid(Advanced(d))
  BY <1>1, <1>2 DEF Valid, Advanced, Config
<1> QED
  BY <1>1, <1>6, <1>7

-----------------------------------------------------------------------------
(* The invariant.                                                          *)

\* A rotation works with a valid configuration whose generation it can advance.
ReadHolds ==
    \A r \in Rotation :
        read[r] # NoFile =>
            /\ env[r] \in Environment
            /\ read[r].gen < MaxGeneration
            /\ Valid(WorksWith(r))

\* What a command has written names its server, and is valid somewhere.
FileHolds ==
    /\ origin = "command" =>
        /\ file \in Config /\ file.address.url # ""
        /\ \E e \in Environment : Valid(ApplyDefaults(file, e))
    /\ origin = "rotation" => file = worked /\ Settled(file) /\ Valid(file)

FileInv == TypeOK /\ ReadHolds /\ FileHolds

LEMMA NoFileIsNone == NoFile \notin Config
<1>1. NoFile.gen = -1 /\ -1 \notin 0..MaxGeneration
  BY DEF NoFile
<1>2. \A c \in Config : c.gen \in 0..MaxGeneration
  BY DEF Config
<1> QED
  BY <1>1, <1>2

LEMMA InitHolds == Init => FileInv
<1> SUFFICES ASSUME Init PROVE FileInv
  OBVIOUS
<1>1. edits \in 0..MaxEdits
  BY BoundsAssumption DEF Init
<1>2. TypeOK
  BY <1>1 DEF Init, TypeOK
<1>3. ReadHolds
  BY DEF Init, ReadHolds
<1>4. FileHolds
  BY DEF Init, FileHolds
<1> QED
  BY <1>2, <1>3, <1>4 DEF FileInv

LEMMA RunInitHolds ==
    ASSUME FileInv, NEW e \in Environment, RunInit(e)
    PROVE  FileInv'
<1>1. PICK c \in Written :
          \E namespace \in {c.namespace, e.namespace}, ca_cert \in {c.ca_cert, e.ca_cert} :
              /\ file' = FromFlags(c, OrAddress(c.address, e.address), namespace, ca_cert)
              /\ file'.address # NoURL
              /\ Valid(ApplyDefaults(file', e))
  BY DEF RunInit
<1>2. c \in Config /\ e \in Env
  BY EnvTypes, WrittenTypes
<1>3. PICK address, auth : /\ address = OrAddress(c.address, e.address)
                           /\ auth = InitAuth(c.auth)
  OBVIOUS
<1>4. PICK namespace \in {c.namespace, e.namespace}, ca_cert \in {c.ca_cert, e.ca_cert} :
          /\ file' = FromFlags(c, address, namespace, ca_cert)
          /\ file'.address # NoURL
          /\ Valid(ApplyDefaults(file', e))
  BY <1>1, <1>3
<1>5. file' = [c EXCEPT !.transport = "local", !.host = "",
                        !.coordination = "active-manager", !.allow_http = FALSE,
                        !.address = address, !.namespace = namespace,
                        !.ca_cert = ca_cert, !.auth = auth]
  BY <1>3, <1>4 DEF FromFlags
<1>6. file' \in Config /\ file'.address = address /\ address \in Address
  <2>1. /\ address \in Address
        /\ namespace \in Text \cup {""} /\ ca_cert \in Text \cup {""}
    BY <1>2, <1>3 DEF OrAddress, Config, Env
  <2>2. auth \in Auth
    <3>1. c.auth \in Auth /\ NoAuth \in Auth
      BY <1>2 DEF Config, Auth
    <3> QED
      BY <1>3, <3>1, AuthDefaultsTypes DEF InitAuth
  <2> QED
    BY <1>2, <1>5, <2>1, <2>2 DEF Config, Transports, Coordinations
<1>7. file'.address.url # ""
  <2>1. PICK told : told = file'
    OBVIOUS
  <2>2. OrAddress(told.address, e.address) = address
    BY <1>4, <1>6, <2>1 DEF OrAddress
  <2>3. ApplyDefaults(told, e).address = Trimmed(address)
    BY <1>6, <2>1, <2>2 DEF ApplyDefaults, Config
  <2>4. ApplyDefaults(told, e).address.url # ""
    BY <1>4, <2>1, ConfigurationAssumption DEF Valid
  <2>5. Trimmed(address).url = address.url
    BY <1>6 DEF Trimmed, Address
  <2> QED
    BY <1>6, <2>3, <2>4, <2>5
<1>8. origin' = "command" /\ UNCHANGED <<read, env, worked, edits>>
  BY DEF RunInit
<1>9. TypeOK'
  BY <1>6, <1>8 DEF FileInv, TypeOK
<1>10. ReadHolds'
  BY <1>8 DEF FileInv, ReadHolds, WorksWith
<1>11. FileHolds'
  BY <1>4, <1>6, <1>7, <1>8 DEF FileHolds
<1> QED
  BY <1>9, <1>10, <1>11 DEF FileInv

LEMMA EditHolds ==
    ASSUME FileInv, Edit
    PROVE  FileInv'
<1>1. PICK c \in Written : file' = IF file = NoFile THEN c ELSE [c EXCEPT !.gen = file.gen]
  BY DEF Edit
<1>2. file' \in Config
  <2>1. c \in Config
    BY WrittenTypes
  <2>2. CASE file = NoFile
    BY <1>1, <2>1, <2>2
  <2>3. CASE file # NoFile
    <3>1. file.gen \in 0..MaxGeneration
      BY <2>3 DEF FileInv, TypeOK, Config
    <3> QED
      BY <1>1, <2>1, <2>3, <3>1 DEF Config
  <2> QED
    BY <2>2, <2>3
<1>3. origin' = "operator" /\ UNCHANGED <<read, env, worked>> /\ edits' \in 0..MaxEdits
  <2>1. edits < MaxEdits /\ edits' = edits + 1 /\ edits \in 0..MaxEdits
    BY DEF Edit, FileInv, TypeOK
  <2>2. edits' \in 0..MaxEdits
    BY <2>1, BoundsAssumption
  <2> QED
    BY <2>2 DEF Edit
<1>4. TypeOK'
  BY <1>2, <1>3 DEF FileInv, TypeOK
<1>5. ReadHolds' /\ FileHolds'
  BY <1>3 DEF FileInv, ReadHolds, FileHolds, WorksWith
<1> QED
  BY <1>4, <1>5 DEF FileInv

LEMMA LoadHolds ==
    ASSUME FileInv, NEW r \in Rotation, NEW e \in Environment, Load(r, e)
    PROVE  FileInv'
<1>1. /\ file # NoFile /\ Valid(ApplyDefaults(file, e)) /\ file.gen < MaxGeneration
      /\ read' = [read EXCEPT ![r] = file] /\ env' = [env EXCEPT ![r] = e]
      /\ UNCHANGED <<file, origin, worked, edits>>
  BY DEF Load, Loads
<1>2. TypeOK'
  BY <1>1 DEF FileInv, TypeOK
<1>3. ASSUME NEW q \in Rotation
      PROVE  /\ read'[q] = IF q = r THEN file ELSE read[q]
             /\ env'[q] = IF q = r THEN e ELSE env[q]
  BY <1>1 DEF FileInv, TypeOK
<1>4. ReadHolds'
  BY <1>1, <1>3 DEF FileInv, ReadHolds, WorksWith
<1>5. FileHolds'
  BY <1>1 DEF FileInv, FileHolds
<1> QED
  BY <1>2, <1>4, <1>5 DEF FileInv

LEMMA EndsHolds ==
    ASSUME FileInv, NEW r \in Rotation, Ends(r)
    PROVE  /\ read' \in [Rotation -> Config \cup {NoFile}]
           /\ env' \in [Rotation -> Environment \cup {NoEnv}]
           /\ ReadHolds'
<1>1. \A q \in Rotation : /\ read'[q] = IF q = r THEN NoFile ELSE read[q]
                          /\ env'[q] = IF q = r THEN NoEnv ELSE env[q]
  BY DEF Ends, FileInv, TypeOK
<1>2. ReadHolds'
  BY <1>1 DEF FileInv, ReadHolds, WorksWith
<1> QED
  BY <1>2 DEF Ends, FileInv, TypeOK

LEMMA SaveHolds ==
    ASSUME FileInv, NEW r \in Rotation, Save(r)
    PROVE  FileInv'
<1>1. /\ read[r] \in Config /\ env[r] \in Env /\ read[r].gen < MaxGeneration
      /\ Valid(ApplyDefaults(read[r], env[r]))
  BY EnvTypes DEF Save, FileInv, TypeOK, ReadHolds, WorksWith
<1>2. PICK c : c = Advanced(WorksWith(r))
  OBVIOUS
<1>3. Settled(c) /\ Valid(c)
  BY <1>1, <1>2, AdvancedSettled DEF WorksWith
<1>4. file' = c /\ worked' = c /\ origin' = "rotation" /\ edits' = edits /\ Ends(r)
  BY <1>2 DEF Save
<1>5. TypeOK'
  BY <1>3, <1>4, EndsHolds DEF FileInv, TypeOK, Settled
<1>6. FileHolds'
  BY <1>3, <1>4 DEF FileHolds
<1> QED
  BY <1>4, <1>5, <1>6, EndsHolds DEF FileInv

LEMMA AbortHolds ==
    ASSUME FileInv, NEW r \in Rotation, Abort(r)
    PROVE  FileInv'
<1>1. Ends(r) /\ UNCHANGED <<file, origin, worked, edits>>
  BY DEF Abort
<1>2. TypeOK' /\ FileHolds'
  BY <1>1, EndsHolds DEF FileInv, TypeOK, FileHolds
<1> QED
  BY <1>1, <1>2, EndsHolds DEF FileInv

LEMMA StepHolds == FileInv /\ [Next]_vars => FileInv'
<1> SUFFICES ASSUME FileInv, [Next]_vars PROVE FileInv'
  OBVIOUS
<1>1. CASE UNCHANGED vars
  BY <1>1 DEF vars, FileInv, TypeOK, ReadHolds, FileHolds, WorksWith
<1>2. CASE Next
  BY <1>2, RunInitHolds, EditHolds, LoadHolds, SaveHolds, AbortHolds DEF Next
<1> QED
  BY <1>1, <1>2

LEMMA FileAlways == Spec => []FileInv
BY InitHolds, StepHolds, PTL DEF Spec

\* Every configuration, in the file, loaded or saved, is one of the program's:
\* no rotation skips a generation.  (rotateCredentials, replaceConfig.)
THEOREM TypeCorrect == Spec => []TypeOK
<1>1. FileInv => TypeOK
  BY DEF FileInv
<1> QED
  BY FileAlways, <1>1, PTL

\* What init or a rotation has written loads on every host, whatever its
\* environment.  (runInit, replaceConfig.)
THEOREM LoadsOnEveryHost == Spec => []LoadsEverywhere
<1>1. FileInv => LoadsEverywhere
  <2> SUFFICES ASSUME FileInv, origin \in {"command", "rotation"}, NEW e \in Environment
               PROVE  Loads(e)
    BY DEF LoadsEverywhere
  <2>1. CASE origin = "command"
    <3>1. PICK f \in Environment : Valid(ApplyDefaults(file, f))
      BY <2>1 DEF FileInv, FileHolds
    <3>2. file \in Config /\ file.address.url # ""
      BY <2>1 DEF FileInv, FileHolds
    <3>3. Valid(ApplyDefaults(file, e))
      BY <3>1, <3>2, EnvTypes, ValidEverywhere
    <3> QED
      BY <3>2, <3>3, NoFileIsNone DEF Loads
  <2>2. CASE origin = "rotation"
    <3>1. Settled(file) /\ Valid(file) /\ file \in Config
      BY <2>2 DEF FileInv, FileHolds, Settled
    <3>2. PICK namespace, ca_cert : /\ namespace = Or(file.namespace, e.namespace)
                                    /\ ca_cert = Or(file.ca_cert, e.ca_cert)
      OBVIOUS
    <3>3. ApplyDefaults(file, e) = [file EXCEPT !.namespace = namespace, !.ca_cert = ca_cert]
      BY <3>1, <3>2, EnvTypes, LoadedAgain
    <3>4. Valid([file EXCEPT !.namespace = namespace, !.ca_cert = ca_cert])
      BY <3>1, ValidAgain
    <3> QED
      BY <3>1, <3>3, <3>4, NoFileIsNone DEF Loads
  <2> QED
    BY <2>1, <2>2
<1> QED
  BY FileAlways, <1>1, PTL

\* After a rotation every service works with what the rotation worked with, on
\* the same server, but for a namespace or a CA bundle it had no value for.
\* (applyDefaults, replaceConfig.)
THEOREM ServicesFollowRotations == Spec => []ServicesFollow
<1>1. FileInv => ServicesFollow
  BY EnvTypes, LoadedAgain DEF FileInv, FileHolds, ServicesFollow
<1> QED
  BY FileAlways, <1>1, PTL

\* What is set in the file, a rotation changes only if the file is not the one
\* it has loaded.  (applyDefaults, replaceConfig.)
THEOREM RotationsKeepWhatIsSet == Spec => SetFieldsSurvive
<1> DEFINE Keeps ==
        \A r \in Rotation :
            read[r] = file /\ Save(r) =>
                /\ \A f \in Set(file) : file'[f] = file[f]
                /\ file.address.url # "" => file'.address.url = file.address.url
<1>1. FileInv => [Keeps]_vars
  <2> SUFFICES ASSUME FileInv, NEW r \in Rotation, read[r] = file, Save(r)
               PROVE  /\ \A f \in Set(file) : file'[f] = file[f]
                      /\ file.address.url # "" => file'.address.url = file.address.url
    OBVIOUS
  <2>1. file \in Config /\ file' = Advanced(ApplyDefaults(file, env[r]))
    BY DEF Save, WorksWith, FileInv, TypeOK
  <2>2. /\ file'.transport = Or(file.transport, IF file.host = "" THEN "local" ELSE "ssh")
        /\ file'.coordination = Or(file.coordination, "active-manager")
        /\ file'.namespace = Or(file.namespace, env[r].namespace)
        /\ file'.ca_cert = Or(file.ca_cert, env[r].ca_cert)
        /\ file'.address = Trimmed(OrAddress(file.address, env[r].address))
    BY <2>1 DEF Advanced, ApplyDefaults, Config
  <2>3. \A f \in Set(file) : file'[f] = file[f]
    BY <2>2 DEF Set, Or
  <2>4. file.address.url # "" => file'.address.url = file.address.url
    BY <2>1, <2>2, NoURLHasNone DEF Trimmed, OrAddress, Config, Address
  <2> QED
    BY <2>3, <2>4
<1>2. SetFieldsSurvive <=> [][Keeps]_vars
  BY DEF SetFieldsSurvive
<1> QED
  BY FileAlways, <1>1, <1>2, PTL
=============================================================================
