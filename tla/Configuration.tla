---------------------------- MODULE Configuration ----------------------------
(***************************************************************************)
(* The content of the shared configuration file: what "init" writes, what  *)
(* a process that loads it works with (applyDefaults and validate in       *)
(* config.go), which depends on the environment of the process, and what a *)
(* rotation saves in its place (runRotate, runMigrate).  ConfigFile is     *)
(* about the file as a whole; here it is always complete.                  *)
(*                                                                         *)
(* The service is not an actor here: each turn loads the file anew, so     *)
(* what it works with is WorksWith(file, env) for the environment of its   *)
(* host.  A field that is absent is "", as it is after decoding.           *)
(***************************************************************************)
EXTENDS Integers

CONSTANTS
    Server,             \* URLs of Vault servers
    Absolute,           \* those that are absolute URLs, without a path or a user
    PlainHTTP,          \* those that need allow_http
    Text,               \* namespaces, paths of CA bundles, hosts, mounts
    Written,            \* what operators write, and init is told by its flags
    Environment,        \* VAULT_ADDR, VAULT_NAMESPACE and VAULT_CACERT of a process
    Rotation,           \* runs of "rotate" and "migrate", on any host
    MaxGeneration,      \* bound on cephx_generation
    MaxEdits            \* bound on the edits of operators

VARIABLES
    file,               \* the configuration in the file, or NoFile
    origin,             \* who has written it
    read, env,          \* of a rotation: the file it has loaded, its environment
    worked,             \* the configuration the last rotation saved had worked with
    edits               \* what MaxEdits bounds

vars == <<file, origin, read, env, worked, edits>>

Transports == {"local", "ssh"}
Coordinations == {"active-manager", "none"}
Methods == {"token", "userpass", "approle"}

\* vault.address: a URL, perhaps with slashes at its end.
Address == [url : Server \cup {""}, slash : BOOLEAN]
NoURL == [url |-> "", slash |-> FALSE]

\* vault.auth.  "account" says that what userpass and approle need is there.
NoAuth == [method |-> "none", mount |-> "", account |-> FALSE]
Auth == {NoAuth} \cup [method : Methods \cup {""}, mount : Text \cup Methods \cup {""},
                       account : BOOLEAN]

\* Of the fields with a constant default (user, port, commands and others) only
\* coordination is here.  "sound" stands for the checks of validate() on fields
\* that no environment fills in: port, commands, mount, daemons, credentials.
Config == [transport : Transports \cup {""}, host : Text \cup {""},
           coordination : Coordinations \cup {""},
           address : Address, allow_http : BOOLEAN,
           namespace : Text \cup {""}, ca_cert : Text \cup {""},
           auth : Auth, gen : 0..MaxGeneration, sound : BOOLEAN]

Env == [address : Address, namespace : Text \cup {""}, ca_cert : Text \cup {""}]

ASSUME ConfigurationAssumption ==
    /\ "" \notin Server /\ Absolute \subseteq Server /\ PlainHTTP \subseteq Server
    /\ "" \notin Text
    /\ Written \subseteq {c \in Config : c.gen = 0}
    /\ Environment \subseteq Env

ASSUME BoundsAssumption == MaxGeneration \in Nat /\ MaxEdits \in Nat

NoFile == [gen |-> -1]
NoEnv == [address |-> NoURL, namespace |-> "", ca_cert |-> ""]

-----------------------------------------------------------------------------
(* loadConfig.                                                             *)

Or(value, default) == IF value = "" THEN default ELSE value

OrAddress(a, default) == IF a = NoURL THEN default ELSE a

\* strings.TrimRight(address, "/").
Trimmed(a) == [a EXCEPT !.slash = FALSE]

AuthDefaults(auth) ==
    IF auth = NoAuth THEN auth
    ELSE LET method == Or(auth.method, "token")
         IN  [auth EXCEPT !.method = method, !.mount = Or(@, method)]

\* Variant of ApplyDefaults: the environment goes before the file, as it does in
\* the clients of Vault.
EnvironmentFirst(c, e) ==
    [c EXCEPT !.transport = Or(@, IF c.host = "" THEN "local" ELSE "ssh"),
              !.coordination = Or(@, "active-manager"),
              !.address = Trimmed(OrAddress(e.address, c.address)),
              !.namespace = Or(e.namespace, c.namespace),
              !.ca_cert = Or(e.ca_cert, c.ca_cert),
              !.auth = AuthDefaults(@)]

ApplyDefaults(c, e) ==
    [c EXCEPT !.transport = Or(@, IF c.host = "" THEN "local" ELSE "ssh"),
              !.coordination = Or(@, "active-manager"),
              !.address = Trimmed(OrAddress(@, e.address)),
              !.namespace = Or(@, e.namespace),
              !.ca_cert = Or(@, e.ca_cert),
              !.auth = AuthDefaults(@)]

ValidAuth(auth) ==
    \/ auth = NoAuth
    \/ auth.method \in Methods /\ (auth.method # "token" => auth.account)

Valid(c) ==
    /\ c.transport \in Transports /\ (c.transport = "ssh" => c.host # "")
    /\ c.coordination \in Coordinations
    /\ c.address.url \in Absolute /\ ~c.address.slash
    /\ c.address.url \in PlainHTTP => c.allow_http
    /\ ValidAuth(c.auth)
    /\ c.sound

Loads(e) == file # NoFile /\ Valid(ApplyDefaults(file, e))

-----------------------------------------------------------------------------
Init ==
    /\ file = NoFile
    /\ origin = "nobody"
    /\ read = [r \in Rotation |-> NoFile]
    /\ env = [r \in Rotation |-> NoEnv]
    /\ worked = NoFile
    /\ edits = 0

\* -auth-method: no section for tokens.  The defaults of the section get into the
\* file, because the copy that is validated shares it.
InitAuth(auth) ==
    IF auth.method \in {"userpass", "approle"} THEN AuthDefaults(auth) ELSE NoAuth

\* What init makes of its flags: the rest is from the embedded example.
FromFlags(c, address, namespace, ca_cert) ==
    [c EXCEPT !.transport = "local", !.host = "", !.coordination = "active-manager",
              !.allow_http = FALSE, !.address = address, !.namespace = namespace,
              !.ca_cert = ca_cert, !.auth = InitAuth(@)]

\* runInit: a flag that is not given is taken from its environment, one that is
\* given may be empty.
RunInit(e) ==
    /\ file = NoFile
    /\ \E c \in Written :
        \E namespace \in {c.namespace, e.namespace}, ca_cert \in {c.ca_cert, e.ca_cert} :
            LET told == FromFlags(c, OrAddress(c.address, e.address), namespace, ca_cert)
            IN  /\ told.address # NoURL
                /\ Valid(ApplyDefaults(told, e))
                /\ file' = told
    /\ origin' = "command"
    /\ UNCHANGED <<read, env, worked, edits>>

\* An operator writes the file, and leaves the generation to the program.
Edit ==
    /\ edits < MaxEdits
    /\ edits' = edits + 1
    /\ \E c \in Written :
        file' = IF file = NoFile THEN c ELSE [c EXCEPT !.gen = file.gen]
    /\ origin' = "operator"
    /\ UNCHANGED <<read, env, worked>>

\* runRotate or runMigrate loads the file, in the environment of its shell.
Load(r, e) ==
    /\ read[r] = NoFile
    /\ Loads(e) /\ file.gen < MaxGeneration
    /\ read' = [read EXCEPT ![r] = file]
    /\ env' = [env EXCEPT ![r] = e]
    /\ UNCHANGED <<file, origin, worked, edits>>

\* The configuration it works with.
WorksWith(r) == ApplyDefaults(read[r], env[r])

\* Variant of Advanced: the generation is advanced by the caller too.
AdvancedTwice(c) == [c EXCEPT !.gen = @ + 2]

\* What rotateCredentials returns.
Advanced(c) == [c EXCEPT !.gen = @ + 1]

Ends(r) ==
    /\ read' = [read EXCEPT ![r] = NoFile]
    /\ env' = [env EXCEPT ![r] = NoEnv]

\* Variant of Save: what was read is saved, without the defaults.
SaveAsRead(r) ==
    /\ read[r] # NoFile
    /\ file' = Advanced(read[r])
    /\ worked' = Advanced(WorksWith(r))
    /\ origin' = "rotation"
    /\ Ends(r)
    /\ UNCHANGED edits

\* replaceConfig saves the configuration with the defaults it was given.
Save(r) ==
    /\ read[r] # NoFile
    /\ file' = Advanced(WorksWith(r))
    /\ worked' = Advanced(WorksWith(r))
    /\ origin' = "rotation"
    /\ Ends(r)
    /\ UNCHANGED edits

\* The rotation fails, or migrate finds nothing to rotate.
Abort(r) ==
    /\ read[r] # NoFile
    /\ Ends(r)
    /\ UNCHANGED <<file, origin, worked, edits>>

Next ==
    \/ \E e \in Environment : RunInit(e)
    \/ Edit
    \/ \E r \in Rotation, e \in Environment : Load(r, e)
    \/ \E r \in Rotation : Save(r) \/ Abort(r)

Spec == Init /\ [][Next]_vars
-----------------------------------------------------------------------------
(* Properties.                                                             *)

TypeOK ==
    /\ file \in Config \cup {NoFile}
    /\ origin \in {"nobody", "command", "operator", "rotation"}
    /\ read \in [Rotation -> Config \cup {NoFile}]
    /\ env \in [Rotation -> Environment \cup {NoEnv}]
    /\ worked \in Config \cup {NoFile}
    /\ edits \in 0..MaxEdits

\* A file that a command has written can be loaded by every process on every
\* host, whatever its environment: what init or a rotation found in its own
\* environment, and the file needs, is in the file.  (runInit, replaceConfig.)
LoadsEverywhere ==
    origin \in {"command", "rotation"} => \A e \in Environment : Loads(e)

\* After a rotation every service works with the configuration that the rotation
\* worked with, the same Vault server in particular, where the generations have
\* been published; only what the rotation had no value for, a namespace or a CA
\* bundle, may still come from the environment of the host.
ServicesFollow ==
    origin = "rotation" =>
        \A e \in Environment :
            ApplyDefaults(file, e) =
                [worked EXCEPT !.namespace = Or(@, e.namespace),
                               !.ca_cert = Or(@, e.ca_cert)]

Set(c) ==
    {f \in {"transport", "coordination", "namespace", "ca_cert"} : c[f] # ""}

\* What an operator has set in the file, a rotation changes only if the file has
\* been edited or replaced since the rotation loaded it, whatever other
\* rotations do.
SetFieldsSurvive ==
    [][ \A r \in Rotation :
        read[r] = file /\ Save(r) =>
            /\ \A f \in Set(file) : file'[f] = file[f]
            /\ file.address.url # "" => file'.address.url = file.address.url ]_vars
=============================================================================
