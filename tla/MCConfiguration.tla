--------------------------- MODULE MCConfiguration ---------------------------
(* Instances of Configuration for TLC. *)
EXTENDS Configuration, TLC

Here == [url |-> "https://vault", slash |-> TRUE]
Elsewhere == [url |-> "https://bao", slash |-> FALSE]
NoScheme == [url |-> "vault", slash |-> FALSE]
Plain == [url |-> "http://vault", slash |-> FALSE]

Userpass == [method |-> "userpass", mount |-> "", account |-> TRUE]
EmptySection == [method |-> "", mount |-> "", account |-> FALSE]

ConfigOf(h, a, n, u) ==
    [transport |-> "", host |-> h, coordination |-> "", address |-> a,
     allow_http |-> FALSE, namespace |-> n, ca_cert |-> "", auth |-> u, gen |-> 0,
     sound |-> TRUE]

Configs ==
    {ConfigOf("", a, n, u) : a \in {NoURL, Here}, n \in {"", "team"}, u \in {NoAuth, Userpass}}
        \cup {ConfigOf("pve1", NoURL, "", EmptySection), ConfigOf("", Plain, "", NoAuth)}

Environments ==
    {[address |-> a, namespace |-> n, ca_cert |-> f] :
        a \in {NoURL, Elsewhere}, n \in {"", "shell"}, f \in {"", "ca.pem"}}
        \cup {[address |-> NoScheme, namespace |-> "", ca_cert |-> ""]}

\* Rotations differ in nothing but their names.
Rotations == Permutations(Rotation)
=============================================================================
