----------------------------- MODULE MCMigration -----------------------------
(* Instances of Migration for TLC. *)
EXTENDS Migration

CONSTANTS x1, x2

OneDaemon == <<"client.rgw.a">>
TwoDaemons == <<"client.rgw.a", "client.rgw.b">>

\* The service map still lists the last daemon under the instance before a restart.
OneTwice == <<"client.rgw.a", "client.rgw.b", "client.rgw.b">>
=============================================================================
