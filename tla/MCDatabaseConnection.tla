------------------------ MODULE MCDatabaseConnection ------------------------
(* Constants of the TLC run of DatabaseConnection.                         *)
EXTENDS DatabaseConnection, TLC

CONSTANTS s1, t1, p1, x1

\* A statement, a transaction, the health probe and the shutdown.
MCCallers == {s1, t1, p1, x1}
MCKind == (s1 :> "statement") @@ (t1 :> "transaction")
            @@ (p1 :> "connect") @@ (x1 :> "close")
=============================================================================
