--------------------------- MODULE MCAccounts ---------------------------
(* Instances of Accounts for TLC. *)
EXTENDS Accounts, TLC

CONSTANTS dex, google, okta, azure

MCSubjects == {dex, google, okta, azure}

(* Ann comes through two providers, Bob has her name, and Cyd shares       *)
(* nothing with either.                                                    *)
MCEmail == (dex :> "ann" @@ google :> "ann" @@ okta :> "bob" @@ azure :> "cyd")

MCBase == (dex :> "Sam" @@ google :> "Sam" @@ okta :> "Sam" @@ azure :> "Cyd")
=============================================================================
