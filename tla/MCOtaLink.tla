------------------------------ MODULE MCOtaLink ------------------------------
(***************************************************************************)
(* Bounds for OtaLink: banks of two and three cells, one firmware of one   *)
(* packet and one of two, neither a prefix of the other; p and q hold a    *)
(* vector table the jump accepts, r does not.                              *)
(***************************************************************************)
EXTENDS OtaLink

CONSTANTS p, q, r

MCData == {p, q, r}
MCBootable == {p, q}
MCImages == {<<p>>, <<q, r>>}
MCBatches == {}

\* A file that is no application for this device is among the files.
MCShortFiles == {<<p>>, <<r>>}
MCShortData == {p, r}
MCShortBootable == {p}

NoFaults == {}
BenignFaults == {"noise", "lost_reply", "cancel", "flash", "reset"}
OrderlyFaults == BenignFaults \cup {"commit_flash", "commit_loss"}
AllFaults == OrderlyFaults \cup {"impatient", "bad_header", "stale_host"}
CommitLoss == {"commit_loss"}
Impatient == {"impatient"}
=============================================================================
