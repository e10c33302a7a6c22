--------------------------- MODULE MCCloudAccount ---------------------------
(***************************************************************************)
(* Instances of CloudAccount for TLC.  Every vault has the same phrase: a  *)
(* user may type the old phrase when asked for a new one.                  *)
(***************************************************************************)
EXTENDS CloudAccount, TLC

CONSTANTS i1, i2, l1

TwoInstalls == {i1, i2}
OneLink == {l1}

Phrases == [v \in 1..MaxVaults |-> "same"]

\* What surrounds a link request, with everything that ends a session.
LinkCommands == {"register", "web", "link", "approve", "reject", "rekey",
                 "touch", "revoke", "password", "delete", "expire"}

\* What two installations that know password and phrase do with a vault.
VaultCommands == {"register", "login", "logout", "recover", "edit", "sync",
                  "rekey"}

Symmetry == Permutations(Installs)
=============================================================================
