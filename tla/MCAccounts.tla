----------------------------- MODULE MCAccounts -----------------------------
(***************************************************************************)
(* Two registrations, a login and a logout; the address of Ann in two      *)
(* spellings.  A session lives one tick out of two.                        *)
(***************************************************************************)
EXTENDS Accounts, TLC

CONSTANTS g1, g2, l1, x1

MCRegisters == {g1, g2}
MCLogins == {l1}
MCLogouts == {x1}
MCSpellings == {"Ann", "ann", "root"}
MCNormal == [s \in MCSpellings |-> IF s = "Ann" THEN "ann" ELSE s]
=============================================================================
