----------------------------- MODULE MCAccounts -----------------------------
(* The small instances of Accounts and OAuthLogin that TLC checks.           *)
EXTENDS OAuthLogin, TLC

MCSymmetry == Permutations(Emails) \cup Permutations(Clients)
                \cup Permutations(Logins) \cup Permutations(Callbacks)
=============================================================================
