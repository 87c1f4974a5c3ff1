--------------------------- MODULE MCWalletCredit ---------------------------
(***************************************************************************)
(* WalletCredit for TLC.  The constants are in the cfg files; TLC is needed*)
(* for nothing else.  Two hashes and two coroutines let two submissions of *)
(* one gradient race, and one credit be retried while another waits.       *)
(***************************************************************************)
EXTENDS WalletCredit
=============================================================================
