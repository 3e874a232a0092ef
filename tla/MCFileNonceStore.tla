--------------------------- MODULE MCFileNonceStore ---------------------------
(***************************************************************************)
(* The file-backed store with two nonces and a window that a short run of  *)
(* the clock leaves behind, so that entries expire, are cleaned up late    *)
(* and their nonces are used again, across restarts.                       *)
(***************************************************************************)
EXTENDS FileNonceStore
===============================================================================
