--------------------------- MODULE MCXChatyClient ---------------------------
(* XChatyClient and FileTransport for TLC.  They share nothing: a behaviour   *)
(* is one of the window or one of the file transport.                         *)
EXTENDS XChatyClient, FileTransport

VARIABLE part

MCInit ==
  /\ Init /\ FileInit
  /\ part \in {"window", "files"}
  /\ part = "window" => \A n \in Names : disk[n] = NoFile

MCNext ==
  /\ \/ part = "window" /\ Next /\ UNCHANGED fileVars
     \/ part = "files" /\ FileNext /\ UNCHANGED vars
  /\ UNCHANGED part

MCSpec == MCInit /\ [][MCNext]_<< vars, fileVars, part >> /\ Fairness
=============================================================================
