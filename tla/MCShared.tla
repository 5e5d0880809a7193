------------------------------ MODULE MCShared ------------------------------
(* SqlHelper and EventLoop for TLC: what several threads share without and    *)
(* with a lock.  The two have nothing to do with each other: a behaviour is   *)
(* one of the database helper or one of an event loop.                        *)
EXTENDS MCSqlHelper, EventLoop

VARIABLE part

SharedSymmetry == Symmetry \union Permutations(Posters \ {Self})

SharedInit == Init /\ LoopInit /\ part \in {"database", "loop"}

SharedNext ==
  /\ \/ part = "database" /\ Next /\ UNCHANGED loopVars
     \/ part = "loop" /\ LoopNext /\ UNCHANGED vars
  /\ UNCHANGED part

SharedSpec == SharedInit /\ [][SharedNext]_<< vars, loopVars, part >>
=============================================================================
