----------------------------- MODULE ClientLife -----------------------------
(* What hv::TcpClient promises the window that owns it, without its threads:  *)
(* a client has one connection; the connection goes one way, from idle over   *)
(* connecting to connected and to closed; it only moves between start() and   *)
(* the end of the destructor; and a client is not destroyed while it is       *)
(* connecting or connected.                                                   *)
VARIABLES life, link

Init == life = "none" /\ link = "idle"

(* The constructor; and the destructor of a client that was never started.    *)
Make == life = "none" /\ life' = "made" /\ link' = "idle"
Drop == life = "made" /\ life' = "none" /\ UNCHANGED link

(* start(), the beginning of the destructor, and its end.                     *)
Start == life = "made" /\ life' = "live" /\ UNCHANGED link
End   == life = "live" /\ life' = "ending" /\ UNCHANGED link
Gone  == life = "ending" /\ link \in {"idle", "closed"} /\ life' = "none" /\ UNCHANGED link

(* The loop thread.                                                           *)
Live(from, to) ==
  /\ life \in {"live", "ending"}
  /\ link \in from /\ link' = to
  /\ UNCHANGED life

Connect == Live({"idle"}, "connecting")
Connected == Live({"connecting"}, "connected")
Close == Live({"idle", "connecting", "connected"}, "closed")

Next == Make \/ Drop \/ Start \/ End \/ Gone \/ Connect \/ Connected \/ Close

Spec == Init /\ [][Next]_<< life, link >>
=============================================================================
