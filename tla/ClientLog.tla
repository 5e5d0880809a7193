----------------------------- MODULE ClientLog -----------------------------
(* What the chat window of the client promises its user about the lines the   *)
(* network makes it show: the log only grows, the lines of one TcpClient      *)
(* stand together, those of a later client after them, and within one client  *)
(* "connected" comes first and "disconnected" last.  A connection that could  *)
(* not be made is only reported as disconnected.                              *)
EXTENDS Integers, Sequences

CONSTANT MaxClients

VARIABLE log

Line == [kind : {"connected", "chat", "disconnected"}, client : 1 .. MaxClients]

(* The line that may stand after another one, or after nothing.               *)
Nothing == [kind |-> "disconnected", client |-> 0]
Follows(next, last) ==
  \/ next.kind # "chat" /\ next.client > last.client
  \/ next.kind # "connected" /\ next.client = last.client /\ last.kind # "disconnected"

LastOf(lines) == IF lines = << >> THEN Nothing ELSE lines[Len(lines)]

Init == log = << >>

Next == \E line \in Line : Follows(line, LastOf(log)) /\ log' = Append(log, line)

Spec == Init /\ [][Next]_log
=============================================================================
