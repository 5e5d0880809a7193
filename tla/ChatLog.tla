------------------------------ MODULE ChatLog ------------------------------
(* What the server window promises its operator: the chat log only grows,     *)
(* every connection appears in it as "connected" first and "disconnected"     *)
(* last, and the chat lines of one connection stand in the order in which the *)
(* peer wrote them, none twice.  Lines of different connections interleave    *)
(* freely.  Text ids number the writes of a connection; an id that is not     *)
(* positive is a text no peer wrote (see Protoc).                             *)
EXTENDS Integers, Sequences

CONSTANTS Conns, Text

VARIABLE log

Line == [kind : {"connected", "chat", "disconnected"}, conn : Conns, text : Text]

Has(c, kind) == \E i \in 1..Len(log) : log[i].kind = kind /\ log[i].conn = c

Connect(c) == /\ \A i \in 1..Len(log) : log[i].conn # c
              /\ log' = Append(log, [kind |-> "connected", conn |-> c, text |-> 0])

Say(c, t) == /\ Has(c, "connected")
             /\ ~ Has(c, "disconnected")
             /\ t > 0 => \A i \in 1..Len(log) : log[i].conn = c => log[i].text < t
             /\ log' = Append(log, [kind |-> "chat", conn |-> c, text |-> t])

Disconnect(c) == /\ Has(c, "connected")
                 /\ ~ Has(c, "disconnected")
                 /\ log' = Append(log, [kind |-> "disconnected", conn |-> c, text |-> 0])

Init == log = << >>

Next == \E c \in Conns :
          \/ Connect(c)
          \/ \E t \in Text : Say(c, t)
          \/ Disconnect(c)

Spec == Init /\ [][Next]_log
=============================================================================
