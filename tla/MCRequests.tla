----------------------------- MODULE MCRequests ------------------------------
(***************************************************************************)
(* Finite instances of DnsReply and ConnectForm.  The two share no state,  *)
(* so a behaviour handles either a packet or a form.                       *)
(***************************************************************************)
EXTENDS DnsReply, ConnectForm

Byte == {0, 1, 2, 255}

Text(c, n) == [k \in 1 .. n |-> c]
SomeNames ==
  {Text("plain", n) : n \in {1, 21, 22, 31, 32}}
  \cup {Text("plain", 3) \o <<c>> \o Text("plain", 3) : c \in {"space", "special"}}
  \cup {Text("special", 11)}
SomePasswords ==
  {Text("plain", n) : n \in {0, 8, 62, 63}} \cup {Text("special", 8)}

FormOnly == tx_buffer = [k \in Positions |-> 0] /\ len = 0 /\ reply = NoReply

Init == FormInit /\ (DnsInit \/ FormOnly)
Next ==
  \/ Answer /\ UNCHANGED formvars
  \/ FormOnly /\ FormNext /\ UNCHANGED dnsvars
Spec == Init /\ [][Next]_<<formvars, dnsvars>>
=============================================================================
