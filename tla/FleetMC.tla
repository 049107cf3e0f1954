------------------------------- MODULE FleetMC -------------------------------
(***************************************************************************)
(* Small instances of Fleet for TLC: one client of each kind, and another  *)
(* of AWS-S3 with two objects of one content.                              *)
(***************************************************************************)
EXTENDS Fleet

CONSTANTS h1, h2

\* 1 and 2 are copies of one file, 3 is another, and 4 is out of scope; the
\* server does not support the type of 3.
Numbers(c) == CASE c \in Voltages -> {1, 2, 3}
                [] c = "s3" -> {1, 4}
                [] c = "s3copies" -> {1, 2}
                [] c \in Lambdas -> {1}
                [] c \in Sensors -> {1, 2}
EachHas == [c \in Clients |-> {<<c, n>> : n \in Numbers(c)}]
HashOf == [i \in AllItems |-> IF i[2] \in {1, 2} THEN h1 ELSE h2]
Others == {i \in AllItems : i[2] = 4}
Alone == {{c} : c \in Clients}
Together == {{"s3", "lambda"}, {"lambda", "suricata"}}
AloneAndTogether == Alone \cup Together
Dual == <<"opensearch", "openobserve", "opensearch">>
=============================================================================
