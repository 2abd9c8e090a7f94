------------------------------ MODULE MCChannel ------------------------------
EXTENDS Channel

(* Per gateway the exchange loop and the task of an application; at the    *)
(* client also the command p, typed at any time.                           *)
MCTasks == {"srvLoop", "srvApp", "cliLoop", "cliApp", "command"}

MCSideOf ==
  [srvLoop |-> "srv", srvApp |-> "srv",
   cliLoop |-> "cli", cliApp |-> "cli", command |-> "cli"]

MCLoop == [srv |-> "srvLoop", cli |-> "cliLoop"]

(* Data that gets shorter, and data that does not, in either direction; in *)
(* one script the Pong competes with the data for the writer.              *)
Data(d) == <<[type |-> "Regular", link |-> 300, data |-> d]>>
Ping    == <<[type |-> "Ping", link |-> 0, data |-> <<>>]>>

Quiet == [t \in MCTasks |-> <<>>]

MCScripts ==
  {[Quiet EXCEPT !["srvApp"] = Data(<<5, 5, 5>>), !["command"] = Ping],
   [Quiet EXCEPT !["srvApp"] = Data(<<1, 2, 3>>), !["cliApp"] = Data(<<5, 5, 5>>)]}

(* The client has the server's key or another, and its version or another. *)
MCKeys   == {[srv |-> 1, cli |-> k] : k \in {1, 2}}
MCMajors == {[srv |-> 0, cli |-> v] : v \in {0, 1}}

MCEarly == {"command"}
=============================================================================
