---------------------------- MODULE MCBrokerEndpoint ----------------------------
(***************************************************************************)
(* BrokerEndpoint for TLC: two brokers on one endpoint, one connection     *)
(* slot, a client with two exchanges and a peer that breaks the            *)
(* protocol.                                                               *)
(***************************************************************************)
EXTENDS BrokerEndpoint

CONSTANTS agent, peer

MCSpeaks == [c \in Clients |-> IF c = agent THEN {"request"}
                               ELSE {"ping", "oversize"}]
MCMaxCalls == [c \in Clients |-> IF c = agent THEN 2 ELSE 1]
===============================================================================
