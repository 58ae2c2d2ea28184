------------------------------- MODULE MCBroker -------------------------------
(* Broker on a small instance: the constants are in the .cfg files.        *)
EXTENDS Broker, TLC

(* Workers, addresses and names are only compared for equality.            *)
BrokerSymmetry == Permutations(Worker) \cup Permutations(Box) \cup Permutations(Name)
===============================================================================
