------------------------------ MODULE MC_Ports ------------------------------
EXTENDS Ports

TwoPorts == [http |-> 2]
Starts == [http |-> 10]
Names == DOMAIN TwoPorts
OfNone == [s \in Slots |-> PortStart + s[2]]
=============================================================================
