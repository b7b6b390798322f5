---------------------------- MODULE MCNetServer ----------------------------
EXTENDS NetServer

CONSTANTS c1, c2

OneIP == [c \in Client |-> "ip"]

\* The addresses are ports of one player, or of a player each.
OnePlayer == [c \in Client |-> "code"]
OwnCode == [c \in Client |-> c]

Once == [c \in Client |-> 1]

\* The client with tokens connects three times, the other twice.
ThriceTwice == [c \in Client |-> IF c \in Vanilla THEN 2 ELSE 3]

=============================================================================
