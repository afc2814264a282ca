-------------------------- MODULE MCMessageServer --------------------------
(* Model-checking instance of MessageServer: the constants are given in    *)
(* the .cfg files; the sender set is given by model values.                *)
EXTENDS MessageServer, TLC

CONSTANTS p1, p2, t1, t2

\* Two remote senders, one topic.
TwoPeers == {p1, p2}
OneTopic == {t1}
\* One sender, two topics.
OnePeer   == {p1}
TwoTopics == {t1, t2}
====
