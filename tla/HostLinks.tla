------------------------------ MODULE HostLinks ------------------------------
(***************************************************************************)
(* What the execution pool promises its users (docs/behavior/tasks.md):    *)
(* one command connection for each host, shared by everything that runs    *)
(* there.  A host gets another only after the one it had was let go; a     *)
(* connection that was let go, or came too late to be shared, is nobody's  *)
(* until it is closed; and one that is shared is not closed.               *)
(***************************************************************************)
CONSTANTS Hosts, Conns, NoConn

VARIABLES
  link,  \* the connection each host's calls are given
  open   \* the connections that are open

linkVars == <<link, open>>

Linked == {link[h] : h \in Hosts}

Init == link = [h \in Hosts |-> NoConn] /\ open = {}

Connect(h, x) ==
  /\ link[h] = NoConn /\ x \notin open
  /\ link' = [link EXCEPT ![h] = x]
  /\ open' = open \cup {x}

\* A connection that came too late to be shared.
Discard(x) == x \notin open /\ open' = open \cup {x} /\ UNCHANGED link

LetGo(hosts) ==
  /\ link' = [h \in Hosts |-> IF h \in hosts THEN NoConn ELSE link[h]]
  /\ UNCHANGED open

Close(x) == x \in open \ Linked /\ open' = open \ {x} /\ UNCHANGED link

Next ==
  \/ \E x \in Conns : Discard(x) \/ Close(x) \/ \E h \in Hosts : Connect(h, x)
  \/ \E hosts \in SUBSET Hosts : LetGo(hosts)

Spec == Init /\ [][Next]_linkVars
=============================================================================
