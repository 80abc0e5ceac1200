---------------------------- MODULE NodeRegistry ----------------------------
(***************************************************************************)
(* The gateway's registry of nodes (gateway/node-registry.ts): which       *)
(* connection a node is reached by, and the invocations whose results are  *)
(* awaited.  A node that reconnects is registered again before the close   *)
(* of its old connection is noticed.                                       *)
(*                                                                         *)
(* The node itself is external: it carries out what it is sent, or         *)
(* declines, and sends its result over whatever connection it then has.    *)
(***************************************************************************)
EXTENDS Naturals, FiniteSets

CONSTANTS
  Nodes, Conns,
  NodeOf,      \* [Conns -> Nodes]: who connects
  Invokes,
  TargetOf,    \* [Invokes -> Nodes]
  None

ASSUME RegistryAssumption ==
  /\ NodeOf \in [Conns -> Nodes] /\ TargetOf \in [Invokes -> Nodes]
  /\ None \notin Conns

VARIABLES
  conn,     \* [Conns -> new, open, broken (unnoticed by the gateway), closed]
  byId,     \* nodesById
  phase,    \* [Invokes -> new, pending (in pendingInvokes), or how it settled]
  via,      \* [Invokes -> the connection its request was sent over]
  job       \* [Invokes -> what the node does about it]

registryVars == <<conn, byId, phase, via, job>>

Settlements == {"ok", "refused", "timeout", "rejected", "unsent"}
Phases == {"new", "pending"} \cup Settlements
Known(c) == conn[c] \in {"open", "broken"}
Pending(n) == { i \in Invokes : phase[i] = "pending" /\ TargetOf[i] = n }

RegistryInit ==
  /\ conn = [c \in Conns |-> "new"]
  /\ byId = [n \in Nodes |-> None]
  /\ phase = [i \in Invokes |-> "new"]
  /\ via = [i \in Invokes |-> None]
  /\ job = [i \in Invokes |-> "none"]

(* register: the newest connection of a node is the one it is reached by.  *)
Register(c) ==
  /\ conn[c] = "new"
  /\ conn' = [conn EXCEPT ![c] = "open"]
  /\ byId' = [byId EXCEPT ![NodeOf[c]] = c]
  /\ UNCHANGED <<phase, via, job>>

Break(c) ==
  /\ conn[c] = "open"
  /\ conn' = [conn EXCEPT ![c] = "broken"]
  /\ UNCHANGED <<byId, phase, via, job>>

(* A mutant: what is awaited from the node stays pending.                  *)
UnregisterFaulty(c) ==
  /\ Known(c)
  /\ conn' = [conn EXCEPT ![c] = "closed"]
  /\ byId' = [byId EXCEPT ![NodeOf[c]] = None]
  /\ UNCHANGED <<phase, via, job>>

(* unregister, when a connection closes: it takes the node out, also when  *)
(* a newer connection has registered it, and rejects all it waits for.     *)
Unregister(c) ==
  /\ Known(c)
  /\ conn' = [conn EXCEPT ![c] = "closed"]
  /\ byId' = [byId EXCEPT ![NodeOf[c]] = None]
  /\ phase' = [i \in Invokes |-> IF i \in Pending(NodeOf[c]) THEN "rejected" ELSE phase[i]]
  /\ UNCHANGED <<via, job>>

(* invoke: the node is unknown, or the send fails, or a result is awaited. *)
Invoke(i) ==
  LET c == byId[TargetOf[i]]
  IN  /\ phase[i] = "new"
      /\ \/ /\ IF c = None THEN TRUE ELSE conn[c] = "broken"
            /\ phase' = [phase EXCEPT ![i] = "unsent"]
            /\ UNCHANGED via
         \/ /\ c # None
            /\ phase' = [phase EXCEPT ![i] = "pending"]
            /\ via' = [via EXCEPT ![i] = c]
      /\ UNCHANGED <<conn, byId, job>>

InvokeTimesOut(i) ==
  /\ phase[i] = "pending"
  /\ phase' = [phase EXCEPT ![i] = "timeout"]
  /\ UNCHANGED <<conn, byId, via, job>>

(* The request reaches the node over the connection it was sent over.      *)
NodeBegins(i) ==
  /\ via[i] # None /\ job[i] = "none"
  /\ conn[via[i]] = "open"
  /\ job' = [job EXCEPT ![i] = "running"]
  /\ UNCHANGED <<conn, byId, phase, via>>

(* handleInvokeResult: what is not pending any more is ignored.            *)
HandleInvokeResult(i, result) ==
  phase' = IF phase[i] = "pending" THEN [phase EXCEPT ![i] = result] ELSE phase

(* The node has ended, or declines to begin; its result is lost when it    *)
(* has no connection.                                                      *)
NodeAnswers(i) ==
  /\ \/ /\ job[i] = "running"
        /\ job' = [job EXCEPT ![i] = "ended"]
     \/ /\ job[i] = "none" /\ via[i] # None
        /\ conn[via[i]] = "open"
        /\ job' = [job EXCEPT ![i] = "declined"]
  /\ IF \E c \in Conns : NodeOf[c] = TargetOf[i] /\ conn[c] = "open"
     THEN HandleInvokeResult(i, IF job[i] = "running" THEN "ok" ELSE "refused")
     ELSE UNCHANGED phase
  /\ UNCHANGED <<conn, byId, via>>

RegistryNext ==
  \/ \E c \in Conns : Register(c) \/ Break(c) \/ Unregister(c)
  \/ \E i \in Invokes : InvokeTimesOut(i) \/ NodeBegins(i) \/ NodeAnswers(i)
-----------------------------------------------------------------------------
(* The values of the variables; the registry lists no connection that has  *)
(* closed, and awaits no result from a node it does not list.              *)
RegistryTypeOK ==
  /\ conn \in [Conns -> {"new", "open", "broken", "closed"}]
  /\ byId \in [Nodes -> Conns \cup {None}]
  /\ phase \in [Invokes -> Phases]
  /\ via \in [Invokes -> Conns \cup {None}]
  /\ job \in [Invokes -> {"none", "running", "ended", "declined"}]
  /\ \A n \in Nodes : byId[n] # None => NodeOf[byId[n]] = n /\ Known(byId[n])
  /\ \A i \in Invokes : phase[i] = "pending" => byId[TargetOf[i]] # None
=============================================================================
