---------------------------- MODULE ExecApprovals ----------------------------
(***************************************************************************)
(* Commands an agent runs on the gateway's host or on a node               *)
(* (agents/bash-tools.exec.ts): the policy and the allowlist in            *)
(* exec-approvals.json decide whether a command runs, is refused, or waits *)
(* for a decision, which the gateway's approval manager awaits with a      *)
(* timeout.  A command on a node is then invoked through NodeRegistry.     *)
(*                                                                         *)
(* A command sees the file as it is when the command begins (`seen`); what *)
(* it saves after the decision is that copy, changed.  A policy stands for *)
(* what the tool's and the file's settings give together (minSecurity,     *)
(* maxAsk).  Calls to the gateway are messages: they may fail with the     *)
(* request still being handled.                                            *)
(***************************************************************************)
EXTENDS NodeRegistry

CONSTANTS
  Requests,     \* commands; the invocations of NodeRegistry
  OnNode,       \* those for a node, the others run on the gateway's host
  Segments,     \* [Requests -> the executables it names; {}: not analysable]
  Executables,
  Policies,     \* records [security, ask, fallback]
  Versions,     \* what the operator may save: records [allow, policy]
  MaxEdits,     \* bound: edits of the file
  MaxTroubles   \* bound: calls to the gateway that fail

Policy == [security : {"deny", "allowlist", "full"}, ask : {"off", "on-miss", "always"},
           fallback : {"deny", "allowlist", "full"}]

ASSUME ExecAssumption ==
  /\ Requests = Invokes /\ OnNode \subseteq Requests
  /\ Segments \in [Requests -> SUBSET Executables]
  /\ Policies # {} /\ Policies \subseteq Policy
  /\ Versions \subseteq [allow : SUBSET Executables, policy : Policies]
  /\ None \notin {"allow-once", "allow-always", "deny"}
  /\ MaxEdits \in Nat /\ MaxTroubles \in Nat

VARIABLES
  file,       \* exec-approvals.json: allow, policy, stamp (tells versions apart)
  view,       \* the stamp of the version the operator's client has
  edits, troubles,
  stage,      \* [Requests -> new, asking, invoking, running, ended]
  seen,       \* [Requests -> allow, policy, satisfied]
  approval,   \* [Requests -> none, sent, pending (in the manager), settled]
  decision,   \* [Requests -> the decision that settled it, None: the timeout]
  called,     \* [Requests -> none, approved, unapproved]: its node.invoke
  outcome     \* [Requests -> none, or what the agent is told: refused, denied,
              \* invoke-failed, failed, finished]

execVars == <<file, view, edits, troubles, stage, seen, approval, decision, called, outcome>>
vars == <<registryVars, execVars>>

Allow == {"allow-once", "allow-always"}
Decisions == Allow \cup {"deny"}
NothingSeen(policy) == [allow |-> {}, policy |-> policy, satisfied |-> FALSE]

Init ==
  /\ RegistryInit
  /\ \E policy \in Policies :
       /\ file = [allow |-> {}, policy |-> policy, stamp |-> 0]
       /\ seen = [r \in Requests |-> NothingSeen(policy)]
  /\ view = 0 /\ edits = 0 /\ troubles = 0
  /\ stage = [r \in Requests |-> "new"]
  /\ approval = [r \in Requests |-> "none"]
  /\ decision = [r \in Requests |-> None]
  /\ called = [r \in Requests |-> "none"]
  /\ outcome = [r \in Requests |-> "none"]

-----------------------------------------------------------------------------
(* The allowlist and the policy.                                           *)

(* evaluateShellAllowlist: every segment must match an entry.  Of a node,  *)
(* whose own allowlist is asked for, it is whatever the node says.         *)
Satisfied(r, allow) ==
  IF file.policy.security # "allowlist" THEN {FALSE}
  ELSE IF r \notin OnNode THEN {Segments[r] # {} /\ Segments[r] \subseteq allow}
  ELSE IF file.policy.ask = "on-miss" THEN BOOLEAN ELSE {FALSE}

Views(r) ==
  { [allow |-> file.allow, policy |-> file.policy, satisfied |-> s] : s \in Satisfied(r, file.allow) }

(* requiresExecApproval.                                                   *)
RequiresAsk(v) ==
  \/ v.policy.ask = "always"
  \/ v.policy.ask = "on-miss" /\ v.policy.security = "allowlist" /\ ~ v.satisfied

(* saveExecApprovals.                                                      *)
Save(allow, policy) ==
  file' = [allow |-> allow, policy |-> policy, stamp |-> file.stamp + 1]

(* addAllowlistEntry and recordAllowlistUse, on the copy the command has:  *)
(* it is saved if an entry is new, or if one matched.                      *)
SaveUses(r, v, added) ==
  IF ~ added \subseteq v.allow \/ Segments[r] \cap v.allow # {}
  THEN Save(v.allow \cup added, v.policy)
  ELSE UNCHANGED file

-----------------------------------------------------------------------------
(* The operator's client: exec.approvals.get, and exec.approvals.set,      *)
(* which is refused unless the client has the version that is on disk.     *)
GetApprovals ==
  /\ view # file.stamp /\ edits < MaxEdits
  /\ view' = file.stamp
  /\ UNCHANGED <<registryVars, file, edits, troubles, stage, seen, approval, decision, called, outcome>>

SetApprovals(version) ==
  /\ view = file.stamp
  /\ edits < MaxEdits /\ edits' = edits + 1
  /\ Save(version.allow, version.policy)
  /\ view' = file'.stamp
  /\ UNCHANGED <<registryVars, troubles, stage, seen, approval, decision, called, outcome>>

-----------------------------------------------------------------------------
(* A command begins.                                                       *)
Begins(r, v) == stage[r] = "new" /\ v \in Views(r) /\ seen' = [seen EXCEPT ![r] = v]

Refuse(r, v) ==
  /\ Begins(r, v)
  /\ \/ v.policy.security = "deny"
     \/ /\ r \notin OnNode /\ ~ RequiresAsk(v)
        /\ v.policy.security = "allowlist" /\ ~ v.satisfied
  /\ stage' = [stage EXCEPT ![r] = "ended"]
  /\ outcome' = [outcome EXCEPT ![r] = "refused"]
  /\ UNCHANGED <<registryVars, file, view, edits, troubles, approval, decision, called>>

Ask(r, v) ==
  /\ Begins(r, v)
  /\ v.policy.security # "deny" /\ RequiresAsk(v)
  /\ stage' = [stage EXCEPT ![r] = "asking"]
  /\ approval' = [approval EXCEPT ![r] = "sent"]
  /\ UNCHANGED <<registryVars, file, view, edits, troubles, decision, called, outcome>>

RunAtOnce(r, v) ==
  /\ Begins(r, v) /\ r \notin OnNode
  /\ v.policy.security # "deny" /\ ~ RequiresAsk(v)
  /\ v.policy.security = "allowlist" => v.satisfied
  /\ SaveUses(r, v, {})
  /\ stage' = [stage EXCEPT ![r] = "running"]
  /\ UNCHANGED <<registryVars, view, edits, troubles, approval, decision, called, outcome>>

InvokeAtOnce(r, v) ==
  /\ Begins(r, v) /\ r \in OnNode
  /\ v.policy.security # "deny" /\ ~ RequiresAsk(v)
  /\ stage' = [stage EXCEPT ![r] = "invoking"]
  /\ called' = [called EXCEPT ![r] = "unapproved"]
  /\ UNCHANGED <<registryVars, file, view, edits, troubles, approval, decision, outcome>>

-----------------------------------------------------------------------------
(* The approval manager.                                                   *)

(* exec.approval.request, which waits for the decision.                    *)
ApprovalRequested(r) ==
  /\ approval[r] = "sent"
  /\ approval' = [approval EXCEPT ![r] = "pending"]
  /\ UNCHANGED <<registryVars, file, view, edits, troubles, stage, seen, decision, called, outcome>>

(* exec.approval.resolve; an id that is not pending is refused.            *)
Resolve(r, d) ==
  /\ approval[r] = "pending"
  /\ approval' = [approval EXCEPT ![r] = "settled"]
  /\ decision' = [decision EXCEPT ![r] = d]
  /\ UNCHANGED <<registryVars, file, view, edits, troubles, stage, seen, called, outcome>>

(* A mutant: the entry is deleted, and the promise never resolved.         *)
ApprovalExpiresFaulty(r) ==
  /\ approval[r] = "pending"
  /\ approval' = [approval EXCEPT ![r] = "none"]
  /\ UNCHANGED <<registryVars, file, view, edits, troubles, stage, seen, decision, called, outcome>>

ApprovalExpires(r) ==
  /\ approval[r] = "pending"
  /\ approval' = [approval EXCEPT ![r] = "settled"]
  /\ UNCHANGED <<registryVars, file, view, edits, troubles, stage, seen, decision, called, outcome>>

-----------------------------------------------------------------------------
(* The command goes on with the decision.                                  *)

(* A mutant: without a decision the fallback "allowlist" lets it run.      *)
VerdictFaulty(r) ==
  IF decision[r] = "deny" THEN "denied"
  ELSE IF decision[r] \in Allow THEN "approved"
  ELSE IF seen[r].policy.fallback = "deny" THEN "denied" ELSE "approved"

(* What a decision, or the fallback without one, means for the command: of *)
(* a node, the fallback "allowlist" is left to the node.                   *)
Verdict(r) ==
  IF decision[r] = "deny" THEN "denied"
  ELSE IF decision[r] \in Allow \/ seen[r].policy.fallback = "full" THEN "approved"
  ELSE IF seen[r].policy.fallback = "deny" THEN "denied"
  ELSE IF r \in OnNode THEN "unapproved"
  ELSE IF seen[r].satisfied THEN "approved" ELSE "denied"

Answered(r) == stage[r] = "asking" /\ approval[r] = "settled"

Trouble == troubles < MaxTroubles /\ troubles' = troubles + 1

End(r, result) ==
  /\ stage' = [stage EXCEPT ![r] = "ended"]
  /\ outcome' = [outcome EXCEPT ![r] = result]

(* The call of exec.approval.request fails: whether it arrived, and what   *)
(* is decided, the command will not learn.                                 *)
AskFails(r) ==
  /\ stage[r] = "asking" /\ Trouble
  /\ End(r, "denied")
  /\ UNCHANGED <<registryVars, file, view, edits, seen, approval, decision, called>>

Deny(r) ==
  /\ Answered(r) /\ Verdict(r) = "denied"
  /\ End(r, "denied")
  /\ UNCHANGED <<registryVars, file, view, edits, troubles, seen, approval, decision, called>>

Granted(r) ==
  IF decision[r] = "allow-always" /\ seen[r].policy.security = "allowlist" THEN Segments[r] ELSE {}

(* On the gateway's host the file is saved, and the process spawned, which *)
(* may fail.                                                               *)
RunApproved(r) ==
  /\ Answered(r) /\ Verdict(r) = "approved" /\ r \notin OnNode
  /\ SaveUses(r, seen[r], Granted(r))
  /\ \/ stage' = [stage EXCEPT ![r] = "running"] /\ UNCHANGED outcome
     \/ End(r, "denied")
  /\ UNCHANGED <<registryVars, view, edits, troubles, seen, approval, decision, called>>

ProcessEnds(r) ==
  /\ stage[r] = "running"
  /\ End(r, "finished")
  /\ UNCHANGED <<registryVars, file, view, edits, troubles, seen, approval, decision, called>>

InvokeApproved(r) ==
  /\ Answered(r) /\ Verdict(r) # "denied" /\ r \in OnNode
  /\ stage' = [stage EXCEPT ![r] = "invoking"]
  /\ called' = [called EXCEPT ![r] = Verdict(r)]
  /\ UNCHANGED <<registryVars, file, view, edits, troubles, seen, approval, decision, outcome>>

(* node.invoke, when the call arrives.                                     *)
NodeInvoke(r) ==
  /\ called[r] # "none"
  /\ Invoke(r)
  /\ UNCHANGED execVars

(* What the agent is told when the call throws: of a command that was not  *)
(* asked for, the error; of one that was, "Exec denied (..,                *)
(* invoke-failed)", though the call may have reached the node.             *)
InvokeError(r) == IF approval[r] = "none" THEN "failed" ELSE "invoke-failed"

(* The call returns, or throws on anything but a result that is ok.        *)
InvokeReturns(r) ==
  /\ stage[r] = "invoking" /\ phase[r] \in Settlements
  /\ End(r, IF phase[r] = "ok" THEN "finished" ELSE InvokeError(r))
  /\ UNCHANGED <<registryVars, file, view, edits, troubles, seen, approval, decision, called>>

(* The call fails, or times out before the registry's own timer.           *)
InvokeFails(r) ==
  /\ stage[r] = "invoking" /\ Trouble
  /\ End(r, InvokeError(r))
  /\ UNCHANGED <<registryVars, file, view, edits, seen, approval, decision, called>>

-----------------------------------------------------------------------------
Begin(r) == \E v \in Views(r) : Refuse(r, v) \/ Ask(r, v) \/ RunAtOnce(r, v) \/ InvokeAtOnce(r, v)

Continue(r) ==
  \/ ApprovalRequested(r) \/ ApprovalExpires(r) \/ Deny(r) \/ RunApproved(r) \/ InvokeApproved(r)
  \/ ProcessEnds(r) \/ NodeInvoke(r) \/ InvokeReturns(r)

Next ==
  \/ \E r \in Requests :
       \/ Begin(r) \/ Continue(r) \/ AskFails(r) \/ InvokeFails(r)
       \/ \E d \in Decisions : Resolve(r, d)
  \/ \E version \in Versions : SetApprovals(version)
  \/ GetApprovals
  \/ RegistryNext /\ UNCHANGED execVars

(* Calls arrive, timers fire and processes end (they have a timeout).      *)
Fairness ==
  \A r \in Requests :
    WF_vars(Continue(r)) /\ WF_vars(InvokeTimesOut(r) /\ UNCHANGED execVars)

Spec == Init /\ [][Next]_vars
FairSpec == Spec /\ Fairness
-----------------------------------------------------------------------------
Seen == [allow : SUBSET Executables, policy : Policies, satisfied : BOOLEAN]

(* The values of the variables, and what the registry promises.            *)
TypeOK ==
  /\ RegistryTypeOK
  /\ file \in [allow : SUBSET Executables, policy : Policies, stamp : Nat]
  /\ view \in Nat /\ edits \in 0..MaxEdits /\ troubles \in 0..MaxTroubles
  /\ stage \in [Requests -> {"new", "asking", "invoking", "running", "ended"}]
  /\ seen \in [Requests -> Seen]
  /\ approval \in [Requests -> {"none", "sent", "pending", "settled"}]
  /\ decision \in [Requests -> Decisions \cup {None}]
  /\ called \in [Requests -> {"none", "approved", "unapproved"}]
  /\ outcome \in [Requests ->
                   {"none", "refused", "denied", "invoke-failed", "failed", "finished"}]

Ran(r) ==
  IF r \in OnNode THEN job[r] \in {"running", "ended"}
  ELSE stage[r] = "running" \/ outcome[r] = "finished"

(* What the operator or the policy in force must have said for the command *)
(* to run, on a node on the node's own judgement or as approved.           *)
Consent(r, approved) ==
  IF decision[r] # None THEN decision[r] \in Allow
  ELSE IF ~ RequiresAsk(seen[r])
  THEN /\ seen[r].policy.security # "deny" /\ ~ approved
       /\ r \notin OnNode /\ seen[r].policy.security = "allowlist" => seen[r].satisfied
  ELSE /\ approval[r] = "settled"
       /\ \/ seen[r].policy.fallback = "full"
          \/ seen[r].policy.fallback = "allowlist" /\ ~ approved
             /\ (r \notin OnNode => seen[r].satisfied)

(* No command runs that was denied, or refused, or that nobody had to      *)
(* decide on but the fallback; whatever calls fail, timers race decisions, *)
(* and connections come and go.  A command reported as refused, or as      *)
(* denied because of the decision, its absence, a request that failed or a *)
(* process that could not start, has not run and never will.  The code     *)
(* also says "Exec denied (.., invoke-failed)" of a command whose call to  *)
(* the node threw: that one may have run or run later, but only with the   *)
(* consent of the decision or of the fallback, as it was asked for.        *)
Consented ==
  \A r \in Requests :
    /\ Ran(r) => Consent(r, called[r] = "approved")
    /\ outcome[r] \in {"refused", "denied"} => ~ Ran(r) /\ called[r] = "none"
    /\ outcome[r] = "invoke-failed" =>
         approval[r] = "settled" /\ Consent(r, called[r] = "approved")

(* Every command comes to its end: it is refused, denied, finished, or     *)
(* reported as failed or as not invoked.                                   *)
Ends == \A r \in Requests : stage[r] # "new" ~> stage[r] = "ended"

(* Only an edit of the operator takes an executable from the allowlist or  *)
(* changes the policy: what a command saves when it was approved keeps     *)
(* what was granted and edited while it waited.                            *)
EditsKept ==
  [][file' # file /\ view' # file'.stamp =>
       file.allow \subseteq file'.allow /\ file'.policy = file.policy]_vars
=============================================================================
