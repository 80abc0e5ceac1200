------------------------- MODULE ExecApprovalsProofs -------------------------
(***************************************************************************)
(* Types and consent, for any requests, nodes, policies and bounds.        *)
(*                                                                         *)
(* Consented is not inductive: that a node runs only what was consented to *)
(* rests on the chain from the decision to the call, the message and the   *)
(* node.  Chain(r) says how far a request has come for each of its values; *)
(* it speaks of one request only, so a step of another one keeps it.       *)
(***************************************************************************)
EXTENDS ExecApprovals, TLAPS

Fresh(r) ==
  approval[r] = "none" /\ decision[r] = None /\ called[r] = "none" /\ outcome[r] = "none"

Asked(r) ==
  /\ stage[r] = "asking" => approval[r] # "none"
  /\ approval[r] # "none" => RequiresAsk(seen[r])
  /\ decision[r] # None => approval[r] = "settled"

Carried(r) ==
  /\ job[r] # "none" => via[r] # None
  /\ via[r] # None => called[r] # "none"

Goes(r) == called[r] # "none" \/ stage[r] = "running" \/ outcome[r] = "finished"

Chain(r) ==
  /\ stage[r] = "new" => Fresh(r)
  /\ Asked(r) /\ Carried(r)
  /\ called[r] # "none" => r \in OnNode /\ stage[r] \in {"invoking", "ended"}
  /\ stage[r] = "invoking" => called[r] # "none"
  /\ stage[r] = "running" => r \notin OnNode
  /\ outcome[r] # "none" => stage[r] = "ended"
  /\ stage[r] = "invoking" /\ approval[r] # "none" => approval[r] = "settled"
  /\ outcome[r] = "invoke-failed" => called[r] # "none" /\ approval[r] = "settled"
  /\ Goes(r) => Consent(r, called[r] = "approved") /\ outcome[r] \notin {"refused", "denied"}

Inv == TypeOK /\ \A r \in Requests : Chain(r)

Kept(r) ==
  /\ stage'[r] = stage[r] /\ seen'[r] = seen[r] /\ approval'[r] = approval[r]
  /\ decision'[r] = decision[r] /\ called'[r] = called[r] /\ outcome'[r] = outcome[r]
  /\ via'[r] = via[r] /\ job'[r] = job[r]

-----------------------------------------------------------------------------
(* What the chain says of a request implies what Consented says of it.     *)
LEMMA ChainConsents == Inv => Consented
BY DEF Inv, TypeOK, RegistryTypeOK, Chain, Consented, Ran, Goes, Carried

(* A request keeps its chain when none of its values changes.              *)
LEMMA ChainKept ==
  ASSUME NEW r \in Requests, Chain(r), Kept(r)
  PROVE  Chain(r)'
BY DEF Chain, Kept, Fresh, Asked, Carried, Goes, Consent, RequiresAsk

(* What a request sees of the file is of the right type.                   *)
LEMMA ViewsTyped ==
  ASSUME TypeOK, NEW r \in Requests, NEW v \in Views(r)
  PROVE  v \in Seen
<1>1. PICK s \in Satisfied(r, file.allow) :
        v = [allow |-> file.allow, policy |-> file.policy, satisfied |-> s]
  BY DEF Views
<1>2. s \in BOOLEAN
  BY DEF Satisfied
<1>3. file.allow \in SUBSET Executables /\ file.policy \in Policies
  BY DEF TypeOK
<1> QED
  BY <1>1, <1>2, <1>3 DEF Seen

LEMMA InitInv == Init => Inv
<1> SUFFICES ASSUME Init PROVE Inv
  OBVIOUS
<1>1. TypeOK
  <2>1. RegistryTypeOK
    BY RegistryAssumption DEF Init, RegistryInit, RegistryTypeOK, Phases
  <2>2. PICK policy \in Policies : /\ file = [allow |-> {}, policy |-> policy, stamp |-> 0]
                                  /\ seen = [r \in Requests |-> NothingSeen(policy)]
    BY DEF Init
  <2>3. file \in [allow : SUBSET Executables, policy : Policies, stamp : Nat]
    BY <2>2
  <2>4. NothingSeen(policy) \in Seen
    BY DEF NothingSeen, Seen
  <2>5. seen \in [Requests -> Seen]
    BY <2>2, <2>4
  <2> QED
    BY <2>1, <2>3, <2>5, ExecAssumption DEF Init, TypeOK
<1>2. \A r \in Requests : Chain(r)
  BY ExecAssumption DEF Init, RegistryInit, Chain, Fresh, Asked, Carried, Goes
<1> QED
  BY <1>1, <1>2 DEF Inv

-----------------------------------------------------------------------------
(* Steps of a request.  Which of its own values a step changes; the values *)
(* of the others stay.                                                     *)
LEMMA OthersKept ==
  ASSUME TypeOK, NEW r \in Requests, NEW q \in Requests, q # r,
         \/ \E v \in Views(r) : Refuse(r, v) \/ Ask(r, v) \/ RunAtOnce(r, v) \/ InvokeAtOnce(r, v)
         \/ Continue(r) \/ AskFails(r) \/ InvokeFails(r) \/ \E d \in Decisions : Resolve(r, d)
         \/ (InvokeTimesOut(r) \/ NodeBegins(r) \/ NodeAnswers(r)) /\ UNCHANGED execVars
  PROVE  Kept(q)
<1>0. q \in DOMAIN stage /\ q \in DOMAIN outcome /\ q \in DOMAIN via /\ q \in DOMAIN job
  BY ExecAssumption DEF TypeOK, RegistryTypeOK
<1>1. ASSUME NEW v \in Views(r), Refuse(r, v) PROVE Kept(q)
  BY <1>1 DEF Refuse, Kept, registryVars, Begins
<1>2. ASSUME NEW v \in Views(r), Ask(r, v) PROVE Kept(q)
  BY <1>2 DEF Ask, Kept, registryVars, Begins
<1>3. ASSUME NEW v \in Views(r), RunAtOnce(r, v) PROVE Kept(q)
  BY <1>3 DEF RunAtOnce, Kept, registryVars, Begins
<1>4. ASSUME NEW v \in Views(r), InvokeAtOnce(r, v) PROVE Kept(q)
  BY <1>4 DEF InvokeAtOnce, Kept, registryVars, Begins
<1>5. ASSUME ApprovalRequested(r) PROVE Kept(q)
  BY <1>5 DEF ApprovalRequested, Kept, registryVars
<1>6. ASSUME ApprovalExpires(r) PROVE Kept(q)
  BY <1>6 DEF ApprovalExpires, Kept, registryVars
<1>7. ASSUME Deny(r) PROVE Kept(q)
  BY <1>7 DEF Deny, Kept, registryVars, End
<1>8. ASSUME RunApproved(r) PROVE Kept(q)
  <2>1. /\ \/ stage' = [stage EXCEPT ![r] = "running"] /\ outcome' = outcome
           \/ End(r, "denied")
        /\ UNCHANGED <<registryVars, seen, approval, decision, called>>
    BY <1>8 DEF RunApproved
  <2> QED
    BY <1>0, <2>1 DEF End, Kept, registryVars
<1>9. ASSUME InvokeApproved(r) PROVE Kept(q)
  BY <1>9 DEF InvokeApproved, Kept, registryVars
<1>10. ASSUME ProcessEnds(r) PROVE Kept(q)
  BY <1>10 DEF ProcessEnds, Kept, registryVars, End
<1>11. ASSUME NodeInvoke(r) PROVE Kept(q)
  <2>1. job' = job /\ (via' = via \/ via' = [via EXCEPT ![r] = byId[TargetOf[r]]])
    BY <1>11 DEF NodeInvoke, Invoke
  <2> QED
    BY <1>0, <1>11, <2>1 DEF NodeInvoke, execVars, Kept
<1>12. ASSUME InvokeReturns(r) PROVE Kept(q)
  BY <1>12 DEF InvokeReturns, Kept, registryVars, End
<1>13. ASSUME AskFails(r) PROVE Kept(q)
  BY <1>13 DEF AskFails, Kept, registryVars, End
<1>14. ASSUME InvokeFails(r) PROVE Kept(q)
  BY <1>14 DEF InvokeFails, Kept, registryVars, End
<1>15. ASSUME NEW d \in Decisions, Resolve(r, d) PROVE Kept(q)
  BY <1>15 DEF Resolve, Kept, registryVars
<1>16. ASSUME InvokeTimesOut(r) /\ UNCHANGED execVars PROVE Kept(q)
  BY <1>16 DEF InvokeTimesOut, Kept, execVars
<1>17. ASSUME NodeBegins(r) /\ UNCHANGED execVars PROVE Kept(q)
  BY <1>17 DEF NodeBegins, Kept, execVars
<1>18. ASSUME NodeAnswers(r) /\ UNCHANGED execVars PROVE Kept(q)
  <2>1. /\ job' = [job EXCEPT ![r] = "ended"] \/ job' = [job EXCEPT ![r] = "declined"]
        /\ via' = via
    BY <1>18 DEF NodeAnswers
  <2> QED
    BY <1>0, <1>18, <2>1 DEF execVars, Kept
<1> QED
  BY <1>1, <1>2, <1>3, <1>4, <1>5, <1>6, <1>7, <1>8, <1>9, <1>10, <1>11, <1>12, <1>13, <1>14, <1>15, <1>16, <1>17, <1>18 DEF Continue

(* What lets a command go on is a consent.                                 *)
LEMMA VerdictConsents ==
  ASSUME TypeOK, NEW r \in Requests, Asked(r), Answered(r), Verdict(r) # "denied"
  PROVE  Consent(r, r \in OnNode /\ Verdict(r) = "approved")
<1>1. seen[r].policy.fallback \in {"deny", "allowlist", "full"}
  <2>1. seen[r].policy \in Policy
    BY ExecAssumption DEF TypeOK, Seen
  <2> QED
    BY <2>1 DEF Policy
<1>2. decision[r] \in Decisions \cup {None} /\ None \notin Decisions
  BY ExecAssumption DEF TypeOK, Decisions, Allow
<1> QED
  BY <1>1, <1>2 DEF Asked, Answered, Verdict, Consent, Allow, Decisions

LEMMA ConsentKept ==
  ASSUME NEW r \in Requests, NEW a \in BOOLEAN, Consent(r, a),
         approval'[r] = approval[r], decision'[r] = decision[r], seen'[r] = seen[r]
  PROVE  Consent(r, a)'
BY DEF Consent, RequiresAsk

(* The request that takes the step keeps its chain.                        *)
LEMMA OwnChain ==
  ASSUME Inv, NEW r \in Requests,
         \/ \E v \in Views(r) : Refuse(r, v) \/ Ask(r, v) \/ RunAtOnce(r, v) \/ InvokeAtOnce(r, v)
         \/ Continue(r) \/ AskFails(r) \/ InvokeFails(r) \/ \E d \in Decisions : Resolve(r, d)
         \/ (InvokeTimesOut(r) \/ NodeBegins(r) \/ NodeAnswers(r)) /\ UNCHANGED execVars
  PROVE  Chain(r)'
<1>0. /\ Chain(r) /\ None \notin Decisions /\ None \notin Conns /\ Requests = Invokes
      /\ r \in DOMAIN stage /\ r \in DOMAIN seen /\ r \in DOMAIN approval /\ r \in DOMAIN decision
      /\ r \in DOMAIN called /\ r \in DOMAIN outcome /\ r \in DOMAIN via /\ r \in DOMAIN job
      /\ stage[r] \in {"new", "asking", "invoking", "running", "ended"}
      /\ called[r] \in {"none", "approved", "unapproved"}
      /\ decision[r] \in Decisions \cup {None}
  BY ExecAssumption, RegistryAssumption DEF Inv, TypeOK, RegistryTypeOK, Decisions, Allow
<1>1. ASSUME NEW v \in Views(r), Refuse(r, v) PROVE Chain(r)'
  BY <1>0, <1>1 DEF Chain, Fresh, Asked, Carried, Goes, Consent, RequiresAsk, Refuse, Begins, registryVars, Decisions, Allow
<1>2. ASSUME NEW v \in Views(r), Ask(r, v) PROVE Chain(r)'
  BY <1>0, <1>2 DEF Chain, Fresh, Asked, Carried, Goes, Consent, RequiresAsk, Ask, Begins, registryVars, Decisions, Allow
<1>3. ASSUME NEW v \in Views(r), RunAtOnce(r, v) PROVE Chain(r)'
  BY <1>0, <1>3 DEF Chain, Fresh, Asked, Carried, Goes, Consent, RequiresAsk, RunAtOnce, Begins, registryVars, Decisions, Allow
<1>4. ASSUME NEW v \in Views(r), InvokeAtOnce(r, v) PROVE Chain(r)'
  BY <1>0, <1>4 DEF Chain, Fresh, Asked, Carried, Goes, Consent, RequiresAsk, InvokeAtOnce, Begins, registryVars, Decisions, Allow
<1>5. ASSUME ApprovalRequested(r) PROVE Chain(r)'
  BY <1>0, <1>5 DEF Chain, Fresh, Asked, Carried, Goes, Consent, RequiresAsk, ApprovalRequested, registryVars, Decisions, Allow
<1>6. ASSUME ApprovalExpires(r) PROVE Chain(r)'
  BY <1>0, <1>6 DEF Chain, Fresh, Asked, Carried, Goes, Consent, RequiresAsk, ApprovalExpires, registryVars, Decisions, Allow
<1>7. ASSUME Deny(r) PROVE Chain(r)'
  BY <1>0, <1>7 DEF Chain, Fresh, Asked, Carried, Goes, Consent, RequiresAsk, Deny, Answered, End, registryVars, Decisions, Allow
<1>8. ASSUME RunApproved(r) PROVE Chain(r)'
  <2>1. /\ \/ stage' = [stage EXCEPT ![r] = "running"] /\ outcome' = outcome
           \/ End(r, "denied")
        /\ UNCHANGED <<registryVars, seen, approval, decision, called>>
    BY <1>8 DEF RunApproved
  <2>2. Answered(r) /\ Verdict(r) = "approved" /\ r \notin OnNode
    BY <1>8 DEF RunApproved
  <2>3. Consent(r, FALSE)
    <3>1. Consent(r, r \in OnNode /\ Verdict(r) = "approved")
      BY <1>0, <2>2, VerdictConsents DEF Chain, Inv
    <3> QED
      BY <3>1, <2>2 DEF Consent
  <2>4. Consent(r, FALSE)'
    BY <2>1, <2>3, ConsentKept
  <2> QED
    BY <1>0, <2>1, <2>2, <2>4
       DEF Chain, Fresh, Asked, Carried, Goes, Answered, End, registryVars, RequiresAsk
<1>9. ASSUME InvokeApproved(r) PROVE Chain(r)'
  <2>1. /\ stage' = [stage EXCEPT ![r] = "invoking"]
        /\ called' = [called EXCEPT ![r] = Verdict(r)]
        /\ UNCHANGED <<registryVars, seen, approval, decision, outcome>>
        /\ Answered(r) /\ Verdict(r) # "denied" /\ r \in OnNode
    BY <1>9 DEF InvokeApproved
  <2>2. Verdict(r) \in {"approved", "unapproved"}
    BY <2>1 DEF Verdict
  <2>3. Consent(r, Verdict(r) = "approved")
    <3>1. Consent(r, r \in OnNode /\ Verdict(r) = "approved")
      BY <1>0, <2>1, VerdictConsents DEF Chain, Inv
    <3> QED
      BY <3>1, <2>1 DEF Consent
  <2>4. Consent(r, Verdict(r) = "approved")'
    BY <2>1, <2>3 DEF Consent, RequiresAsk, Verdict
  <2>5. called'[r] = Verdict(r) /\ Verdict(r)' = Verdict(r)
    BY <1>0, <2>1 DEF Verdict
  <2> QED
    BY <1>0, <2>1, <2>2, <2>4, <2>5
       DEF Chain, Fresh, Asked, Carried, Goes, Answered, registryVars, RequiresAsk
<1>10. ASSUME ProcessEnds(r) PROVE Chain(r)'
  BY <1>0, <1>10 DEF Chain, Fresh, Asked, Carried, Goes, Consent, RequiresAsk, ProcessEnds, End, registryVars, Decisions, Allow
<1>11. ASSUME NodeInvoke(r) PROVE Chain(r)'
  BY <1>0, <1>11 DEF Chain, Fresh, Asked, Carried, Goes, Consent, RequiresAsk, NodeInvoke, Invoke, execVars, Decisions, Allow
<1>12. ASSUME InvokeReturns(r) PROVE Chain(r)'
  BY <1>0, <1>12 DEF Chain, Fresh, Asked, Carried, Goes, Consent, RequiresAsk, InvokeReturns, InvokeError, End, registryVars, Decisions, Allow
<1>13. ASSUME AskFails(r) PROVE Chain(r)'
  BY <1>0, <1>13 DEF Chain, Fresh, Asked, Carried, Goes, Consent, RequiresAsk, AskFails, End, registryVars, Decisions, Allow
<1>14. ASSUME InvokeFails(r) PROVE Chain(r)'
  BY <1>0, <1>14 DEF Chain, Fresh, Asked, Carried, Goes, Consent, RequiresAsk, InvokeFails, InvokeError, End, registryVars, Decisions, Allow
<1>15. ASSUME NEW d \in Decisions, Resolve(r, d) PROVE Chain(r)'
  BY <1>0, <1>15 DEF Chain, Fresh, Asked, Carried, Goes, Consent, RequiresAsk, Resolve, Decisions, registryVars, Allow
<1>16. ASSUME InvokeTimesOut(r) /\ UNCHANGED execVars PROVE Chain(r)'
  BY <1>0, <1>16 DEF Chain, Fresh, Asked, Carried, Goes, Consent, RequiresAsk, InvokeTimesOut, execVars, Decisions, Allow
<1>17. ASSUME NodeBegins(r) /\ UNCHANGED execVars PROVE Chain(r)'
  BY <1>0, <1>17 DEF Chain, Fresh, Asked, Carried, Goes, Consent, RequiresAsk, NodeBegins, execVars, Decisions, Allow
<1>18. ASSUME NodeAnswers(r) /\ UNCHANGED execVars PROVE Chain(r)'
  BY <1>0, <1>18 DEF Chain, Fresh, Asked, Carried, Goes, Consent, RequiresAsk, NodeAnswers, execVars, Decisions, Allow
<1> QED
  BY <1>1, <1>2, <1>3, <1>4, <1>5, <1>6, <1>7, <1>8, <1>9, <1>10, <1>11, <1>12, <1>13, <1>14, <1>15, <1>16, <1>17, <1>18 DEF Continue

-----------------------------------------------------------------------------
(* Types.                                                                  *)

(* The registry keeps its promises: a node it forgets has nothing pending. *)
LEMMA RegistryStepTypes ==
  ASSUME RegistryTypeOK,
         \/ RegistryNext \/ \E i \in Invokes : Invoke(i)
         \/ UNCHANGED registryVars
  PROVE  RegistryTypeOK'
<1> USE RegistryAssumption DEF RegistryTypeOK, Known
<1>1. ASSUME NEW c \in Conns, Register(c) PROVE RegistryTypeOK'
  BY <1>1 DEF Register
<1>2. ASSUME NEW c \in Conns, Break(c) PROVE RegistryTypeOK'
  BY <1>2 DEF Break
<1>3. ASSUME NEW c \in Conns, Unregister(c) PROVE RegistryTypeOK'
  <2>1. phase' \in [Invokes -> Phases]
    BY <1>3 DEF Unregister, Phases, Settlements
  <2>2. \A i \in Invokes : phase'[i] = "pending" => phase[i] = "pending" /\ TargetOf[i] # NodeOf[c]
    BY <1>3 DEF Unregister, Pending
  <2> QED
    BY <1>3, <2>1, <2>2 DEF Unregister
<1>4. ASSUME NEW i \in Invokes, InvokeTimesOut(i) PROVE RegistryTypeOK'
  BY <1>4 DEF InvokeTimesOut, Phases, Settlements
<1>5. ASSUME NEW i \in Invokes, NodeBegins(i) PROVE RegistryTypeOK'
  BY <1>5 DEF NodeBegins
<1>6. ASSUME NEW i \in Invokes, NodeAnswers(i) PROVE RegistryTypeOK'
  <2>1. phase' = phase \/ phase' = [phase EXCEPT ![i] = "ok"] \/ phase' = [phase EXCEPT ![i] = "refused"]
    BY <1>6 DEF NodeAnswers, HandleInvokeResult
  <2>2. job' = [job EXCEPT ![i] = "ended"] \/ job' = [job EXCEPT ![i] = "declined"]
    BY <1>6 DEF NodeAnswers
  <2>3. phase' \in [Invokes -> Phases]
    BY <2>1 DEF Phases, Settlements
  <2>4. job' \in [Invokes -> {"none", "running", "ended", "declined"}]
    BY <2>2
  <2>5. \A k \in Invokes : phase'[k] = "pending" => phase[k] = "pending"
    BY <2>1
  <2> QED
    BY <1>6, <2>3, <2>4, <2>5 DEF NodeAnswers
<1>7. ASSUME NEW i \in Invokes, Invoke(i) PROVE RegistryTypeOK'
  <2>1. \/ phase' = [phase EXCEPT ![i] = "unsent"] /\ via' = via
        \/ /\ byId[TargetOf[i]] # None
           /\ phase' = [phase EXCEPT ![i] = "pending"]
           /\ via' = [via EXCEPT ![i] = byId[TargetOf[i]]]
    BY <1>7 DEF Invoke
  <2>2. phase' \in [Invokes -> Phases] /\ via' \in [Invokes -> Conns \cup {None}]
    BY <2>1 DEF Phases, Settlements
  <2>3. \A k \in Invokes : phase'[k] = "pending" => phase[k] = "pending" \/ byId[TargetOf[k]] # None
    BY <2>1
  <2> QED
    BY <1>7, <2>2, <2>3 DEF Invoke
<1>8. CASE UNCHANGED registryVars
  BY <1>8 DEF registryVars
<1> QED
  BY <1>1, <1>2, <1>3, <1>4, <1>5, <1>6, <1>7, <1>8 DEF RegistryNext

(* What is saved is a version of the file.                                 *)
LEMMA SaveTyped ==
  ASSUME TypeOK, NEW v \in Seen, NEW r \in Requests, NEW added \in SUBSET Executables,
         SaveUses(r, v, added)
  PROVE  file' \in [allow : SUBSET Executables, policy : Policies, stamp : Nat]
<1>1. CASE file' = file
  BY <1>1 DEF TypeOK
<1>2. CASE file' = [allow |-> v.allow \cup added, policy |-> v.policy, stamp |-> file.stamp + 1]
  <2>1. v.allow \cup added \in SUBSET Executables /\ v.policy \in Policies
    BY DEF Seen
  <2>2. file.stamp + 1 \in Nat
    BY DEF TypeOK
  <2> QED
    BY <1>2, <2>1, <2>2
<1> QED
  BY <1>1, <1>2 DEF SaveUses, Save

(* The steps of a request keep the types of the commands' variables.       *)
LEMMA RequestStepTypes ==
  ASSUME TypeOK, NEW r \in Requests,
         \/ \E v \in Views(r) : Refuse(r, v) \/ Ask(r, v) \/ RunAtOnce(r, v) \/ InvokeAtOnce(r, v)
         \/ Continue(r) \/ AskFails(r) \/ InvokeFails(r) \/ \E d \in Decisions : Resolve(r, d)
  PROVE  TypeOK'
<1> USE DEF TypeOK
<1>0. UNCHANGED registryVars => RegistryTypeOK'
  BY RegistryStepTypes
<1>1. ASSUME NEW v \in Views(r), Refuse(r, v) PROVE TypeOK'
  BY <1>0, <1>1, ViewsTyped DEF Refuse, Begins
<1>2. ASSUME NEW v \in Views(r), Ask(r, v) PROVE TypeOK'
  BY <1>0, <1>2, ViewsTyped DEF Ask, Begins
<1>3. ASSUME NEW v \in Views(r), RunAtOnce(r, v) PROVE TypeOK'
  <2>1. v \in Seen /\ SaveUses(r, v, {})
    BY <1>3, ViewsTyped DEF RunAtOnce
  <2>2. file' \in [allow : SUBSET Executables, policy : Policies, stamp : Nat]
    BY <2>1, SaveTyped
  <2> QED
    BY <1>0, <1>3, <2>1, <2>2 DEF RunAtOnce, Begins
<1>4. ASSUME NEW v \in Views(r), InvokeAtOnce(r, v) PROVE TypeOK'
  BY <1>0, <1>4, ViewsTyped DEF InvokeAtOnce, Begins
<1>5. ASSUME ApprovalRequested(r) PROVE TypeOK'
  BY <1>0, <1>5 DEF ApprovalRequested
<1>6. ASSUME ApprovalExpires(r) PROVE TypeOK'
  BY <1>0, <1>6 DEF ApprovalExpires
<1>7. ASSUME Deny(r) PROVE TypeOK'
  BY <1>0, <1>7 DEF Deny, End
<1>8. ASSUME ProcessEnds(r) PROVE TypeOK'
  BY <1>0, <1>8 DEF ProcessEnds, End
<1>9. ASSUME InvokeReturns(r) PROVE TypeOK'
  BY <1>0, <1>9 DEF InvokeReturns, InvokeError, End
<1>10. ASSUME AskFails(r) PROVE TypeOK'
  BY <1>0, <1>10, ExecAssumption DEF AskFails, End, Trouble
<1>11. ASSUME InvokeFails(r) PROVE TypeOK'
  BY <1>0, <1>11, ExecAssumption DEF InvokeFails, InvokeError, End, Trouble
<1>12. ASSUME RunApproved(r) PROVE TypeOK'
  <2>1. seen[r] \in Seen /\ Granted(r) \in SUBSET Executables /\ SaveUses(r, seen[r], Granted(r))
    BY <1>12, ExecAssumption DEF RunApproved, Granted
  <2>2. file' \in [allow : SUBSET Executables, policy : Policies, stamp : Nat]
    BY <2>1, SaveTyped
  <2>3. /\ \/ stage' = [stage EXCEPT ![r] = "running"] /\ outcome' = outcome
           \/ End(r, "denied")
        /\ UNCHANGED <<registryVars, view, edits, troubles, seen, approval, decision, called>>
    BY <1>12 DEF RunApproved
  <2> QED
    BY <1>0, <2>2, <2>3 DEF End
<1>13. ASSUME InvokeApproved(r) PROVE TypeOK'
  <2>1. Verdict(r) \in {"approved", "unapproved"}
    BY <1>13 DEF InvokeApproved, Verdict
  <2> QED
    BY <1>0, <1>13, <2>1 DEF InvokeApproved
<1>14. ASSUME NodeInvoke(r) PROVE TypeOK'
  <2>1. RegistryTypeOK'
    BY <1>14, RegistryStepTypes, ExecAssumption DEF NodeInvoke
  <2> QED
    BY <1>14, <2>1 DEF NodeInvoke, execVars
<1>15. ASSUME NEW d \in Decisions, Resolve(r, d) PROVE TypeOK'
  BY <1>0, <1>15 DEF Resolve
<1> QED
  BY <1>1, <1>2, <1>3, <1>4, <1>5, <1>6, <1>7, <1>8, <1>9, <1>10, <1>11, <1>12, <1>13, <1>14, <1>15 DEF Continue

-----------------------------------------------------------------------------
(* The invariant and what follows from it.                                 *)

LEMMA NextInv == Inv /\ [Next]_vars => Inv'
<1> SUFFICES ASSUME Inv, [Next]_vars PROVE Inv'
  OBVIOUS
<1> USE ExecAssumption
<1>0. TypeOK /\ \A q \in Requests : Chain(q)
  BY DEF Inv
<1>1. ASSUME NEW r \in Requests,
             \/ \E v \in Views(r) : Refuse(r, v) \/ Ask(r, v) \/ RunAtOnce(r, v) \/ InvokeAtOnce(r, v)
             \/ Continue(r) \/ AskFails(r) \/ InvokeFails(r) \/ \E d \in Decisions : Resolve(r, d)
      PROVE  Inv'
  <2>1. TypeOK'
    BY <1>0, <1>1, RequestStepTypes
  <2>2. ASSUME NEW q \in Requests PROVE Chain(q)'
    <3>1. CASE q = r
      BY <1>1, <3>1, OwnChain
    <3>2. CASE q # r
      BY <1>0, <1>1, <3>2, OthersKept, ChainKept
    <3> QED
      BY <3>1, <3>2
  <2> QED
    BY <2>1, <2>2 DEF Inv
<1>2. ASSUME NEW r \in Requests,
             (InvokeTimesOut(r) \/ NodeBegins(r) \/ NodeAnswers(r)) /\ UNCHANGED execVars
      PROVE  Inv'
  <2>1. RegistryTypeOK'
    BY <1>0, <1>2, RegistryStepTypes DEF RegistryNext, TypeOK
  <2>2. TypeOK'
    BY <1>0, <1>2, <2>1 DEF TypeOK, execVars
  <2>3. ASSUME NEW q \in Requests PROVE Chain(q)'
    <3>1. CASE q = r
      BY <1>2, <3>1, OwnChain
    <3>2. CASE q # r
      BY <1>0, <1>2, <3>2, OthersKept, ChainKept
    <3> QED
      BY <3>1, <3>2
  <2> QED
    BY <2>2, <2>3 DEF Inv
<1>3. ASSUME NEW c \in Conns, Register(c) \/ Break(c) \/ Unregister(c), UNCHANGED execVars
      PROVE  Inv'
  <2>1. RegistryTypeOK'
    BY <1>0, <1>3, RegistryStepTypes DEF RegistryNext, TypeOK
  <2>2. TypeOK'
    BY <1>0, <1>3, <2>1 DEF TypeOK, execVars
  <2>3. ASSUME NEW q \in Requests PROVE Chain(q)'
    <3>1. Kept(q)
      BY <1>3 DEF Kept, execVars, Register, Break, Unregister
    <3> QED
      BY <1>0, <3>1, ChainKept
  <2> QED
    BY <2>2, <2>3 DEF Inv
<1>4. ASSUME GetApprovals \/ (\E version \in Versions : SetApprovals(version)) \/ UNCHANGED vars
      PROVE  Inv'
  <2>1. /\ UNCHANGED <<registryVars, stage, seen, approval, decision, called, outcome, troubles>>
        /\ file' \in [allow : SUBSET Executables, policy : Policies, stamp : Nat]
        /\ view' \in Nat /\ edits' \in 0..MaxEdits
    <3>1. CASE GetApprovals
      BY <1>0, <3>1 DEF GetApprovals, TypeOK
    <3>2. ASSUME NEW version \in Versions, SetApprovals(version)
          PROVE  <2>1
      <4>1. version.allow \in SUBSET Executables /\ version.policy \in Policies
        OBVIOUS
      <4>2. file.stamp + 1 \in Nat /\ edits \in 0..MaxEdits
        BY <1>0 DEF TypeOK
      <4>3. file' = [allow |-> version.allow, policy |-> version.policy, stamp |-> file.stamp + 1]
        BY <3>2 DEF SetApprovals, Save
      <4>4. view' = file.stamp + 1
        BY <3>2, <4>3 DEF SetApprovals
      <4> QED
        BY <3>2, <4>1, <4>2, <4>3, <4>4 DEF SetApprovals
    <3>3. CASE UNCHANGED vars
      BY <1>0, <3>3 DEF vars, execVars, TypeOK
    <3> QED
      BY <1>4, <3>1, <3>2, <3>3
  <2>2. RegistryTypeOK'
    BY <1>0, <2>1, RegistryStepTypes DEF TypeOK
  <2>3. TypeOK'
    BY <1>0, <2>1, <2>2 DEF TypeOK
  <2>4. ASSUME NEW q \in Requests PROVE Chain(q)'
    <3>1. Kept(q)
      BY <2>1 DEF Kept, registryVars
    <3> QED
      BY <1>0, <3>1, ChainKept
  <2> QED
    BY <2>3, <2>4 DEF Inv
<1> QED
  BY <1>1, <1>2, <1>3, <1>4 DEF Next, Begin, RegistryNext

THEOREM InductiveInvariant == Spec => []Inv
BY InitInv, NextInv, PTL DEF Spec

(* The types, and the promises of the registry: no closed connection is    *)
(* listed, and nothing awaited of a node that is not listed.               *)
THEOREM TypeCorrect == Spec => []TypeOK
<1>1. Inv => TypeOK
  BY DEF Inv
<1> QED
  BY <1>1, InductiveInvariant, PTL

(* Nothing runs without consent, for any policies, connections and bounds: *)
(* what was refused or denied never runs, and what the agent is told was   *)
(* denied as its call failed was consented to when it was asked for.       *)
THEOREM ConsentHolds == Spec => []Consented
BY ChainConsents, InductiveInvariant, PTL
=============================================================================
