-------------------------- MODULE ActionProposals --------------------------
(***************************************************************************)
(* The proposals by which the embedded agent asks the operator before it   *)
(* acts (agent/src/proposal.rs, ProposalManager).  Neither approve() nor   *)
(* reject() looks at the status; execute() does, and takes no other way    *)
(* for one of low risk, which autonomous_actions() lists as free to run.   *)
(***************************************************************************)
EXTENDS Integers

CONSTANTS
  ProposalIds,
  Operators,
  MaxApprovals  \* bound: approvals of one proposal

Nobody == "nobody"

ASSUME ProposalsAssumption == MaxApprovals \in Nat \ {0} /\ Nobody \notin Operators

VARIABLES
  proposals,   \* ProposalManager's map; NoProposal where an id is free
  approvals,   \* history: times each proposal was approved since it was created, the
               \* approval it was created with included
  executions   \* history: times it was executed

proposalVars == <<proposals, approvals, executions>>

ApprovalStatus == {"Pending", "Approved", "Rejected", "Executed", "Failed"}
RiskLevel == {"Low", "High"}  \* Medium and Critical are treated as High
NoProposal == [status |-> "None", risk |-> "None", decided_by |-> Nobody, executed |-> FALSE]

ActionProposal ==
  [status : ApprovalStatus, risk : RiskLevel, decided_by : Operators \cup {Nobody},
   executed : BOOLEAN]

ProposalsTypeOK ==
  /\ proposals \in [ProposalIds -> ActionProposal \cup {NoProposal}]
  /\ approvals \in [ProposalIds -> 0..MaxApprovals]
  /\ executions \in [ProposalIds -> Nat]
  /\ \A id \in ProposalIds : proposals[id].status = "Executed" /\ executions[id] > 0 => proposals[id].executed

ProposalsInit ==
  /\ proposals = [id \in ProposalIds |-> NoProposal]
  /\ approvals = [id \in ProposalIds |-> 0]
  /\ executions = [id \in ProposalIds |-> 0]

\* HashMap::insert(): a proposal with the same id is replaced.  The caller builds
\* the whole record, its status included.
create_proposal(id, proposal) ==
  /\ proposals' = [proposals EXCEPT ![id] = proposal]
  /\ approvals' = [approvals EXCEPT ![id] = IF proposal.status = "Approved" THEN 1 ELSE 0]
  /\ executions' = [executions EXCEPT ![id] = 0]

approve(id, operator) ==
  /\ proposals[id] # NoProposal
  /\ approvals[id] < MaxApprovals
  /\ proposals' = [proposals EXCEPT ![id].status = "Approved", ![id].decided_by = operator]
  /\ approvals' = [approvals EXCEPT ![id] = @ + 1]
  /\ UNCHANGED executions

reject(id, operator) ==
  /\ proposals[id] # NoProposal
  /\ proposals' = [proposals EXCEPT ![id].status = "Rejected", ![id].decided_by = operator]
  /\ UNCHANGED <<approvals, executions>>

\* The approval is not used up.
ExecuteKeepsApproval(id) ==
  /\ proposals[id].status = "Approved"
  /\ executions[id] <= MaxApprovals
  /\ proposals' = [proposals EXCEPT ![id].executed = TRUE]
  /\ executions' = [executions EXCEPT ![id] = @ + 1]
  /\ UNCHANGED approvals

\* No result is recorded.
ExecuteWithoutResult(id) ==
  /\ proposals[id].status = "Approved"
  /\ proposals' = [proposals EXCEPT ![id].status = "Executed"]
  /\ executions' = [executions EXCEPT ![id] = @ + 1]
  /\ UNCHANGED approvals

execute(id) ==
  /\ proposals[id].status = "Approved"
  /\ proposals' = [proposals EXCEPT ![id].status = "Executed", ![id].executed = TRUE]
  /\ executions' = [executions EXCEPT ![id] = @ + 1]
  /\ UNCHANGED approvals

ProposalsNext ==
  \E id \in ProposalIds :
    \/ \E proposal \in ActionProposal : create_proposal(id, proposal)
    \/ \E operator \in Operators : approve(id, operator) \/ reject(id, operator)
    \/ execute(id)

ProposalsSpec == ProposalsInit /\ [][ProposalsNext]_proposalVars

----------------------------------------------------------------------------
(* Properties                                                              *)

\* An approval is spent by one execution: over any history of approvals,
\* rejections and executions a consequential action runs at most once per approval,
\* and one that waits for an operator has not run.  Nothing is claimed of actions of
\* low risk, nor that an approval is an operator's: a caller may write Approved.
OneExecutionPerApproval ==
  \A id \in ProposalIds :
    proposals[id].risk # "Low" =>
      /\ executions[id] <= approvals[id]
      /\ proposals[id].status = "Pending" => executions[id] = 0

============================================================================
